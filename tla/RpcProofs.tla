----------------------------- MODULE RpcProofs ------------------------------
(***************************************************************************)
(* Theorems about Rpc, for any set of services, any number of processes    *)
(* and descriptors, and every choice of what may fail; and about the       *)
(* library context, which uses two services.                               *)
(***************************************************************************)
EXTENDS RpcService, ContextInvariant, FiniteSetTheorems, TLAPS

-----------------------------------------------------------------------------
(***************************************************************************)
(* The process table, the control state of the caller, the pids that       *)
(* struct rpc holds and the reason why a reaped process ends stay          *)
(* consistent.                                                             *)
(***************************************************************************)
(* A caller that may also initialize a service that is initialized, as     *)
(* nvc_init does when it is called again after a failure.                  *)
Reinit  == parent /\ pc = "idle" /\ \E s \in Services : service_init(s)
AnyNext == Next \/ Reinit

(* What a service process can do while its caller lives: it only moves     *)
(* itself, towards the exit, and consumes its own requests.                *)
LEMMA ServiceEffect ==
  ASSUME TypeOK, parent, NEW p \in Pids, ServiceStep(p) \/ Handle(p)
  PROVE  /\ UNCHANGED <<parent, pc, op, cur, caller, force, ret, rpc, ctxinit, fdt,
                        owner, term, kill>>
         /\ st[p] \in Live
         /\ \A q \in Pids : q # p => st'[q] = st[q] /\ reqs'[q] = reqs[q]
         /\ st'[p] \in Live \cup {"zombie"}
         /\ st[p] \in Gone => st'[p] \in Gone
         /\ st'[p] \in SockOpen => st[p] \in SockOpen
         /\ \/ reqs'[p] = reqs[p]
            \/ reqs'[p] = <<>>
            \/ reqs[p] # <<>> /\ reqs'[p] = Tail(reqs[p])
<1> USE DEF TypeOK
<1>1. CASE Dies(p) /\ st[p] \in Live
  <2>1. /\ st' = [st EXCEPT ![p] = "zombie"]
        /\ reqs' = [reqs EXCEPT ![p] = <<>>]
        /\ UNCHANGED <<owner, pdeath, term, kill>>
    BY Zenon, <1>1 DEF Dies
  <2>2. UNCHANGED <<parent, pc, op, cur, caller, force, ret, rpc, ctxinit, fdt>>
    BY Zenon DEF ServiceStep, SetPdeathsig, CheckParent, Register, SvcDestroy, Exit,
       DeliverSignal, Handle, HandleInit, HandleQuery, HandleShutdown,
       HandlerCrashes, Replies, mainvars, rpcvars
  <2> QED BY Zenon, <1>1, <2>1, <2>2 DEF Gone, Live, Starting, SockOpen
<1>2. CASE SetPdeathsig(p) /\ ~Dies(p)
  BY Zenon, <1>2 DEF SetPdeathsig, mainvars, rpcvars, Gone, Live, Starting, SockOpen
<1>3. CASE CheckParent(p)
  BY Zenon, <1>3 DEF CheckParent, mainvars, rpcvars, Gone, Live, Starting, SockOpen
<1>4. CASE Register(p) /\ ~Dies(p)
  BY Zenon, <1>4 DEF Register, mainvars, rpcvars, Gone, Live, Starting, SockOpen
<1>5. CASE SvcDestroy(p)
  BY Zenon, <1>5 DEF SvcDestroy, mainvars, rpcvars, Gone, Live, Starting, SockOpen
<1>6. CASE HandleInit(p) \/ HandleQuery(p)
  BY Zenon, <1>6 DEF HandleInit, HandleQuery, Dispatches, Replies, rpcvars, Gone, Live,
     Starting, SockOpen
<1>7. CASE HandleShutdown(p)
  BY Zenon, <1>7 DEF HandleShutdown, Dispatches, Replies, rpcvars, Gone, Live, Starting,
     SockOpen
<1> QED BY Zenon, <1>1, <1>2, <1>3, <1>4, <1>5, <1>6, <1>7
        DEF ServiceStep, Handle, SetPdeathsig, Register, Exit, DeliverSignal,
            HandlerCrashes, Live, Starting

(* fork, waitpid and exit keep the process table consistent. *)
LEMMA ProcNext == TypeOK /\ PidInv /\ ProcInv /\ [AnyNext]_vars => ProcInv'
<1> SUFFICES ASSUME TypeOK, PidInv, ProcInv, [AnyNext]_vars PROVE ProcInv'
  OBVIOUS
<1> USE RpcAssumption DEF TypeOK, ProcInv, NoSvc, Foreign
<1>1. ASSUME NEW p \in Pids, Released(p) PROVE ProcInv'
  BY Zenon, <1>1 DEF Released
<1>2. ASSUME NEW s \in Services, service_init(s) PROVE ProcInv'
  BY <1>2 DEF service_init, InitFork, ForkService, InitNoFork, InitNoPath, procvars
<1>3. ASSUME NEW s \in Services, service_query(s) \/ service_shutdown(s)
      PROVE ProcInv'
  BY Zenon, <1>3 DEF service_query, service_shutdown, procvars
<1>4. CASE MainStep
  <2> pc \in Calling \cup Reaping => mypid \in Pids
    BY Zenon, <1>4 DEF MainStep, PidInv
  <2>1. CASE Reap \/ Waitpid
    BY Zenon, <2>1, <1>1 DEF Reap, Waitpid, Reaping, procvars
  <2>2. CASE UNCHANGED <<owner, st>>
    BY Zenon, <2>2
  <2> QED BY Zenon, <1>4, <2>1, <2>2
          DEF MainStep, setup_client, Send, CallReturns, PollFails, PollReady,
              PollTimeout, RpcInitFailed, RpcShutdownDone, procvars
<1>5. ASSUME NEW p \in Pids, Dies(p), st[p] \in Live PROVE ProcInv'
  BY <1>1, <1>5 DEF Dies, Live, Starting
<1>6. ASSUME NEW p \in Pids, ServiceStep(p) PROVE ProcInv'
  <2>1. CASE Dies(p) /\ st[p] \in Live
    BY Zenon, <1>5, <2>1
  <2>2. CASE ~(Dies(p) /\ st[p] \in Live)
    BY <1>6, <2>2 DEF ServiceStep, SetPdeathsig, CheckParent, Register, SvcDestroy,
       Exit, DeliverSignal, Live, Starting
  <2> QED BY Zenon, <2>1, <2>2
<1>7. ASSUME NEW p \in Pids, Handle(p) PROVE ProcInv'
  <2>1. CASE HandlerCrashes(p)
    BY Zenon, <1>5, <2>1 DEF HandlerCrashes, Live
  <2>2. CASE HandleInit(p) \/ HandleQuery(p) \/ HandleShutdown(p)
    BY <2>2 DEF HandleInit, HandleQuery, HandleShutdown, Dispatches, Replies
  <2> QED BY Zenon, <1>7, <2>1, <2>2 DEF Handle
<1>8. ASSUME NEW p \in Pids, ForeignStarts(p) \/ ForeignEnds(p) PROVE ProcInv'
  BY ZenonT(60), <1>1, <1>8 DEF ForeignStarts, ForeignEnds
<1>9. CASE ParentDies
  BY Zenon, <1>9 DEF ParentDies
<1>10. CASE Return \/ CallerOpens \/ CallerCloses
  BY Zenon, <1>10 DEF Return, CallerOpens, CallerCloses, procvars
<1>11. CASE UNCHANGED vars
  BY Zenon, <1>11 DEF vars, procvars
<1> QED
  BY Zenon, <1>2, <1>3, <1>4, <1>6, <1>7, <1>8, <1>9, <1>10, <1>11
     DEF AnyNext, Reinit, Next, Begin, SystemStep, Environment

(* Every path through init, query and shutdown keeps what its place implies. *)
LEMMA ControlNext == TypeOK /\ ControlInv /\ [AnyNext]_vars => ControlInv'
<1> SUFFICES ASSUME TypeOK, ControlInv, [AnyNext]_vars PROVE ControlInv'
  OBVIOUS
<1> USE DEF TypeOK, ControlInv, Calling, Reaping
<1>1. ASSUME NEW s \in Services, service_init(s) PROVE ControlInv'
  BY <1>1 DEF service_init, InitFork, ForkService, InitNoFork, InitNoPath
<1>2. ASSUME NEW s \in Services, ctxinit[s] /\ service_query(s) PROVE ControlInv'
  BY Zenon, <1>2 DEF service_query, rpcvars
<1>3. ASSUME NEW s \in Services, service_shutdown(s) PROVE ControlInv'
  BY Zenon, <1>3 DEF service_shutdown, rpcvars
<1>4. CASE MainStep
  <2>1. CASE setup_client
    BY Zenon, <2>1 DEF setup_client
  <2>2. ASSUME NEW r \in {"ok", "error"}, CallReturns(r) PROVE ControlInv'
    BY Zenon, <2>2 DEF CallReturns, Ops
  <2>3. CASE RpcShutdownDone
    BY SMTT(120), <2>3 DEF RpcShutdownDone
  <2>4. CASE Send \/ Reap \/ PollFails \/ PollReady \/ PollTimeout \/ Waitpid
             \/ RpcInitFailed
    BY Zenon, <2>4 DEF Send, Reap, PollFails, PollReady, PollTimeout, Waitpid,
       RpcInitFailed, rpcvars
  <2> QED BY Zenon, <1>4, <2>1, <2>2, <2>3, <2>4 DEF MainStep
<1>5. CASE UNCHANGED <<pc, op, cur, caller, force, rpc, ctxinit>>
  BY Zenon, <1>5
<1>6. ASSUME NEW p \in Pids, ServiceStep(p) PROVE ControlInv'
  BY SMTT(120), <1>5, <1>6 DEF ServiceStep, SetPdeathsig, CheckParent, Register, SvcDestroy,
     Exit, DeliverSignal, mainvars, rpcvars
<1>7. ASSUME NEW p \in Pids, Handle(p) PROVE ControlInv'
  BY Zenon, <1>5, <1>7 DEF Handle, HandleInit, HandleQuery, HandleShutdown,
     HandlerCrashes, Replies, mainvars, rpcvars
<1>8. ASSUME NEW p \in Pids, ForeignStarts(p) \/ ForeignEnds(p) PROVE ControlInv'
  BY Zenon, <1>5, <1>8 DEF ForeignStarts, ForeignEnds, mainvars, rpcvars
<1>9. CASE ParentDies \/ CallerOpens \/ CallerCloses
  BY Zenon, <1>5, <1>9 DEF ParentDies, CallerOpens, CallerCloses, mainvars, rpcvars
<1>10. CASE Return
  BY Zenon, <1>10 DEF Return, rpcvars
<1>11. CASE UNCHANGED vars
  BY Zenon, <1>5, <1>11 DEF vars, mainvars, rpcvars
<1> QED
  BY Zenon, <1>1, <1>2, <1>3, <1>4, <1>6, <1>7, <1>8, <1>9, <1>10, <1>11
     DEF AnyNext, Reinit, Next, Begin, SystemStep, Environment

(* The parts about pids survive a step that leaves struct rpc and the      *)
(* children alone and moves the thread forward: to the reaping from a call *)
(* or within it, and to "reaped" with success only from a childless pid.   *)
LEMMA PidKept ==
  ASSUME parent, cur \in Services, PidInv, InitializedPidIsChild,
         UNCHANGED <<cur, rpc, ctxinit>>,
         \A q \in Pids : /\ owner'[q] \in Services => owner[q] \in Services
                         /\ owner[q] \in Services => owner'[q] = owner[q],
         pc' \in Calling => pc \in Calling,
         pc' \in Reaping => pc \in Calling \cup Reaping,
         pc' \in Reaping \ {"reaped"} /\ rpc[cur].initialized => ~(pc = "reaped"),
         pc' = "reaped" /\ ret' = 0 => ~Child(mypid),
         pc = "reaped" /\ ret = 0 /\ ctxinit[cur] => pc' = "reaped" /\ ret' = 0
  PROVE  PidInv' /\ InitializedPidIsChild'
<1>1. mypid' = mypid
  BY Zenon DEF mypid
<1>2. ASSUME pc' \in Calling PROVE mypid \in Pids /\ owner'[mypid] = cur
  BY Zenon, <1>2 DEF PidInv
<1>3. ASSUME pc' \in Reaping
      PROVE mypid \in Pids /\ (owner'[mypid] = cur \/ owner'[mypid] \notin Services)
  BY Zenon, <1>3 DEF PidInv, Child
<1>4. ASSUME pc' = "reaped", ret' = 0 PROVE owner'[mypid] \notin Services
  BY Zenon, <1>3, <1>4 DEF Child, Reaping
<1>5. ASSUME pc' \in Reaping \ {"reaped"}, rpc[cur].initialized PROVE owner'[mypid] = cur
  BY Zenon, <1>5 DEF PidInv
<1>6. PidInv'
  BY Zenon, <1>1, <1>2, <1>3, <1>4, <1>5 DEF PidInv, Child
<1>7. InitializedPidIsChild'
  BY ZenonT(30) DEF InitializedPidIsChild
<1> QED BY Zenon, <1>6, <1>7

(* The pid in use and the pids of the initialized contexts. *)
LEMMA PidNext ==
  TypeOK /\ ProcInv /\ ControlInv /\ PidInv /\ InitializedPidIsChild /\ [AnyNext]_vars
    => PidInv' /\ InitializedPidIsChild'
<1> SUFFICES ASSUME TypeOK, ProcInv, ControlInv, PidInv, InitializedPidIsChild,
                    [AnyNext]_vars, parent'
             PROVE  PidInv' /\ InitializedPidIsChild'
  BY SMTT(120) DEF PidInv, InitializedPidIsChild
<1> USE RpcAssumption DEF TypeOK, PidInv, InitializedPidIsChild, mypid, Child,
        Calling, Reaping
<1>1. ASSUME NEW s \in Services, service_init(s), parent, pc = "idle"
      PROVE PidInv' /\ InitializedPidIsChild'
  <2>1. CASE InitFork(s)
    <3>1. PICK p \in Pids, a \in Fd, b \in Fd :
            /\ st[p] = "free"
            /\ rpc' = [rpc EXCEPT ![s] = [initialized |-> FALSE, clt_fd |-> a,
                                  svc_fd |-> b, pid |-> p, clt |-> FALSE]]
            /\ owner' = [owner EXCEPT ![p] = s]
      BY Zenon, <2>1 DEF InitFork, ForkService
    <3>2. owner[p] \notin Services
      BY SMTT(120), <3>1 DEF ProcInv
    <3>3. cur' = s /\ pc' = "setup_client" /\ ctxinit' = [ctxinit EXCEPT ![s] = FALSE]
      BY Zenon, <2>1 DEF InitFork
    <3> QED BY <1>1, <3>1, <3>2, <3>3
  <2>2. CASE InitNoFork(s) \/ InitNoPath(s)
    <3>1. /\ rpc' = [rpc EXCEPT ![s] = ResetRpc]
          /\ ctxinit' = [ctxinit EXCEPT ![s] = FALSE]
          /\ pc' = "returned" /\ owner' = owner
      BY ZenonT(60), <2>2 DEF InitNoFork, InitNoPath, procvars
    <3> QED BY <1>1, <3>1
  <2> QED BY Zenon, <1>1, <2>1, <2>2 DEF service_init
<1>2. ASSUME NEW s \in Services, parent, pc = "idle",
             (ctxinit[s] /\ service_query(s)) \/ service_shutdown(s)
      PROVE PidInv' /\ InitializedPidIsChild'
  BY <1>2 DEF service_query, service_shutdown, rpcvars, procvars
<1>3. ASSUME MainStep PROVE PidInv' /\ InitializedPidIsChild'
  <2> USE <1>3
  <2> parent
    BY Zenon DEF MainStep
  <2>1. CASE setup_client
    <3>1. rpc'[cur].pid = rpc[cur].pid /\ \A s \in Services : rpc'[s].pid = rpc[s].pid
      <4> DEFINE r == [rpc[cur] EXCEPT !.clt = TRUE, !.initialized = TRUE]
      <4>1. r.pid = rpc[cur].pid
        <5>1. rpc[cur] \in RpcStruct
          OBVIOUS
        <5> HIDE DEF TypeOK
        <5> QED BY Zenon, <5>1 DEF RpcStruct
      <4>2. rpc' = [rpc EXCEPT ![cur] = r] \/ rpc' = rpc
        BY Zenon, <2>1 DEF setup_client
      <4> HIDE DEF r
      <4> QED BY Zenon, <4>1, <4>2
    <3>2. UNCHANGED <<cur, ctxinit, owner>> /\ pc' \in {"call", "reap"}
          /\ pc = "setup_client"
      BY Zenon, <2>1 DEF setup_client, procvars
    <3> QED BY Zenon, <3>1, <3>2
  <2>2. ASSUME NEW r \in {"ok", "error"}, CallReturns(r)
        PROVE PidInv' /\ InitializedPidIsChild'
    BY ZenonT(60), <2>2 DEF CallReturns, procvars
  <2>3. CASE Send
    BY Zenon, <2>3 DEF Send, rpcvars
  <2>4. CASE \/ Reap /\ Child(mypid) /\ st[mypid] = "zombie"
             \/ Waitpid /\ Child(mypid)
    <3>1. /\ owner' = [owner EXCEPT ![mypid] = NoSvc]
          /\ UNCHANGED <<cur, rpc, ctxinit>>
          /\ pc' = "reaped" /\ ret' = 0 /\ pc \in Reaping
      BY Zenon, <2>4 DEF Reap, Waitpid, Released, rpcvars, Reaping
    <3>2. owner[mypid] = cur /\ mypid \in Pids
      BY Zenon, <2>4, <3>1
    <3>3. /\ owner'[mypid] \notin Services
          /\ \A q \in Pids : owner[q] # cur => owner'[q] = owner[q]
      BY <3>1, <3>2
    <3>4. mypid' = mypid /\ parent
      BY Zenon, <3>1
    <3>5. PidInv'
      BY Zenon, <3>1, <3>2, <3>3, <3>4
    <3>6. InitializedPidIsChild'
      <4>1. ASSUME NEW s \in Services, ctxinit[s], s # cur
            PROVE rpc[s].pid \in Pids /\ owner'[rpc[s].pid] = s
        <5>1. rpc[s].pid \in Pids /\ owner[rpc[s].pid] = s
          BY Zenon, <3>4, <4>1
        <5> QED BY Zenon, <3>3, <4>1, <5>1
      <4> QED BY Zenon, <3>1, <4>1
    <3> QED BY Zenon, <3>5, <3>6
  <2>5. CASE Reap /\ ~(Child(mypid) /\ st[mypid] = "zombie")
    <3>1. pc = "reap" /\ pc' = "poll" /\ UNCHANGED <<cur, rpc, ctxinit, owner>>
      BY Zenon, <2>5 DEF Reap, rpcvars
    <3> QED BY Zenon, <3>1, PidKept
  <2>6. CASE Waitpid /\ ~Child(mypid)
    <3>1. /\ pc = "waitpid" /\ pc' = "reaped"
          /\ UNCHANGED <<cur, rpc, ctxinit, owner>>
      BY Zenon, <2>6 DEF Waitpid, rpcvars, procvars
    <3> QED BY Zenon, <2>6, <3>1, PidKept
  <2>7. CASE PollFails \/ PollReady \/ PollTimeout
    <3>1. /\ pc = "poll" /\ pc' \in {"waitpid", "reaped"}
          /\ pc' = "reaped" => ret' = -1
          /\ UNCHANGED <<cur, rpc, ctxinit, owner>>
      BY Zenon, <2>7 DEF PollFails, PollReady, PollTimeout, rpcvars, procvars
    <3>2. pc' = "reaped" => ret' # 0
      BY <3>1
    <3> QED BY Zenon, <3>1, <3>2, PidKept
  <2>8. CASE RpcInitFailed
    <3>1. /\ pc = "reaped" /\ caller = "rpc_init" /\ pc' = "reap"
          /\ UNCHANGED <<cur, rpc, ctxinit, owner>>
      BY Zenon, <2>8 DEF RpcInitFailed, rpcvars, procvars
    <3>2. ~rpc[cur].initialized /\ ~ctxinit[cur]
      BY Zenon, <3>1 DEF ControlInv
    <3> QED BY Zenon, <3>1, <3>2, PidKept
  <2>9. CASE RpcShutdownDone
    <3>1. UNCHANGED <<cur, owner>> /\ pc' = "returned" /\ pc = "reaped"
      BY Zenon, <2>9 DEF RpcShutdownDone, procvars
    <3>2. CASE ret = 0
      <4>1. rpc' = [rpc EXCEPT ![cur] = ResetRpc]
        BY SMTT(120), <2>9, <3>2 DEF RpcShutdownDone
      <4>2. CASE op = "shutdown"
        <5>1. ctxinit' = [ctxinit EXCEPT ![cur] = FALSE]
          BY SMTT(120), <2>9, <3>2, <4>2 DEF RpcShutdownDone
        <5> QED BY <3>1, <4>1, <5>1
      <4>3. CASE op # "shutdown"
        <5>1. ctxinit' = ctxinit /\ ~ctxinit[cur]
          BY SMTT(120), <2>9, <3>1, <4>3 DEF RpcShutdownDone, ControlInv, Ops
        <5> QED BY <3>1, <4>1, <5>1
      <4> QED BY Zenon, <4>2, <4>3
    <3>3. CASE ret # 0
      BY ZenonT(60), <2>9, <3>1, <3>3 DEF RpcShutdownDone
    <3> QED BY Zenon, <3>2, <3>3
  <2> QED BY ZenonT(60), <2>1, <2>2, <2>3, <2>4, <2>5, <2>6, <2>7, <2>8, <2>9 DEF MainStep
<1>4. ASSUME NEW p \in Pids, parent, ServiceStep(p) \/ Handle(p)
      PROVE PidInv' /\ InitializedPidIsChild'
  <2>1. UNCHANGED <<pc, cur, ret, rpc, ctxinit, owner>>
    BY Zenon, <1>4, ServiceEffect
  <2>2. pc = "reaped" /\ ret = 0 => ~Child(mypid)
    BY Zenon, <1>4
  <2> QED BY Zenon, <1>4, <2>1, <2>2, PidKept
<1>5. ASSUME NEW p \in Pids, ForeignStarts(p) PROVE PidInv' /\ InitializedPidIsChild'
  <2>1. owner[p] \notin Services /\ owner' = [owner EXCEPT ![p] = Foreign]
    <3>1. st[p] = "free" /\ owner' = [owner EXCEPT ![p] = Foreign]
      BY Zenon, <1>5 DEF ForeignStarts
    <3>2. owner[p] = NoSvc
      BY Zenon, <3>1 DEF ProcInv
    <3> QED BY Zenon, <3>1, <3>2, RpcAssumption
  <2>2. parent /\ UNCHANGED <<pc, cur, ret, rpc, ctxinit>>
    BY Zenon, <1>5 DEF ForeignStarts, mainvars, rpcvars
  <2>3. \A q \in Pids : (owner'[q] \in Services <=> owner[q] \in Services)
                       /\ (owner[q] \in Services => owner'[q] = owner[q])
    <3> HIDE DEF PidInv, InitializedPidIsChild
    <3> QED BY Zenon, <2>1, RpcAssumption
  <2>4. pc = "reaped" /\ ret = 0 => ~Child(mypid)
    BY Zenon, <2>2
  <2> QED BY Zenon, <2>2, <2>3, <2>4, PidKept
<1>6. ASSUME NEW p \in Pids, ForeignEnds(p) PROVE PidInv' /\ InitializedPidIsChild'
  <2>1. owner[p] \notin Services /\ owner' = [owner EXCEPT ![p] = NoSvc]
    <3>1. st[p] = "other" /\ owner' = [owner EXCEPT ![p] = NoSvc]
      BY Zenon, <1>6 DEF ForeignEnds, Released
    <3>2. owner[p] = Foreign
      BY Zenon, <3>1 DEF ProcInv
    <3> QED BY Zenon, <3>1, <3>2, RpcAssumption
  <2>2. parent /\ UNCHANGED <<pc, cur, ret, rpc, ctxinit>>
    BY Zenon, <1>6 DEF ForeignEnds, mainvars, rpcvars
  <2>3. \A q \in Pids : (owner'[q] \in Services <=> owner[q] \in Services)
                       /\ (owner[q] \in Services => owner'[q] = owner[q])
    <3> HIDE DEF PidInv, InitializedPidIsChild
    <3> QED BY Zenon, <2>1, RpcAssumption
  <2>4. pc = "reaped" /\ ret = 0 => ~Child(mypid)
    BY Zenon, <2>2
  <2> QED BY Zenon, <2>2, <2>3, <2>4, PidKept
<1>7. CASE Return \/ CallerOpens \/ CallerCloses
  BY ZenonT(60), <1>7 DEF Return, CallerOpens, CallerCloses, mainvars, rpcvars, procvars
<1>8. CASE UNCHANGED vars
  BY ZenonT(60), <1>8 DEF vars, mainvars, rpcvars, procvars
<1>9. ~ParentDies
  BY Zenon DEF ParentDies
<1>10. ASSUME NEW p \in Pids, ServiceStep(p) \/ Handle(p) PROVE parent
  BY Zenon, <1>10 DEF ServiceStep, SetPdeathsig, CheckParent, Register, SvcDestroy,
     Exit, DeliverSignal, Handle, HandleInit, HandleQuery, HandleShutdown,
     HandlerCrashes, Replies
<1> QED
  BY Zenon, <1>1, <1>2, <1>3, <1>4, <1>5, <1>6, <1>7, <1>8, <1>9, <1>10
     DEF AnyNext, Reinit, Next, Begin, SystemStep, Environment
-----------------------------------------------------------------------------
(* What is being reaped is about to end. *)

(* A handler answers the pending shutdown only by leaving svc_run: the     *)
(* answer that counts is the one to the last request written.              *)
LEMMA AnswerToShutdown ==
  ASSUME TypeOK, DyingInv, parent, NEW p \in Pids, Handle(p), reply' # reply,
         pc = "wait", op = "shutdown", reply' = "ok"
  PROVE  p = mypid /\ st'[p] = "leaving"
<1> USE DEF TypeOK
<1>1. PICK r \in {"ok", "error"} : Replies(p, r)
  BY Zenon DEF Handle, HandleInit, HandleQuery, HandleShutdown, HandlerCrashes, mainvars
<1>2. st[p] = "run" /\ reqs[p] # <<>>
  BY Zenon DEF Handle, HandleInit, HandleQuery, HandleShutdown, HandlerCrashes, Dispatches
<1>3. mypid = p /\ ClientSocket(cur) /\ Len(reqs[p]) = 1
  BY Zenon, <1>1 DEF Replies
<1>4. reqs[p][Len(reqs[p])] = "shutdown"
  BY Zenon, <1>2, <1>3 DEF DyingInv, SockOpen
<1>5. Head(reqs[p]) = "shutdown"
  BY <1>2, <1>3, <1>4
<1>6. HandleShutdown(p)
  BY Zenon, <1>5 DEF Handle, HandleInit, HandleQuery, HandlerCrashes, Dispatches, mainvars
<1>7. ~(Replies(p, "error") /\ UNCHANGED st)
  BY Zenon, <1>3 DEF Replies
<1> QED BY Zenon, <1>3, <1>6, <1>7 DEF HandleShutdown

(* Whatever happens between two steps of reap_process, its child keeps dying. *)
LEMMA DyingNext ==
  TypeOK /\ ProcInv /\ ControlInv /\ PidInv /\ DyingInv /\ WaitsOnlyForTheDying
    /\ [Next]_vars => DyingInv' /\ WaitsOnlyForTheDying'
<1> SUFFICES ASSUME TypeOK, ProcInv, ControlInv, PidInv, DyingInv,
                    WaitsOnlyForTheDying, [Next]_vars, parent'
             PROVE  DyingInv' /\ WaitsOnlyForTheDying'
  BY Zenon DEF DyingInv, WaitsOnlyForTheDying
<1> USE RpcAssumption DEF TypeOK
<1>1. CASE pc' \notin {"wait", "reap", "poll", "waitpid", "reaped"}
  BY Zenon, <1>1 DEF DyingInv, WaitsOnlyForTheDying
<1>2. CASE MainStep
  <2> USE <1>2
  <2>a. parent /\ (pc \in Calling \cup Reaping => mypid \in Pids)
    BY Zenon DEF MainStep, PidInv
  <2>1. CASE setup_client
    BY Zenon, <1>1, <2>1 DEF setup_client, DyingInv, WaitsOnlyForTheDying
  <2>2. CASE Send
    <3>1. mypid \in Pids /\ UNCHANGED <<cur, rpc, op, fdt, st>> /\ mypid' = mypid
          /\ pc' = "wait" /\ reply' = "none"
      BY Zenon, <2>2, <2>a DEF Send, rpcvars, mypid, Calling
    <3>2. ClientSocket(cur)' = ClientSocket(cur)
      BY Zenon, <3>1 DEF ClientSocket
    <3>3. ASSUME ClientSocket(cur), st[mypid] \in SockOpen
          PROVE reqs'[mypid][Len(reqs'[mypid])] = op
      <4>1. reqs'[mypid] = Append(reqs[mypid], op) /\ reqs[mypid] \in Seq(Ops)
        BY Zenon, <2>2, <3>1, <3>3 DEF Send
      <4> QED BY <4>1
    <3> QED BY Zenon, <3>1, <3>2, <3>3 DEF DyingInv, WaitsOnlyForTheDying
  <2>3. ASSUME NEW r \in {"ok", "error"}, CallReturns(r)
        PROVE DyingInv' /\ WaitsOnlyForTheDying'
    BY Zenon, <1>1, <2>3, <2>a DEF CallReturns, DyingInv, WaitsOnlyForTheDying, procvars,
       mypid, Child, Ops
  <2>4. CASE Reap
    <3>1. CASE pc' = "reaped"
      BY SMTT(120), <2>4, <3>1, <2>a DEF Reap, Released, DyingInv, WaitsOnlyForTheDying, mypid,
         Child, rpcvars, NoSvc, Reaping
    <3>2. CASE pc' # "reaped"
      <4>1. /\ pc' = "poll" /\ UNCHANGED <<cur, rpc, force, owner, st>>
            /\ term' = (IF force THEN Signalled(term, mypid) ELSE term)
            /\ mypid' = mypid /\ mypid \in Pids /\ pc = "reap"
        BY Zenon, <2>4, <3>2, <2>a DEF Reap, rpcvars, mypid, Reaping
      <4>2. ASSUME force, Child(mypid), st[mypid] # "zombie", cur \notin KillDenied
            PROVE term'[mypid]
        <5>1. owner[mypid] = cur
          BY Zenon, <4>1, <4>2, <2>a DEF PidInv, Reaping
        <5>2. st[mypid] \in Live
          BY Zenon, <4>1, <4>2 DEF ProcInv, Child, States
        <5> QED BY <4>1, <4>2, <5>1, <5>2 DEF Signalled
      <4> QED BY Zenon, <4>1, <4>2, <2>a DEF DyingInv, WaitsOnlyForTheDying, Child
    <3> QED BY Zenon, <3>1, <3>2
  <2>5. CASE PollFails
    BY Zenon, <2>5, <2>a DEF PollFails, DyingInv, WaitsOnlyForTheDying, mypid, Child,
       rpcvars, procvars
  <2>6. CASE PollReady
    <3>1. /\ pc' = "waitpid" /\ pc = "poll"
          /\ UNCHANGED <<cur, rpc, force, fdt, owner, st, term, kill>>
          /\ mypid' = mypid /\ mypid \in Pids /\ HungUp
      BY Zenon, <2>6, <2>a DEF PollReady, rpcvars, procvars, mypid, Reaping
    <3>2. ReapsWithoutSocket' = ReapsWithoutSocket
      BY Zenon, <3>1 DEF ReapsWithoutSocket, ClientSocket
    <3>3. DyingInv'
      BY Zenon, <3>1, <2>a DEF DyingInv, Child
    <3>4. ASSUME Child(mypid), st[mypid] \notin Gone, ~ReapsWithoutSocket
          PROVE term[mypid] /\ ~TermBlocked
      <4>1. ~ClientSocket(cur)
        BY Zenon, <3>1, <3>4 DEF HungUp, ProcInv, Child, States, Live, SockOpen, Gone
      <4>2. force
        BY Zenon, <3>1, <3>4, <2>a DEF DyingInv
      <4> QED BY Zenon, <3>1, <3>4, <4>1, <4>2, <2>a DEF DyingInv, ReapsWithoutSocket, Gone
    <3> QED BY Zenon, <3>1, <3>2, <3>3, <3>4 DEF WaitsOnlyForTheDying, Child, Gone
  <2>7. CASE PollTimeout
    <3>1. /\ pc = "poll" /\ pc' \in {"waitpid", "reaped"}
          /\ UNCHANGED <<cur, rpc, force, fdt, owner, st, term>>
          /\ mypid' = mypid /\ mypid \in Pids /\ ~HungUp
      BY Zenon, <2>7, <2>a DEF PollTimeout, rpcvars, mypid, Reaping
    <3>2. DyingInv'
      BY Zenon, <3>1, <2>a DEF DyingInv, Child
    <3>3. ASSUME pc' = "waitpid" PROVE kill'[mypid]
      BY ZenonT(30), <2>7, <3>1, <3>3 DEF PollTimeout, Signalled, HungUp, SockOpen, Live
    <3> QED BY Zenon, <3>1, <3>2, <3>3 DEF WaitsOnlyForTheDying
  <2>8. CASE Waitpid
    BY SMTT(120), <2>8, <2>a DEF Waitpid, Released, DyingInv, WaitsOnlyForTheDying, mypid,
       Child, rpcvars, procvars, NoSvc, Reaping
  <2>9. CASE RpcInitFailed
    <3>1. pc' = "reap" /\ force' = TRUE
      BY Zenon, <2>9 DEF RpcInitFailed
    <3> QED BY Zenon, <3>1 DEF DyingInv, WaitsOnlyForTheDying
  <2>10. CASE RpcShutdownDone
    BY Zenon, <1>1, <2>10 DEF RpcShutdownDone
  <2> QED BY Zenon, <2>1, <2>2, <2>3, <2>4, <2>5, <2>6, <2>7, <2>8, <2>9, <2>10
          DEF MainStep
<1>3. ASSUME NEW p \in Pids, parent, ServiceStep(p) \/ Handle(p)
      PROVE DyingInv' /\ WaitsOnlyForTheDying'
  <2>1. /\ UNCHANGED <<pc, op, cur, force, rpc, fdt, owner, term, kill>>
        /\ st[p] \in Live
        /\ \A q \in Pids : q # p => st'[q] = st[q] /\ reqs'[q] = reqs[q]
        /\ st[p] \in Gone => st'[p] \in Gone
        /\ st'[p] \in SockOpen => st[p] \in SockOpen
        /\ \/ reqs'[p] = reqs[p]
           \/ reqs'[p] = <<>>
           \/ reqs[p] # <<>> /\ reqs'[p] = Tail(reqs[p])
    BY Zenon, <1>3, ServiceEffect
  <2>2. /\ mypid' = mypid
        /\ ClientSocket(cur)' = ClientSocket(cur)
        /\ ReapsWithoutSocket' = ReapsWithoutSocket
        /\ Child(mypid)' = Child(mypid)
        /\ pc \in Calling \cup Reaping => mypid \in Pids
    BY Zenon, <1>3, <2>1 DEF mypid, ClientSocket, ReapsWithoutSocket, Child, PidInv
  <2>3. ASSUME mypid \in Pids, st[mypid] \in Gone PROVE st'[mypid] \in Gone
    BY Zenon, <2>1, <2>3
  <2>4. ASSUME mypid \in Pids, st[mypid] = "zombie" PROVE st'[mypid] = "zombie"
    BY Zenon, <2>1, <2>4 DEF Live, Starting
  <2>5. ASSUME pc = "wait", op = "shutdown", reply' = "ok"
        PROVE st'[mypid] \in Gone
    <3>1. CASE reply' = reply
      BY SMTT(120), <1>3, <2>2, <2>3, <2>5, <3>1 DEF DyingInv, Calling
    <3>2. CASE reply' # reply
      <4>1. Handle(p)
        BY Zenon, <1>3, <3>2 DEF ServiceStep, SetPdeathsig, CheckParent, Register,
           SvcDestroy, Exit, DeliverSignal, mainvars
      <4> QED BY Zenon, <1>3, <2>5, <3>2, <4>1, AnswerToShutdown DEF Gone
    <3> QED BY Zenon, <3>1, <3>2
  <2>6. ASSUME pc = "wait", ClientSocket(cur), st'[mypid] \in SockOpen,
               reqs'[mypid] # <<>>
        PROVE reqs'[mypid][Len(reqs'[mypid])] = op
    <3>1. mypid \in Pids /\ st[mypid] \in SockOpen /\ reqs[mypid] \in Seq(Ops)
      BY Zenon, <2>1, <2>2, <2>6 DEF Calling
    <3>2. \/ reqs'[mypid] = reqs[mypid]
          \/ reqs[mypid] # <<>> /\ reqs'[mypid] = Tail(reqs[mypid])
      <4>1. CASE mypid = p
        BY Zenon, <2>1, <2>6, <4>1
      <4>2. CASE mypid # p
        BY SMTT(120), <2>1, <3>1, <4>2
      <4> QED BY SMTT(120), <4>1, <4>2
    <3>3. reqs[mypid] # <<>> /\ reqs[mypid][Len(reqs[mypid])] = op
      BY Zenon, <1>3, <2>6, <3>1, <3>2 DEF DyingInv
    <3>4. ASSUME NEW q \in Seq(Ops), q # <<>>, Tail(q) # <<>>
          PROVE Tail(q)[Len(Tail(q))] = q[Len(q)]
      BY <3>4
    <3> QED BY Zenon, <2>6, <3>1, <3>2, <3>3, <3>4
  <2>7. DyingInv'
    BY Zenon, <1>3, <2>1, <2>2, <2>3, <2>4, <2>5, <2>6 DEF DyingInv, Reaping
  <2>8. WaitsOnlyForTheDying'
    BY Zenon, <1>3, <2>1, <2>2, <2>3 DEF WaitsOnlyForTheDying, Reaping, Gone
  <2> QED BY Zenon, <2>7, <2>8
<1>4. ASSUME NEW p \in Pids, ForeignStarts(p) \/ ForeignEnds(p), parent
      PROVE DyingInv' /\ WaitsOnlyForTheDying'
  <2>1. /\ UNCHANGED <<pc, op, cur, force, reply, rpc, fdt>>
        /\ owner[p] \notin Services /\ owner'[p] \notin Services
        /\ \A q \in Pids : q # p =>
             /\ owner'[q] = owner[q] /\ st'[q] = st[q] /\ reqs'[q] = reqs[q]
             /\ term'[q] = term[q] /\ kill'[q] = kill[q]
    BY SMTT(120), <1>4 DEF ForeignStarts, ForeignEnds, Released, ProcInv, mainvars, rpcvars,
       NoSvc, Foreign
  <2>2. /\ mypid' = mypid
        /\ ClientSocket(cur)' = ClientSocket(cur)
        /\ ReapsWithoutSocket' = ReapsWithoutSocket
        /\ pc \in Calling \cup Reaping => mypid \in Pids
    BY ZenonT(60), <1>4, <2>1 DEF mypid, ClientSocket, ReapsWithoutSocket, PidInv
  <2>3. pc = "wait" => mypid # p
    BY ZenonT(60), <1>4, <2>1 DEF PidInv, Calling
  <2>4. DyingInv'
    <3> HIDE DEF TypeOK
    <3>1. /\ pc' = pc /\ op' = op /\ cur' = cur /\ force' = force /\ reply' = reply
          /\ parent /\ DyingInv
      BY Zenon, <1>4, <2>1
    <3>2. CASE pc = "wait"
      <4>1. mypid \in Pids /\ mypid' = mypid /\ st'[mypid] = st[mypid]
              /\ reqs'[mypid] = reqs[mypid]
        BY Zenon, <2>1, <2>2, <2>3, <3>2 DEF Calling
      <4> QED BY Zenon, <2>2, <3>1, <3>2, <4>1 DEF DyingInv
    <3>3. CASE pc \in Reaping
      <4>1. CASE mypid = p
        <5>1. ~Child(mypid)'
          BY Zenon, <2>1, <2>2, <4>1 DEF Child
        <5> QED BY Zenon, <2>2, <3>1, <3>3, <5>1 DEF DyingInv, Reaping
      <4>2. CASE mypid # p
        <5>1. /\ mypid' = mypid /\ st'[mypid] = st[mypid] /\ term'[mypid] = term[mypid]
              /\ Child(mypid)' = Child(mypid)
          BY Zenon, <2>1, <2>2, <3>3, <4>2 DEF Child
        <5> QED BY Zenon, <2>2, <3>1, <3>3, <5>1 DEF DyingInv, Reaping
      <4> QED BY Zenon, <4>1, <4>2
    <3> QED BY Zenon, <3>1, <3>2, <3>3 DEF DyingInv, Reaping
  <2>5. WaitsOnlyForTheDying'
    BY Zenon, <1>4, <2>1, <2>2 DEF WaitsOnlyForTheDying, Reaping, Child
  <2> QED BY <2>4, <2>5
<1>5. CASE UNCHANGED vars
  BY Zenon, <1>5 DEF vars, mainvars, rpcvars, procvars, DyingInv, WaitsOnlyForTheDying,
     ReapsWithoutSocket, ClientSocket, mypid, Child
<1>6. ASSUME NEW s \in Services, service_init(s) \/ service_query(s) \/ service_shutdown(s)
      PROVE DyingInv' /\ WaitsOnlyForTheDying'
  BY Zenon, <1>1, <1>6 DEF service_init, InitFork, InitNoFork, InitNoPath, service_query,
     service_shutdown
<1>7. CASE Return \/ CallerOpens \/ CallerCloses
  BY Zenon, <1>1, <1>7 DEF Return, CallerOpens, CallerCloses, mainvars
<1>8. ~ParentDies /\ \A p \in Pids : ServiceStep(p) \/ Handle(p)
          \/ ForeignStarts(p) \/ ForeignEnds(p) => parent
  BY Zenon DEF ParentDies, ServiceStep, SetPdeathsig, CheckParent, Register, SvcDestroy,
     Exit, DeliverSignal, Handle, HandleInit, HandleQuery, HandleShutdown,
     HandlerCrashes, Replies, ForeignStarts, ForeignEnds
<1> QED
  BY Zenon, <1>2, <1>3, <1>4, <1>5, <1>6, <1>7, <1>8
     DEF Next, Begin, SystemStep, Environment
-----------------------------------------------------------------------------
(***************************************************************************)
(* Types, descriptors, and the invariant as a whole.                       *)
(***************************************************************************)
(* Every field keeps its type: a descriptor in struct rpc is -1 or a number *)
(* of the table, a pid is unset or one fork can return, and a result is 0   *)
(* or -1 although reap_process also stores what poll and kill return in it. *)
LEMMA TypeInit == RpcInit => TypeOK
<1> SUFFICES ASSUME RpcInit PROVE TypeOK
  OBVIOUS
<1>1. rpc \in [Services -> RpcStruct]
  BY Zenon DEF RpcInit, RpcStruct, ResetRpc, NoFd
<1>2. fdt \in [Fd -> (Pids \cup {NoPid}) \X FdKinds]
  BY Zenon DEF RpcInit, Free, Caller, FdKinds
<1>3. owner \in [Pids -> Services \cup {NoSvc, Foreign}] /\ st \in [Pids -> States]
  BY Zenon DEF RpcInit, States
<1>4. reqs \in [Pids -> Seq(Ops)]
  BY DEF RpcInit
<1> QED BY Zenon, <1>1, <1>2, <1>3, <1>4 DEF RpcInit, TypeOK, PcLabels, Ops

ProcType ==
  /\ owner \in [Pids -> Services \cup {NoSvc, Foreign}]
  /\ st \in [Pids -> States]
  /\ pdeath \in [Pids -> BOOLEAN]
  /\ term \in [Pids -> BOOLEAN]
  /\ kill \in [Pids -> BOOLEAN]
  /\ reqs \in [Pids -> Seq(Ops)]

(* A process that ends leaves a well-formed process table. *)
LEMMA ReleasedType ==
  ASSUME ProcType, NEW p \in Pids, Released(p) PROVE ProcType'
<1>1. reqs' \in [Pids -> Seq(Ops)]
  BY DEF ProcType, Released
<1>2. owner' \in [Pids -> Services \cup {NoSvc, Foreign}] /\ st' \in [Pids -> States]
  BY Zenon DEF ProcType, Released, States
<1> QED BY Zenon, <1>1, <1>2 DEF ProcType, Released

(* A process that exits leaves a well-typed process table. *)
LEMMA DiesType ==
  ASSUME ProcType, NEW p \in Pids, Dies(p) PROVE ProcType'
<1>1. CASE parent
  <2>1. /\ st' = [st EXCEPT ![p] = "zombie"]
        /\ reqs' = [reqs EXCEPT ![p] = <<>>]
        /\ UNCHANGED <<owner, pdeath, term, kill>>
    BY Zenon, <1>1 DEF Dies
  <2>2. reqs' \in [Pids -> Seq(Ops)] /\ st' \in [Pids -> States]
    BY <2>1 DEF ProcType, States
  <2> QED BY Zenon, <2>1, <2>2 DEF ProcType
<1>2. CASE ~parent
  BY ZenonT(60), <1>2, ReleasedType DEF Dies
<1> QED BY Zenon, <1>1, <1>2

(* Every action keeps the types; a pid that is signalled must be one of Pids. *)
LEMMA TypeNext == TypeOK /\ PidInv /\ [AnyNext]_vars => TypeOK'
<1> SUFFICES ASSUME TypeOK, PidInv, [AnyNext]_vars PROVE TypeOK'
  OBVIOUS
<1> USE RpcAssumption DEF TypeOK
<1>1. ASSUME NEW s \in Services, service_init(s) PROVE TypeOK'
  <2>1. CASE InitFork(s)
    <3>1. PICK p \in Pids, a \in Fd, b \in Fd :
            /\ rpc' = [rpc EXCEPT ![s] = [initialized |-> FALSE, clt_fd |-> a,
                                  svc_fd |-> b, pid |-> p, clt |-> FALSE]]
            /\ fdt' = [fdt EXCEPT ![a] = <<p, "clt">>, ![b] = <<p, "svc">>]
            /\ owner' = [owner EXCEPT ![p] = s]
            /\ st' = [st EXCEPT ![p] = "born"]
            /\ UNCHANGED <<pdeath, term, kill, reqs>>
      BY Zenon, <2>1 DEF InitFork, ForkService
    <3>2. rpc' \in [Services -> RpcStruct]
      BY Zenon, <3>1 DEF RpcStruct
    <3>3. fdt' \in [Fd -> (Pids \cup {NoPid}) \X FdKinds]
      BY Zenon, <3>1 DEF FdKinds
    <3>4. owner' \in [Pids -> Services \cup {NoSvc, Foreign}] /\ st' \in [Pids -> States]
      BY Zenon, <3>1 DEF States, Live, Starting
    <3> QED BY Zenon, <2>1, <3>1, <3>2, <3>3, <3>4 DEF InitFork, PcLabels, Ops
  <2>2. CASE InitNoFork(s)
    BY Zenon, <2>2 DEF InitNoFork, ResetRpc, RpcStruct, PcLabels, Ops, procvars
  <2>3. CASE InitNoPath(s)
    BY Zenon, <2>3 DEF InitNoPath, ResetRpc, RpcStruct, PcLabels, Ops, procvars, Close,
       Free, FdKinds
  <2> QED BY Zenon, <1>1, <2>1, <2>2, <2>3 DEF service_init
<1>2. ASSUME NEW s \in Services, service_query(s) \/ service_shutdown(s)
      PROVE TypeOK'
  BY ZenonT(60), <1>2 DEF service_query, service_shutdown, PcLabels, Ops, procvars, rpcvars
<1>3. CASE MainStep
  <2> pc \in Calling \cup Reaping => mypid \in Pids
    BY Zenon, <1>3 DEF MainStep, PidInv
  <2>1. CASE setup_client
    <3>1. fdt' \in [Fd -> (Pids \cup {NoPid}) \X FdKinds]
      BY Zenon, <2>1 DEF setup_client, Close, Free, FdKinds
    <3>2. rpc' \in [Services -> RpcStruct]
      <4> DEFINE r == [rpc[cur] EXCEPT !.clt = TRUE, !.initialized = TRUE]
      <4>1. r \in RpcStruct
        <5>1. rpc[cur] \in RpcStruct
          OBVIOUS
        <5> HIDE DEF TypeOK
        <5> QED BY Zenon, <5>1 DEF RpcStruct
      <4>2. rpc' = [rpc EXCEPT ![cur] = r] \/ rpc' = rpc
        BY Zenon, <2>1 DEF setup_client
      <4> HIDE DEF r
      <4> QED BY ZenonT(60), <4>1, <4>2
    <3> QED BY Zenon, <2>1, <3>1, <3>2 DEF setup_client, PcLabels, procvars
  <2>2. CASE Send
    BY <2>2 DEF Calling, Send, PcLabels, rpcvars
  <2>3. ASSUME NEW r \in {"ok", "error"}, CallReturns(r) PROVE TypeOK'
    BY Zenon, <2>3 DEF CallReturns, PcLabels, procvars, Ops
  <2>4. CASE Reap
    <3>1. ProcType'
      <4>1. CASE Released(mypid)
        BY Zenon, <2>4, <4>1, ReleasedType DEF Reap, Reaping, ProcType
      <4>2. CASE /\ term' = IF force THEN Signalled(term, mypid) ELSE term
                 /\ UNCHANGED <<owner, st, pdeath, kill, reqs>>
        BY Zenon, <2>4, <4>2 DEF Reap, Reaping, Signalled, ProcType
      <4> QED BY Zenon, <2>4, <4>1, <4>2 DEF Reap
    <3> QED BY Zenon, <2>4, <3>1 DEF Reap, ProcType, PcLabels, rpcvars
  <2>5. CASE PollFails \/ PollReady
    BY <2>5 DEF PollFails, PollReady, PcLabels, rpcvars, procvars
  <2>6. CASE PollTimeout
    BY Zenon, <2>6 DEF Reaping, PollTimeout, Signalled, PcLabels, rpcvars
  <2>7. CASE Waitpid
    <3>1. ProcType'
      BY ZenonT(60), <2>7, ReleasedType DEF Waitpid, Reaping, ProcType, procvars
    <3> QED BY Zenon, <2>7, <3>1 DEF Waitpid, ProcType, PcLabels, rpcvars
  <2>8. CASE RpcInitFailed
    BY Zenon, <2>8 DEF RpcInitFailed, Close, Free, FdKinds, PcLabels, rpcvars, procvars
  <2>9. CASE RpcShutdownDone
    <3>1. fdt' \in [Fd -> (Pids \cup {NoPid}) \X FdKinds]
      BY <2>9 DEF RpcShutdownDone, Close, Free, FdKinds
    <3>2. rpc' \in [Services -> RpcStruct] /\ ctxinit' \in [Services -> BOOLEAN]
      <4>1. ResetRpc \in RpcStruct
        BY Zenon DEF ResetRpc, RpcStruct, NoFd
      <4>2. rpc' = [rpc EXCEPT ![cur] = ResetRpc] \/ rpc' = rpc
        BY Zenon, <2>9 DEF RpcShutdownDone
      <4>3. ctxinit' = [ctxinit EXCEPT ![cur] = FALSE] \/ ctxinit' = ctxinit
        BY Zenon, <2>9 DEF RpcShutdownDone
      <4>4. rpc' \in [Services -> RpcStruct]
        BY ZenonT(60), <4>1, <4>2
      <4>5. ctxinit' \in [Services -> BOOLEAN]
        BY Zenon, <4>3
      <4> QED BY Zenon, <4>4, <4>5
    <3> QED BY Zenon, <2>9, <3>1, <3>2 DEF RpcShutdownDone, PcLabels, procvars
  <2> QED BY Zenon, <1>3, <2>1, <2>2, <2>3, <2>4, <2>5, <2>6, <2>7, <2>8, <2>9
          DEF MainStep
<1>4. ASSUME NEW p \in Pids, ServiceStep(p) PROVE TypeOK'
  <2>1. ProcType'
    <3>1. CASE Dies(p)
      BY Zenon, <3>1, DiesType DEF ProcType
    <3>2. CASE SetPdeathsig(p) /\ ~Dies(p)
      BY Zenon, <3>2 DEF SetPdeathsig, ProcType, States, Live, Starting
    <3>3. CASE CheckParent(p) /\ ~Dies(p)
      BY Zenon, <3>3 DEF CheckParent, ProcType, States, Live, Starting
    <3>4. CASE Register(p) /\ ~Dies(p)
      BY ZenonT(60), <3>4 DEF Register, ProcType, States, Live
    <3>5. CASE SvcDestroy(p)
      BY <3>5 DEF SvcDestroy, ProcType, States, Live
    <3> QED BY Zenon, <1>4, <3>1, <3>2, <3>3, <3>4, <3>5
            DEF ServiceStep, Exit, DeliverSignal
  <2> QED BY ZenonT(60), <1>4, <2>1
          DEF ServiceStep, SetPdeathsig, CheckParent, Register, SvcDestroy, Exit,
              DeliverSignal, ProcType, mainvars, rpcvars
<1>5. ASSUME NEW p \in Pids, Handle(p) PROVE TypeOK'
  <2>1. CASE HandlerCrashes(p)
    BY Zenon, <2>1, DiesType DEF HandlerCrashes, ProcType, mainvars, rpcvars
  <2>2. ASSUME NEW r \in {"ok", "error"}, Replies(p, r), reqs[p] # <<>>
        PROVE reqs' \in [Pids -> Seq(Ops)] /\ reply' \in {"none", "ok", "error"}
    BY <2>2 DEF Replies
  <2>3. CASE HandleInit(p)
    BY Zenon, <2>2, <2>3 DEF HandleInit, Dispatches, Replies, rpcvars
  <2>4. CASE HandleQuery(p)
    BY Zenon, <2>2, <2>4 DEF HandleQuery, Dispatches, Replies, rpcvars
  <2>5. CASE HandleShutdown(p)
    BY ZenonT(60), <2>2, <2>5 DEF HandleShutdown, Dispatches, Replies, rpcvars, States, Live
  <2> QED BY Zenon, <1>5, <2>1, <2>3, <2>4, <2>5 DEF Handle
<1>6. ASSUME NEW p \in Pids, ForeignStarts(p) \/ ForeignEnds(p) PROVE TypeOK'
  <2>1. ProcType'
    BY ZenonT(60), <1>6, ReleasedType DEF ForeignStarts, ForeignEnds, ProcType, States
  <2> QED BY <1>6, <2>1 DEF ForeignStarts, ForeignEnds, ProcType, mainvars, rpcvars
<1>7. CASE ParentDies
  BY Zenon, <1>7 DEF ParentDies, mainvars, rpcvars, States
<1>8. CASE Return \/ CallerOpens \/ CallerCloses
  <2>1. fdt' \in [Fd -> (Pids \cup {NoPid}) \X FdKinds]
    <3>1. CASE Return
      BY Zenon, <3>1 DEF Return
    <3>2. CASE CallerOpens
      <4>1. PICK n \in Fd : fdt' = [fdt EXCEPT ![n] = MntNs]
        BY Zenon, <3>2 DEF CallerOpens
      <4> QED BY Zenon, <4>1 DEF MntNs, FdKinds
    <3>3. CASE CallerCloses
      BY <3>3 DEF CallerCloses, Close, Free, FdKinds
    <3> QED BY Zenon, <1>8, <3>1, <3>2, <3>3
  <2> QED BY <1>8, <2>1 DEF Return, CallerOpens, CallerCloses, PcLabels, mainvars,
             rpcvars, procvars
<1>9. CASE UNCHANGED vars
  BY Zenon, <1>9 DEF vars, mainvars, rpcvars, procvars
<1> QED
  BY Zenon, <1>1, <1>2, <1>3, <1>4, <1>5, <1>6, <1>7, <1>8, <1>9
     DEF AnyNext, Reinit, Next, Begin, SystemStep, Environment
-----------------------------------------------------------------------------
(* No running service is lost. *)
LEMMA ReachNext ==
  Inv /\ [Next]_vars => RunningServiceIsReachable'
<1> SUFFICES ASSUME Inv, [Next]_vars, parent', NEW q \in Pids,
                    Child(q)', owner'[q] \notin KillDenied, st'[q] \in Live,
                    ~term'[q], ~kill'[q]
             PROVE  /\ rpc'[owner'[q]].pid = q
                    /\ \/ ctxinit'[owner'[q]]
                       \/ cur' = owner'[q] /\ pc' \notin {"idle", "returned"}
  BY Zenon DEF RunningServiceIsReachable
<1> DEFINE Goal == /\ rpc'[owner'[q]].pid = q
                   /\ \/ ctxinit'[owner'[q]]
                      \/ cur' = owner'[q] /\ pc' \notin {"idle", "returned"}
<1> USE RpcAssumption DEF Inv, TypeOK, Child
<1>p. parent
  BY Zenon DEF Next, Begin, Return, CallerOpens, CallerCloses, SystemStep, MainStep,
     Environment, ParentDies, ServiceStep, SetPdeathsig, CheckParent, Register,
     SvcDestroy, Exit, DeliverSignal, Handle, HandleInit, HandleQuery,
     HandleShutdown, HandlerCrashes, Replies, ForeignStarts, ForeignEnds, vars
<1>r. ASSUME owner'[q] = owner[q], st[q] \in Live, ~term[q], ~kill[q]
      PROVE /\ rpc[owner[q]].pid = q
            /\ \/ ctxinit[owner[q]]
               \/ cur = owner[q] /\ pc \notin {"idle", "returned"}
  <2>1. Child(q) /\ owner[q] \notin KillDenied
    BY Zenon, <1>r
  <2>2. RunningServiceIsReachable
    OBVIOUS
  <2> HIDE DEF Inv, TypeOK
  <2> QED BY Zenon, <1>p, <1>r, <2>1, <2>2 DEF RunningServiceIsReachable
<1>1. ASSUME NEW s \in Services, service_init(s), ~ctxinit[s], pc = "idle" PROVE Goal
  <2>1. CASE InitFork(s)
    <3>1. PICK p \in Pids, a \in Fd, b \in Fd :
            /\ st[p] = "free"
            /\ rpc' = [rpc EXCEPT ![s] = [initialized |-> FALSE, clt_fd |-> a,
                                  svc_fd |-> b, pid |-> p, clt |-> FALSE]]
            /\ owner' = [owner EXCEPT ![p] = s]
            /\ st' = [st EXCEPT ![p] = "born"]
            /\ UNCHANGED <<term, kill>>
      BY Zenon, <2>1 DEF InitFork, ForkService
    <3>2. cur' = s /\ pc' = "setup_client" /\ ctxinit' = [ctxinit EXCEPT ![s] = FALSE]
      BY Zenon, <2>1 DEF InitFork
    <3>3. CASE q = p
      BY Zenon, <3>1, <3>2, <3>3
    <3>4. CASE q # p
      BY Zenon, <1>1, <1>r, <3>1, <3>2, <3>4
    <3> QED BY Zenon, <3>3, <3>4
  <2>2. CASE InitNoFork(s) \/ InitNoPath(s)
    <3>1. /\ rpc' = [rpc EXCEPT ![s] = ResetRpc]
          /\ ctxinit' = [ctxinit EXCEPT ![s] = FALSE]
          /\ UNCHANGED <<owner, st, term, kill>>
      BY Zenon, <2>2 DEF InitNoFork, InitNoPath, procvars
    <3> QED BY Zenon, <1>1, <1>r, <3>1
  <2> QED BY Zenon, <1>1, <2>1, <2>2 DEF service_init
<1>2. ASSUME NEW s \in Services, pc = "idle", service_query(s) \/ service_shutdown(s)
      PROVE Goal
  BY Zenon, <1>2, <1>r DEF service_query, service_shutdown, rpcvars, procvars
<1>3. CASE MainStep
  <2> USE <1>3
  <2>1. CASE setup_client
    <3>1. \A s \in Services : rpc'[s].pid = rpc[s].pid
      <4> DEFINE r == [rpc[cur] EXCEPT !.clt = TRUE, !.initialized = TRUE]
      <4>1. r.pid = rpc[cur].pid
        <5>1. rpc[cur] \in RpcStruct
          OBVIOUS
        <5> HIDE DEF Inv, TypeOK
        <5> QED BY Zenon, <5>1 DEF RpcStruct
      <4>2. rpc' = [rpc EXCEPT ![cur] = r] \/ rpc' = rpc
        BY Zenon, <2>1 DEF setup_client
      <4> HIDE DEF r
      <4> QED BY Zenon, <4>1, <4>2
    <3>2. UNCHANGED <<cur, ctxinit, owner, st, term, kill>> /\ pc' \in {"call", "reap"}
      BY Zenon, <2>1 DEF setup_client, procvars
    <3> QED BY Zenon, <1>r, <2>1, <3>1, <3>2
  <2>2. ASSUME NEW r \in {"ok", "error"}, CallReturns(r) PROVE Goal
    <3>1. UNCHANGED <<cur, rpc, owner, st, term, kill>> /\ pc = "wait"
      BY Zenon, <2>2 DEF CallReturns, procvars
    <3>2. \/ pc' = "reap" /\ ctxinit' = ctxinit
          \/ /\ pc' = "returned" /\ ctxinit'[cur]
             /\ \A s \in Services : ctxinit[s] => ctxinit'[s]
      BY Zenon, <2>2, <3>1 DEF CallReturns, ControlInv, Calling, Ops
    <3> QED BY Zenon, <1>r, <3>1, <3>2
  <2>3. CASE Send
    BY Zenon, <1>r, <2>3 DEF Send, rpcvars
  <2>4. CASE Reap \/ Waitpid
    <3>1. UNCHANGED <<cur, rpc, ctxinit>> /\ pc' \in {"poll", "reaped"}
          /\ pc \in Reaping
      BY Zenon, <2>4 DEF Reap, Waitpid, rpcvars, Reaping
    <3>2. mypid \in Pids
      BY Zenon, <1>p, <3>1 DEF PidInv
    <3>3. owner'[q] = owner[q] /\ st'[q] = st[q] /\ kill'[q] = kill[q]
          /\ (term[q] => term'[q])
      <4>1. CASE Released(mypid)
        BY Zenon, <3>2, <4>1 DEF Released, NoSvc
      <4>2. CASE UNCHANGED <<owner, st, kill>> /\ term' \in {term, Signalled(term, mypid)}
        BY Zenon, <3>2, <4>2 DEF Signalled
      <4> QED BY Zenon, <2>4, <4>1, <4>2 DEF Reap, Waitpid, procvars
    <3> QED BY Zenon, <1>r, <3>1, <3>3
  <2>5. CASE PollFails \/ PollReady \/ PollTimeout
    <3>1. UNCHANGED <<cur, rpc, ctxinit, owner, st, term>>
          /\ pc' \in {"waitpid", "reaped"}
          /\ pc = "poll" /\ kill' \in {kill, Signalled(kill, mypid)}
      BY Zenon, <2>5 DEF PollFails, PollReady, PollTimeout, rpcvars, procvars
    <3>2. mypid \in Pids
      BY Zenon, <1>p, <3>1 DEF PidInv, Reaping
    <3>3. kill[q] => kill'[q]
      BY ZenonT(60), <3>1, <3>2 DEF Signalled
    <3> QED BY Zenon, <1>r, <3>1, <3>3
  <2>6. CASE RpcInitFailed
    BY Zenon, <1>r, <2>6 DEF RpcInitFailed, rpcvars, procvars
  <2>7. CASE RpcShutdownDone
    <3>1. UNCHANGED <<cur, owner, st, term, kill>> /\ pc = "reaped"
      BY Zenon, <2>7 DEF RpcShutdownDone, procvars
    <3>2. owner[q] = cur => ret # 0 /\ op # "init"
      <4>1. SUFFICES ASSUME owner[q] = cur PROVE ret # 0 /\ op # "init"
        OBVIOUS
      <4>2. q = mypid /\ Child(mypid)
        BY Zenon, <1>r, <3>1, <4>1 DEF mypid
      <4>3. ret # 0
        BY Zenon, <1>p, <3>1, <4>2 DEF PidInv
      <4>4. op # "init"
        BY Zenon, <1>p, <3>1, <4>1, <4>2 DEF ControlInv, DyingInv, Reaping, Live, Starting
      <4> QED BY Zenon, <4>3, <4>4
    <3>3. CASE owner[q] = cur
      BY Zenon, <1>r, <2>7, <3>1, <3>2, <3>3 DEF RpcShutdownDone, ControlInv, Reaping
    <3>4. CASE owner[q] # cur
      <4>1. rpc'[owner[q]] = rpc[owner[q]] /\ ctxinit'[owner[q]] = ctxinit[owner[q]]
        BY <2>7, <3>1, <3>4 DEF RpcShutdownDone
      <4> QED BY Zenon, <1>r, <3>1, <3>4, <4>1
    <3> QED BY Zenon, <3>3, <3>4
  <2> QED BY Zenon, <2>1, <2>2, <2>3, <2>4, <2>5, <2>6, <2>7 DEF MainStep
<1>4. ASSUME NEW p \in Pids, ServiceStep(p) \/ Handle(p) PROVE Goal
  <2>1. /\ UNCHANGED <<pc, cur, rpc, ctxinit, owner, term, kill>>
        /\ st[p] \in Live
        /\ \A x \in Pids : x # p => st'[x] = st[x]
    BY Zenon, <1>4, <1>p, ServiceEffect
  <2> QED BY Zenon, <1>r, <2>1
<1>5. ASSUME NEW p \in Pids, ForeignStarts(p) \/ ForeignEnds(p) PROVE Goal
  <2>1. /\ UNCHANGED <<pc, cur, rpc, ctxinit>>
        /\ owner'[p] \notin Services
        /\ \A x \in Pids : x # p =>
             /\ owner'[x] = owner[x] /\ st'[x] = st[x]
             /\ term'[x] = term[x] /\ kill'[x] = kill[x]
    BY ZenonT(60), <1>5 DEF ForeignStarts, ForeignEnds, Released, mainvars, rpcvars, NoSvc,
       Foreign
  <2> QED BY Zenon, <1>r, <2>1
<1>6. CASE Return \/ CallerOpens \/ CallerCloses
  BY Zenon, <1>6, <1>r DEF Return, CallerOpens, CallerCloses, mainvars, rpcvars, procvars
<1>7. CASE UNCHANGED vars
  BY Zenon, <1>7, <1>r DEF vars, mainvars, rpcvars, procvars
<1>8. ~ParentDies
  BY Zenon DEF ParentDies
<1> QED
  BY Zenon, <1>1, <1>2, <1>3, <1>4, <1>5, <1>6, <1>7, <1>8
     DEF Next, Begin, SystemStep, Environment

-----------------------------------------------------------------------------
(* The invariant holds before the first call into the library. *)
LEMMA InvInit == RpcInit => Inv
<1> SUFFICES ASSUME RpcInit PROVE Inv
  OBVIOUS
<1>1. TypeOK
  BY Zenon, TypeInit
<1>2. ProcInv
  BY Zenon DEF RpcInit, ProcInv, NoSvc, Foreign
<1>3. ControlInv /\ PidInv /\ DyingInv /\ WaitsOnlyForTheDying
  BY Zenon DEF RpcInit, ControlInv, PidInv, DyingInv, WaitsOnlyForTheDying, Calling, Reaping
<1>4. InitializedPidIsChild
  BY Zenon DEF RpcInit, InitializedPidIsChild
<1>5. RunningServiceIsReachable
  BY Zenon, RpcAssumption DEF RpcInit, RunningServiceIsReachable, Child, NoSvc
<1> QED BY Zenon, <1>1, <1>2, <1>3, <1>4, <1>5 DEF Inv

(* Every step of the caller, a service or the system preserves it. *)
LEMMA InvNext == Inv /\ [Next]_vars => Inv'
BY Zenon, TypeNext, ProcNext, ControlNext, PidNext, DyingNext, ReachNext DEF Inv, AnyNext

(* The inductive invariant. *)
THEOREM Invariance == Spec => []Inv
BY InvInit, InvNext, PTL DEF Spec

(* Every variable keeps its type. *)
THEOREM TypeCorrect == Spec => []TypeOK
<1>1. Inv => TypeOK
  BY Zenon DEF Inv
<1> QED BY Invariance, <1>1, PTL

(* rpc_shutdown acts on the process it started, never on a stale pid. *)
THEOREM PidsAreFresh == Spec => []InitializedPidIsChild
<1>1. Inv => InitializedPidIsChild
  BY Zenon DEF Inv
<1> QED BY Invariance, <1>1, PTL

(* The waitpid of reap_process without WNOHANG is for a dying child. *)
THEOREM ReapEnds == Spec => []WaitsOnlyForTheDying
<1>1. Inv => WaitsOnlyForTheDying
  BY Zenon DEF Inv
<1> QED BY Invariance, <1>1, PTL

(* A running service can be shut down, whatever failed before. *)
THEOREM NoServiceLost == Spec => []RunningServiceIsReachable
<1>1. Inv => RunningServiceIsReachable
  BY Zenon DEF Inv
<1> QED BY Invariance, <1>1, PTL

(* Who is no child is signalled only by the reap that follows a failed     *)
(* setup_client.                                                           *)
Stray ==
  \A p \in Pids :
    st[p] = "other" /\ st'[p] = "other"
      /\ <<term'[p], kill'[p]>> # <<term[p], kill[p]>>
    => op = "init" /\ ~rpc[cur].initialized

(* Every step keeps to that, a second nvc_init included. *)
LEMMA SignalStep == CoreInv /\ [AnyNext]_vars => [Stray]_vars
<1> SUFFICES ASSUME CoreInv, AnyNext, NEW q \in Pids, st[q] = "other", st'[q] = "other",
                    <<term'[q], kill'[q]>> # <<term[q], kill[q]>>
             PROVE  op = "init" /\ ~rpc[cur].initialized
  BY Zenon DEF Stray
<1> USE DEF CoreInv, TypeOK
<1>1. CASE MainStep
  <2>1. CASE Reap \/ Waitpid \/ PollTimeout
    <3>1. parent /\ pc \in Reaping \ {"reaped"} /\ mypid \in Pids
      BY Zenon, <1>1, <2>1 DEF MainStep, Reap, Waitpid, PollTimeout, PidInv, Reaping
    <3>2. mypid = q
      BY Zenon, <2>1, <3>1 DEF Reap, Waitpid, PollTimeout, Released, Signalled, procvars
    <3>3. owner[mypid] # cur
      BY Zenon, <3>2, RpcAssumption DEF ProcInv
    <3>4. ~rpc[cur].initialized
      BY Zenon, <3>1, <3>3 DEF PidInv
    <3>5. ~ctxinit[cur]
      BY Zenon, <3>1, <3>3 DEF InitializedPidIsChild, mypid
    <3> QED BY Zenon, <3>1, <3>4, <3>5 DEF ControlInv
  <2>2. CASE UNCHANGED <<term, kill>>
    BY Zenon, <2>2
  <2> QED BY Zenon, <1>1, <2>1, <2>2
          DEF MainStep, setup_client, Send, CallReturns, PollFails, PollReady,
              RpcInitFailed, RpcShutdownDone, procvars
<1>2. ASSUME NEW s \in Services, service_init(s) \/ service_query(s) \/ service_shutdown(s)
      PROVE UNCHANGED <<term, kill>>
  BY Zenon, <1>2 DEF service_init, InitFork, ForkService, InitNoFork, InitNoPath,
     service_query, service_shutdown, procvars
<1>3. ASSUME NEW p \in Pids, ServiceStep(p) \/ Handle(p)
      PROVE term'[q] = term[q] /\ kill'[q] = kill[q]
  <2>1. q # p
    BY Zenon, <1>3 DEF ServiceStep, SetPdeathsig, CheckParent, Register, SvcDestroy,
       Exit, DeliverSignal, Handle, HandleInit, HandleQuery, HandleShutdown,
       HandlerCrashes, Dispatches, Live, Starting
  <2>2. CASE Dies(p)
    BY ZenonT(60), <2>1, <2>2 DEF Dies, Released
  <2>3. CASE ~Dies(p)
    BY Zenon, <1>3, <2>1, <2>3 DEF ServiceStep, SetPdeathsig, CheckParent, Register,
       SvcDestroy, Exit, DeliverSignal, Handle, HandleInit, HandleQuery,
       HandleShutdown, HandlerCrashes, Replies
  <2> QED BY Zenon, <2>2, <2>3
<1>4. ASSUME NEW p \in Pids, ForeignStarts(p) \/ ForeignEnds(p)
      PROVE term'[q] = term[q] /\ kill'[q] = kill[q]
  BY Zenon, <1>4 DEF ForeignStarts, ForeignEnds, Released
<1>5. ASSUME ParentDies PROVE term'[q] = term[q] /\ kill'[q] = kill[q]
  BY Zenon, <1>5 DEF ParentDies, Live, Starting
<1>6. ASSUME Return \/ CallerOpens \/ CallerCloses PROVE UNCHANGED <<term, kill>>
  BY Zenon, <1>6 DEF Return, CallerOpens, CallerCloses, procvars
<1> QED
  BY Zenon, <1>1, <1>2, <1>3, <1>4, <1>5, <1>6 DEF AnyNext, Reinit, Next, Begin, SystemStep, Environment

(* A signal reaches a process that is not the caller's child only through  *)
(* the second reap that follows a failed setup_client.                     *)
THEOREM SignalsAreForChildren == Spec => SignalsOnlyItsChild
<1>1. Inv /\ [Next]_vars => [Stray]_vars
  BY Zenon, SignalStep DEF Inv, CoreInv, AnyNext
<1> QED BY Invariance, <1>1, PTL DEF Spec, SignalsOnlyItsChild, Stray
-----------------------------------------------------------------------------
(***************************************************************************)
(* Rpc implements Service.                                                 *)
(***************************************************************************)
(* A step that leaves the flags alone, and of each initialized service the *)
(* pid and whether it is running, is invisible to the users of the handles.*)
LEMMA HandleKept ==
  ASSUME UNCHANGED <<parent, ctxinit>>,
         \A s \in Services : parent /\ ctxinit[s] =>
            rpc'[s].pid = rpc[s].pid /\ (Running(s)' <=> Running(s))
  PROVE  UNCHANGED <<parent, handleOf>>
<1> DEFINE H(s) == IF parent /\ ctxinit[s]
       THEN [life |-> IF Running(s) THEN "up" ELSE "gone", proc |-> {rpc[s].pid}]
       ELSE [life |-> "down", proc |-> {}]
<1>1. ASSUME NEW s \in Services PROVE H(s)' = H(s)
  <2>1. CASE parent /\ ctxinit[s]
    <3>1. parent' /\ ctxinit'[s] /\ rpc'[s].pid = rpc[s].pid
          /\ (Running(s)' <=> Running(s))
      BY Zenon, <2>1
    <3> HIDE DEF Running
    <3> QED BY Zenon, <2>1, <3>1
  <2>2. CASE ~(parent /\ ctxinit[s])
    BY Zenon, <2>2
  <2> QED BY Zenon, <2>1, <2>2
<1> HIDE DEF H
<1>2. handleOf = [s \in Services |-> H(s)] /\ handleOf' = [s \in Services |-> H(s)']
  BY Zenon DEF H, handleOf
<1> QED BY Zenon, <1>1, <1>2

(* A step of a service process is its death, or invisible. *)
LEMMA ProcessStep ==
  ASSUME Inv, parent, NEW p \in Pids, ServiceStep(p) \/ Handle(p)
  PROVE  S!ServiceNext \/ UNCHANGED <<parent, handleOf>>
<1> USE DEF Inv
<1>1. /\ UNCHANGED <<parent, rpc, ctxinit, owner>>
      /\ st[p] \in Live
      /\ \A q \in Pids : q # p => st'[q] = st[q]
  BY Zenon, ServiceEffect
<1>2. CASE st'[p] \in Live \/ ~(\E s \in Services : ctxinit[s] /\ rpc[s].pid = p /\ owner[p] = s)
  <2>1. ASSUME NEW s \in Services, ctxinit[s] PROVE Running(s)' <=> Running(s)
    BY Zenon, <1>1, <1>2, <2>1 DEF Running
  <2> QED BY Zenon, <1>1, <2>1, HandleKept
<1>3. ASSUME st'[p] \notin Live, NEW s \in Services, ctxinit[s], rpc[s].pid = p, owner[p] = s
      PROVE  S!ServiceNext
  <2>1. Running(s) /\ ~Running(s)'
    BY Zenon, <1>1, <1>3 DEF Running
  <2>2. ASSUME NEW t \in Services, t # s PROVE Running(t)' <=> Running(t)
    BY Zenon, <1>1, <1>3, <2>2 DEF Running
  <2>3. handleOf[s] = [life |-> "up", proc |-> {p}]
    BY Zenon, <1>3, <2>1 DEF handleOf
  <2>4. handleOf' = [handleOf EXCEPT ![s] = [life |-> "gone", proc |-> {p}]]
    BY Zenon, <1>1, <1>3, <2>1, <2>2 DEF handleOf
  <2>5. S!Die(s)
    BY Zenon, <1>1, <2>3, <2>4 DEF S!Die, S!To
  <2> QED BY Zenon, <2>5 DEF S!ServiceNext
<1> QED BY Zenon, <1>2, <1>3

(* Collecting a child, or the coming and going of a stranger, concerns no  *)
(* running service.                                                        *)
LEMMA TableStep ==
  ASSUME Inv, UNCHANGED <<parent, rpc, ctxinit>>, NEW p \in Pids, st[p] \notin Live,
         st'[p] \notin Live,
         \A q \in Pids : q # p => st'[q] = st[q] /\ owner'[q] = owner[q]
  PROVE  UNCHANGED <<parent, handleOf>>
<1>1. ASSUME NEW s \in Services PROVE Running(s)' <=> Running(s)
  BY Zenon DEF Running
<1> QED BY Zenon, <1>1, HandleKept

(* The caller's thread inside an entry point: the context becomes           *)
(* initialized by the answer to init, and is given up by rpc_shutdown.      *)
LEMMA ThreadStep ==
  ASSUME Inv, MainStep PROVE S!ServiceNext \/ UNCHANGED <<parent, handleOf>>
<1> USE RpcAssumption DEF Inv, TypeOK
<1>p. parent
  BY Zenon DEF MainStep
<1>1. CASE setup_client
  <2>1. UNCHANGED <<parent, ctxinit, owner, st>>
    BY Zenon, <1>1 DEF setup_client, procvars
  <2>2. ASSUME NEW s \in Services PROVE rpc'[s].pid = rpc[s].pid
    <3>1. \/ rpc' = rpc
          \/ rpc' = [rpc EXCEPT ![cur] = [@ EXCEPT !.clt = TRUE, !.initialized = TRUE]]
      BY Zenon, <1>1 DEF setup_client
    <3>2. [rpc[cur] EXCEPT !.clt = TRUE, !.initialized = TRUE].pid = rpc[cur].pid
      BY DEF RpcStruct
    <3>3. rpc'[s] = rpc[s] \/ s = cur
      BY Zenon, <3>1
    <3> QED BY Zenon, <3>1, <3>2, <3>3
  <2>3. ASSUME NEW s \in Services PROVE Running(s)' <=> Running(s)
    BY Zenon, <2>1, <2>2 DEF Running
  <2> QED BY Zenon, <2>1, <2>2, <2>3, HandleKept
<1>2. CASE UNCHANGED <<parent, rpc, ctxinit, owner, st>>
  <2>1. ASSUME NEW s \in Services PROVE Running(s)' <=> Running(s)
    BY Zenon, <1>2 DEF Running
  <2> QED BY Zenon, <1>2, <2>1, HandleKept
<1>3. CASE Reap \/ Waitpid
  <2>1. UNCHANGED <<parent, rpc, ctxinit>> /\ mypid \in Pids
    BY Zenon, <1>3, <1>p DEF Reap, Waitpid, rpcvars, PidInv, Reaping
  <2>2. CASE st[mypid] = "zombie" /\ Released(mypid)
    <3>1. /\ st[mypid] \notin Live /\ st'[mypid] \notin Live
          /\ \A q \in Pids : q # mypid => st'[q] = st[q] /\ owner'[q] = owner[q]
      BY Zenon, <2>1, <2>2 DEF Released, Live, Starting
    <3> QED BY Zenon, <2>1, <3>1, TableStep
  <2>3. CASE UNCHANGED <<owner, st>>
    BY Zenon, <1>2, <2>1, <2>3
  <2> QED BY Zenon, <1>3, <2>2, <2>3 DEF Reap, Waitpid, procvars
<1>4. ASSUME NEW r \in {"ok", "error"}, CallReturns(r)
      PROVE S!ServiceNext \/ UNCHANGED <<parent, handleOf>>
  <2>1. UNCHANGED <<parent, rpc, owner, st>> /\ pc = "wait" /\ mypid \in Pids
        /\ owner[mypid] = cur
    BY Zenon, <1>4, <1>p DEF CallReturns, procvars, PidInv, Calling
  <2>2. CASE UNCHANGED ctxinit
    BY Zenon, <1>2, <2>1, <2>2
  <2>3. CASE op = "init" /\ ctxinit' = [ctxinit EXCEPT ![cur] = TRUE]
    <3>1. ~ctxinit[cur]
      BY Zenon, <2>1, <2>3 DEF ControlInv, Calling
    <3>2. ASSUME NEW s \in Services PROVE Running(s)' <=> Running(s)
      BY Zenon, <2>1 DEF Running
    <3>3. handleOf[cur] = [life |-> "down", proc |-> {}]
      BY Zenon, <3>1 DEF handleOf
    <3>4. handleOf' = [handleOf EXCEPT ![cur] =
              [life |-> IF Running(cur) THEN "up" ELSE "gone", proc |-> {mypid}]]
      BY ZenonT(30), <1>p, <2>1, <2>3, <3>2 DEF handleOf, mypid
    <3>5. ASSUME NEW t \in Services PROVE handleOf[t].proc # {mypid}
      <4>1. CASE ctxinit[t]
        <5>1. rpc[t].pid \in Pids /\ owner[rpc[t].pid] = t
          BY Zenon, <1>p, <2>1, <4>1 DEF InitializedPidIsChild
        <5>2. t # cur
          BY Zenon, <3>1, <4>1
        <5>3. rpc[t].pid # mypid
          BY Zenon, <2>1, <5>1, <5>2
        <5>4. handleOf[t].proc = {rpc[t].pid}
          BY Zenon, <1>p, <4>1 DEF handleOf
        <5> QED BY Zenon, <5>3, <5>4
      <4>2. CASE ~ctxinit[t]
        BY Zenon, <4>2 DEF handleOf
      <4> QED BY Zenon, <4>1, <4>2
    <3>6. S!Start(cur)
      <4>1. CASE Running(cur)
        BY Zenon, <1>p, <2>1, <3>3, <3>4, <3>5, <4>1 DEF S!Start, S!To, S!Down
      <4>2. CASE ~Running(cur)
        BY Zenon, <1>p, <2>1, <3>3, <3>4, <3>5, <4>2 DEF S!Start, S!To, S!Down
      <4> QED BY Zenon, <4>1, <4>2
    <3> QED BY Zenon, <3>6 DEF S!ServiceNext
  <2> QED BY Zenon, <1>4, <2>2, <2>3 DEF CallReturns
<1>5. CASE RpcShutdownDone
  <2>1. UNCHANGED <<parent, owner, st>> /\ pc = "reaped" /\ mypid \in Pids
    BY Zenon, <1>5, <1>p DEF RpcShutdownDone, procvars, PidInv, Reaping
  <2>2. CASE ret # 0
    BY Zenon, <1>2, <1>5, <2>1, <2>2 DEF RpcShutdownDone
  <2>3. CASE ret = 0
    <3>1. rpc' = [rpc EXCEPT ![cur] = ResetRpc] /\ ~Child(mypid)
      BY Zenon, <1>5, <1>p, <2>1, <2>3 DEF RpcShutdownDone, PidInv
    <3>2. ~Running(cur)
      BY Zenon, <3>1 DEF Running, Child, mypid
    <3>3. ASSUME NEW s \in Services, s # cur
          PROVE rpc'[s].pid = rpc[s].pid /\ (Running(s)' <=> Running(s))
      BY Zenon, <2>1, <3>1, <3>3 DEF Running
    <3>4. CASE op = "shutdown"
      <4>1. ctxinit' = [ctxinit EXCEPT ![cur] = FALSE] /\ ctxinit[cur]
        BY Zenon, <1>5, <2>1, <2>3, <3>4 DEF RpcShutdownDone, ControlInv, Reaping
      <4>2. handleOf[cur].life = "gone"
        BY Zenon, <1>p, <3>2, <4>1 DEF handleOf
      <4>3. handleOf' = [handleOf EXCEPT ![cur] = [life |-> "down", proc |-> {}]]
        BY Zenon, <1>p, <2>1, <3>3, <4>1 DEF handleOf
      <4>4. S!Stop(cur)
        BY Zenon, <1>p, <2>1, <4>2, <4>3 DEF S!Stop, S!Down
      <4> QED BY Zenon, <4>4 DEF S!ServiceNext
    <3>5. CASE op # "shutdown"
      <4>1. UNCHANGED ctxinit /\ ~ctxinit[cur]
        BY Zenon, <1>5, <2>1, <3>5 DEF RpcShutdownDone, ControlInv, Reaping, Ops
      <4> QED BY Zenon, <2>1, <3>3, <4>1, HandleKept
    <3> QED BY Zenon, <3>4, <3>5
  <2> QED BY Zenon, <2>2, <2>3
<1>6. CASE Send \/ PollFails \/ PollReady \/ PollTimeout \/ RpcInitFailed
  <2>1. UNCHANGED <<parent, rpc, ctxinit, owner, st>>
    BY Zenon, <1>6 DEF Send, PollFails, PollReady, PollTimeout, RpcInitFailed, rpcvars, procvars
  <2> QED BY Zenon, <1>2, <2>1
<1> QED BY Zenon, <1>1, <1>3, <1>4, <1>5, <1>6 DEF MainStep

(* An entry point is begun: a new child is not yet anybody's service. *)
LEMMA BeginStep ==
  ASSUME Inv, Begin PROVE UNCHANGED <<parent, handleOf>>
<1> USE RpcAssumption DEF Inv, TypeOK
<1>1. ASSUME NEW s \in Services, ~ctxinit[s], InitFork(s)
      PROVE  UNCHANGED <<parent, handleOf>>
  <2>1. PICK p \in Pids, a \in Fd, b \in Fd :
          /\ st[p] = "free"
          /\ rpc' = [rpc EXCEPT ![s] = [initialized |-> FALSE, clt_fd |-> a,
                                svc_fd |-> b, pid |-> p, clt |-> FALSE]]
          /\ owner' = [owner EXCEPT ![p] = s]
          /\ st' = [st EXCEPT ![p] = "born"]
    BY Zenon, <1>1 DEF InitFork, ForkService
  <2>2. UNCHANGED <<parent, ctxinit>>
    BY <1>1 DEF InitFork
  <2>3. ASSUME NEW t \in Services, ctxinit[t]
        PROVE  rpc'[t].pid = rpc[t].pid /\ (Running(t)' <=> Running(t))
    <3>1. t # s /\ rpc'[t] = rpc[t]
      BY Zenon, <1>1, <2>1, <2>3
    <3>2. st[p] \notin Live
      BY Zenon, <2>1 DEF Live, Starting
    <3> QED BY Zenon, <2>1, <3>1, <3>2 DEF Running
  <2> QED BY Zenon, <2>2, <2>3, HandleKept
<1>2. ASSUME NEW s \in Services, ~ctxinit[s], InitNoFork(s) \/ InitNoPath(s)
      PROVE  UNCHANGED <<parent, handleOf>>
  <2>1. /\ UNCHANGED <<parent, owner, st, ctxinit>>
        /\ rpc' = [rpc EXCEPT ![s] = ResetRpc]
    <3>1. /\ UNCHANGED <<parent, owner, st>>
          /\ ctxinit' = [ctxinit EXCEPT ![s] = FALSE]
          /\ rpc' = [rpc EXCEPT ![s] = ResetRpc]
      BY Zenon, <1>2 DEF InitNoFork, InitNoPath, procvars
    <3>2. ctxinit' = ctxinit
      BY <1>2, <3>1
    <3> QED BY Zenon, <3>1, <3>2
  <2>2. ASSUME NEW t \in Services, ctxinit[t]
        PROVE  rpc'[t].pid = rpc[t].pid /\ (Running(t)' <=> Running(t))
    BY ZenonT(30), <1>2, <2>1, <2>2 DEF Running
  <2> QED BY Zenon, <2>1, <2>2, HandleKept
<1>3. ASSUME NEW s \in Services, service_query(s) \/ service_shutdown(s)
      PROVE  UNCHANGED <<parent, handleOf>>
  <2>1. UNCHANGED <<parent, rpc, ctxinit, owner, st>>
    BY Zenon, <1>3 DEF service_query, service_shutdown, rpcvars, procvars
  <2> QED BY <2>1 DEF handleOf, Running
<1> QED BY Zenon, <1>1, <1>2, <1>3 DEF Begin, service_init

(* Every step of Rpc is a step of Service or changes nothing it speaks of. *)
LEMMA StepImplements ==
  Inv /\ [Next]_vars => [S!ServiceNext]_(S!servicevars)
<1> SUFFICES ASSUME Inv, [Next]_vars
             PROVE  S!ServiceNext \/ UNCHANGED <<parent, handleOf>>
  BY Zenon DEF S!servicevars
<1>1. CASE MainStep
  BY Zenon, <1>1, ThreadStep
<1>2. CASE Begin
  BY Zenon, <1>2, BeginStep
<1>3. CASE UNCHANGED vars \/ Return \/ CallerOpens \/ CallerCloses
  <2>1. UNCHANGED <<parent, rpc, ctxinit, owner, st>>
    BY Zenon, <1>3 DEF vars, Return, CallerOpens, CallerCloses, rpcvars, procvars
  <2> QED BY Zenon, <2>1 DEF handleOf, Running
<1>4. ASSUME NEW p \in Pids, ServiceStep(p) \/ Handle(p)
      PROVE S!ServiceNext \/ UNCHANGED <<parent, handleOf>>
  <2>1. CASE parent
    BY Zenon, <1>4, <2>1, ProcessStep
  <2>2. CASE ~parent
    <3>1. UNCHANGED <<parent, ctxinit, rpc>>
      BY Zenon, <1>4 DEF ServiceStep, SetPdeathsig, CheckParent, Register, SvcDestroy,
         Exit, DeliverSignal, Handle, HandleInit, HandleQuery, HandleShutdown,
         HandlerCrashes, Replies, rpcvars
    <3> QED BY Zenon, <2>2, <3>1, HandleKept
  <2> QED BY Zenon, <2>1, <2>2
<1>5. ASSUME NEW p \in Pids, ForeignStarts(p) \/ ForeignEnds(p)
      PROVE UNCHANGED <<parent, handleOf>>
  <2> USE DEF Inv, TypeOK
  <2>1. UNCHANGED <<parent, rpc, ctxinit>>
    BY Zenon, <1>5 DEF ForeignStarts, ForeignEnds, rpcvars
  <2>2. st[p] \notin Live /\ st'[p] \notin Live
    BY Zenon, <1>5 DEF ForeignStarts, ForeignEnds, Released, Live, Starting
  <2>3. \A q \in Pids : q # p => st'[q] = st[q] /\ owner'[q] = owner[q]
    BY Zenon, <1>5 DEF ForeignStarts, ForeignEnds, Released
  <2> QED BY Zenon, <2>1, <2>2, <2>3, TableStep
<1>6. CASE ParentDies
  <2>1. parent /\ parent' = FALSE
    BY Zenon, <1>6 DEF ParentDies
  <2>2. handleOf' = [s \in Services |-> [life |-> "down", proc |-> {}]]
    BY Zenon, <2>1 DEF handleOf
  <2>3. S!UserDies
    BY Zenon, <2>1, <2>2 DEF S!UserDies, S!Down
  <2> QED BY Zenon, <2>3 DEF S!ServiceNext
<1> QED BY Zenon, <1>1, <1>2, <1>3, <1>4, <1>5, <1>6 DEF Next, SystemStep, Environment

(* Rpc implements Service: an initialized context means one process, no    *)
(* other service's, that never comes back once it is gone, and rpc_shutdown *)
(* returns 0 only after it is.                                             *)
THEOREM Refinement == Spec => ImplementsService
<1>1. RpcInit => S!ServiceInit
  BY Zenon DEF RpcInit, S!ServiceInit, S!Down, handleOf
<1>2. Inv /\ [Next]_vars => [S!ServiceNext]_(S!servicevars)
  BY Zenon, StepImplements
<1> QED BY <1>1, <1>2, Invariance, PTL DEF Spec, ImplementsService, S!ServiceSpec
-----------------------------------------------------------------------------
(***************************************************************************)
(* The library context.                                                    *)
(***************************************************************************)
(* What a service or the system does leaves the thread, struct rpc and the *)
(* descriptors alone.                                                      *)
LEMMA QuietStep ==
  ASSUME SystemStep, ~MainStep
  PROVE  UNCHANGED <<pc, op, cur, caller, force, ret, rpc, ctxinit, fdt>>
<1>1. ASSUME NEW p \in Pids, ServiceStep(p) PROVE UNCHANGED <<mainvars, rpcvars, fdt>>
  BY Zenon, <1>1 DEF ServiceStep, SetPdeathsig, CheckParent, Register, SvcDestroy, Exit,
     DeliverSignal
<1>2. ASSUME NEW p \in Pids, Handle(p)
      PROVE UNCHANGED <<pc, op, cur, caller, force, ret, rpcvars, fdt>>
  BY Zenon, <1>2 DEF Handle, HandleInit, HandleQuery, HandleShutdown, HandlerCrashes,
     Replies, mainvars
<1>3. ASSUME ParentDies \/ \E p \in Pids : ForeignStarts(p) \/ ForeignEnds(p)
      PROVE UNCHANGED <<mainvars, rpcvars, fdt>>
  BY Zenon, <1>3 DEF ParentDies, ForeignStarts, ForeignEnds
<1> QED BY Zenon, <1>1, <1>2, <1>3 DEF SystemStep, Environment, mainvars, rpcvars

(* A step of the thread inside a call on a service stays in that call and   *)
(* works on that service: on its flag, its struct and its two descriptors.  *)
LEMMA ThreadEffect ==
  ASSUME TypeOK, ControlInv, MainStep
  PROVE  /\ parent /\ parent' /\ pc \in Calling \cup Reaping
         /\ pc' \in (Calling \ {"setup_client"}) \cup Reaping \cup {"returned"}
         /\ UNCHANGED <<op, cur>>
         /\ pc' \in Calling => pc \in Calling
         /\ \A s \in Services : s # cur => ctxinit'[s] = ctxinit[s] /\ rpc'[s] = rpc[s]
         /\ op = "query" => ctxinit' = ctxinit
         /\ op = "shutdown" /\ ctxinit'[cur] => ctxinit[cur]
         /\ pc' = "returned" /\ op = "init" => (ctxinit'[cur] <=> ret' = 0)
         /\ pc' = "returned" /\ op = "shutdown" /\ ret' = 0 => ~ctxinit'[cur]
         /\ pc' = "returned" /\ ret' = 0 /\ op = "init" => pc \in Calling
         /\ pc \in Calling =>
              \A n \in Fd : fdt'[n] = fdt[n] \/ (pc = "setup_client" /\ n = rpc[cur].svc_fd)
         /\ \A n \in Fd : fdt'[n] \in {fdt[n], Free}
<1> USE DEF TypeOK
<1>1. CASE setup_client
  <2>1. /\ pc = "setup_client" /\ pc' \in {"call", "reap"}
        /\ UNCHANGED <<parent, op, cur, ctxinit>> /\ fdt' = Close(fdt, {rpc[cur].svc_fd})
        /\ \A s \in Services : s # cur => rpc'[s] = rpc[s]
    BY Zenon, <1>1 DEF setup_client
  <2>2. \A n \in Fd : fdt'[n] = IF n \in {rpc[cur].svc_fd} THEN Free ELSE fdt[n]
    BY Zenon, <2>1 DEF Close
  <2> QED BY Zenon, <2>1, <2>2 DEF MainStep, Calling, Reaping
<1>2. ASSUME NEW r \in {"ok", "error"}, CallReturns(r)
      PROVE /\ pc = "wait" /\ pc' \in {"returned", "reap"} /\ UNCHANGED <<op, cur, rpc, fdt>>
            /\ \A s \in Services : s # cur => ctxinit'[s] = ctxinit[s]
            /\ op # "init" => ctxinit' = ctxinit
            /\ pc' = "returned" /\ op = "init" => ctxinit'[cur] /\ ret' = 0
            /\ pc' = "returned" => op # "shutdown"
  BY Zenon, <1>2 DEF CallReturns, Ops
<1>3. CASE \E r \in {"ok", "error"} : CallReturns(r)
  BY Zenon, <1>2, <1>3 DEF MainStep, CallReturns, Calling, Reaping
<1>4. CASE Send \/ Reap \/ PollFails \/ PollReady \/ PollTimeout \/ Waitpid
  <2>1. /\ UNCHANGED <<parent, op, cur, rpc, ctxinit, fdt>>
        /\ pc \in Calling \cup Reaping /\ pc' \in {"wait"} \cup Reaping
        /\ pc' = "wait" => pc \in Calling
    BY Zenon, <1>4 DEF Send, Reap, PollFails, PollReady, PollTimeout, Waitpid, rpcvars,
       Calling, Reaping
  <2> QED BY Zenon, <2>1 DEF MainStep, Calling, Reaping
<1>5. CASE RpcInitFailed
  <2>1. /\ pc = "reaped" /\ pc' = "reap" /\ UNCHANGED <<parent, op, cur, rpc, ctxinit>>
        /\ fdt' = Close(fdt, {rpc[cur].clt_fd, rpc[cur].svc_fd})
    BY Zenon, <1>5 DEF RpcInitFailed, rpcvars
  <2>2. \A n \in Fd : fdt'[n] \in {fdt[n], Free}
    BY Zenon, <2>1 DEF Close
  <2> QED BY Zenon, <2>1, <2>2 DEF MainStep, Calling, Reaping
<1>6. CASE RpcShutdownDone
  <2>1. pc = "reaped" /\ pc' = "returned" /\ UNCHANGED <<parent, op, cur>>
    BY Zenon, <1>6 DEF RpcShutdownDone
  <2>2. ctxinit[cur] <=> op # "init"
    BY Zenon, <2>1 DEF ControlInv, Reaping
  <2>3. \A n \in Fd : fdt'[n] \in {fdt[n], Free}
    <3>1. fdt' = fdt \/ fdt' = Close(fdt, {rpc[cur].clt_fd, rpc[cur].svc_fd})
      BY Zenon, <1>6 DEF RpcShutdownDone
    <3> QED BY Zenon, <3>1 DEF Close
  <2>4. \A s \in Services : s # cur => ctxinit'[s] = ctxinit[s] /\ rpc'[s] = rpc[s]
    <3>1. rpc' = rpc \/ rpc' = [rpc EXCEPT ![cur] = ResetRpc]
      BY Zenon, <1>6 DEF RpcShutdownDone
    <3>2. ctxinit' = ctxinit \/ ctxinit' = [ctxinit EXCEPT ![cur] = FALSE]
      BY Zenon, <1>6 DEF RpcShutdownDone
    <3> QED BY Zenon, <3>1, <3>2
  <2>5. op # "shutdown" => ctxinit' = ctxinit /\ ret' = -1
    BY Zenon, <1>6 DEF RpcShutdownDone
  <2>6. op = "shutdown" => ret' = ret /\ (ret = 0 => ~ctxinit'[cur])
    BY Zenon, <1>6 DEF RpcShutdownDone
  <2>7. op = "init" => ret' # 0 /\ ~ctxinit'[cur]
    BY <2>2, <2>5
  <2> QED BY Zenon, <2>1, <2>2, <2>3, <2>4, <2>5, <2>6, <2>7 DEF MainStep, Calling, Reaping
<1> QED BY Zenon, <1>1, <1>3, <1>4, <1>5, <1>6 DEF MainStep

(* Giving up the namespace closes that descriptor, or nothing. *)
LEMMA NamespaceCloses ==
  ASSUME TypeOK, parent, pc = "idle", ctx.mnt_ns \in Fd,
         fdt[ctx.mnt_ns] \in {MntNs, Free}, fdt' = Close(fdt, {ctx.mnt_ns}),
         UNCHANGED <<parent, mainvars, rpcvars, procvars>>
  PROVE  CallerCloses \/ UNCHANGED vars
<1>1. CASE fdt[ctx.mnt_ns] = MntNs
  BY Zenon, <1>1 DEF CallerCloses
<1>2. CASE fdt[ctx.mnt_ns] = Free
  <2>1. fdt' = fdt
    BY Zenon, <1>2 DEF Close, TypeOK
  <2> QED BY Zenon, <2>1 DEF vars
<1> QED BY Zenon, <1>1, <1>2

(* The context drives the services the way Rpc lets a caller do, but for    *)
(* an nvc_init that is called again after a failure.                        *)
LEMMA StepAllowed ==
  ASSUME ContextInv, [NvcNext]_allvars
  PROVE  [AnyNext]_vars /\ (~retried' => [Next]_vars)
<1> USE NvcContextAssumption DEF ContextInv, CoreInv
<1>1. CASE nvc_init
  <2>1. CASE UNCHANGED fdt
    BY Zenon, <1>1, <2>1 DEF nvc_init, vars
  <2>2. CASE fdt' # fdt
    <3>1. PICK n \in Fd : LowestFree(n) /\ fdt' = [fdt EXCEPT ![n] = MntNs]
      BY Zenon, <1>1, <2>2 DEF nvc_init
    <3>2. lib = "out" /\ ~ctx.initialized /\ pc = "idle" /\ parent
          /\ UNCHANGED <<parent, mainvars, rpcvars, procvars>>
      BY Zenon, <1>1 DEF nvc_init
    <3>3. {m \in Fd : fdt[m] = MntNs} = {}
      BY Zenon, <3>2 DEF MntInv, MntOpen
    <3>4. Cardinality({m \in Fd : fdt[m] = MntNs}) = 0
      BY <3>3, FS_EmptySet
    <3>5. Cardinality({m \in Fd : fdt[m] = MntNs}) < MaxOwn
      BY <3>4, RpcAssumption
    <3> QED BY Zenon, <3>1, <3>2, <3>5 DEF CallerOpens, Next, AnyNext
  <2> QED BY Zenon, <2>1, <2>2
<1>2. CASE EnvironmentFails \/ nvc_shutdown \/ UNCHANGED allvars
  BY Zenon, <1>2 DEF EnvironmentFails, nvc_shutdown, allvars
<1>3. CASE InitService
  <2>1. parent /\ pc = "idle" /\ retried' = retried
    BY Zenon, <1>3 DEF InitService, libvars
  <2>2. PICK s \in Services : service_init(s) /\ (~retried => ~ctxinit[s])
    BY Zenon, <1>3, <2>1 DEF InitService, FirstInv
  <2> QED BY Zenon, <2>1, <2>2 DEF AnyNext, Next, Begin, Reinit
<1>4. CASE ServiceInitReturns \/ ServiceShutdownReturns \/ QueryReturns
  BY Zenon, <1>4 DEF ServiceInitReturns, ServiceShutdownReturns, QueryReturns, Return, Next,
     AnyNext
<1>5. CASE InitFails
  <2>1. parent /\ pc = "idle" /\ ctx.mnt_ns \in Fd /\ fdt[ctx.mnt_ns] \in {MntNs, Free}
    BY Zenon, <1>5 DEF InitFails, LibInv, MntInv, MntOpen
  <2> QED BY Zenon, <1>5, <2>1, NamespaceCloses DEF InitFails, Next, AnyNext
<1>6. CASE ShutdownReturns
  <2>1. CASE ~ctx.initialized
    BY Zenon, <1>6, <2>1 DEF ShutdownReturns, vars
  <2>2. CASE ctx.initialized
    <3>1. parent /\ pc = "idle" /\ ctx.mnt_ns \in Fd /\ fdt[ctx.mnt_ns] \in {MntNs, Free}
      BY Zenon, <1>6, <2>2 DEF ShutdownReturns, LibInv, MntInv, MntOpen
    <3> QED BY Zenon, <1>6, <2>2, <3>1, NamespaceCloses DEF ShutdownReturns, Next, AnyNext
  <2> QED BY Zenon, <2>1, <2>2
<1>7. CASE ShutdownService
  BY Zenon, <1>7 DEF ShutdownService, Begin, Next, AnyNext
<1>8. CASE Query
  BY Zenon, <1>8 DEF Query, LibInv, Begin, Next, AnyNext
<1>9. CASE SystemStep
  BY Zenon, <1>9 DEF Next, AnyNext
<1> QED BY Zenon, <1>1, <1>2, <1>3, <1>4, <1>5, <1>6, <1>7, <1>8, <1>9 DEF NvcNext

(* The part of the invariant of Rpc that holds even then. *)
LEMMA CoreNext == CoreInv /\ [AnyNext]_vars => CoreInv'
BY Zenon, TypeNext, ProcNext, ControlNext, PidNext DEF CoreInv

(* The numbers compared below are told apart. *)
LEMMA MinusOne == -1 # 0 /\ -1 < 0 /\ ~(0 < 0)
OBVIOUS

CallInv == ReturnInv /\ LibInv /\ MntInv /\ FirstInv

(* The invariant of the context survives a step of the thread in a call. *)
LEMMA ContextThread ==
  ASSUME ContextInv, MainStep, UNCHANGED libvars
  PROVE  CallInv'
<1> USE NvcContextAssumption, MinusOne
<1>a. TypeOK /\ ControlInv /\ PidInv /\ ReturnInv /\ LibInv /\ MntInv /\ FirstInv
  BY Zenon DEF ContextInv, CoreInv
<1>b. /\ parent /\ pc \in Calling \cup Reaping
      /\ pc' \in (Calling \ {"setup_client"}) \cup Reaping \cup {"returned"}
      /\ UNCHANGED <<op, cur>>
      /\ pc' \in Calling => pc \in Calling
      /\ \A s \in Services : s # cur => ctxinit'[s] = ctxinit[s] /\ rpc'[s] = rpc[s]
      /\ op = "query" => ctxinit' = ctxinit
      /\ op = "shutdown" /\ ctxinit'[cur] => ctxinit[cur]
      /\ pc' = "returned" /\ op = "init" => (ctxinit'[cur] <=> ret' = 0)
      /\ pc' = "returned" /\ op = "shutdown" /\ ret' = 0 => ~ctxinit'[cur]
      /\ pc' = "returned" /\ ret' = 0 /\ op = "init" => pc \in Calling
      /\ pc \in Calling =>
           \A n \in Fd : fdt'[n] = fdt[n] \/ (pc = "setup_client" /\ n = rpc[cur].svc_fd)
      /\ \A n \in Fd : fdt'[n] \in {fdt[n], Free}
  BY Zenon, <1>a, ThreadEffect
<1>c. pc # "idle" /\ pc # "returned" /\ pc' # "idle" /\ pc' # "setup_client"
  BY Zenon, <1>b DEF Calling, Reaping
<1>d. UNCHANGED <<lib, ctx, rv, dirty, retried>>
  BY Zenon DEF libvars
<1>1. ReturnInv'
  BY Zenon, <1>b DEF ReturnInv
<1>2. LibInv'
  BY Zenon, <1>a, <1>b, <1>c, <1>d DEF LibInv
<1>3. MntInv'
  <2>1. MntOpen' = MntOpen
    BY Zenon, <1>d DEF MntOpen
  <2>2. Free # MntNs /\ <<mypid, "svc">> # MntNs
    BY Zenon DEF Free, MntNs
  <2>3. ASSUME lib \in {"init_driver", "init_nvcgo"},
               pc' \in Calling \cup {"idle"} \/ (pc' = "returned" /\ ret' = 0)
        PROVE fdt'[ctx.mnt_ns] = MntNs
    <3>1. MntOpen /\ ctx.mnt_ns \in Fd /\ op = "init"
      BY Zenon, <1>a, <1>c, <2>3 DEF MntInv, MntOpen, LibInv
    <3>2. pc \in Calling
      BY Zenon, <1>b, <1>c, <2>3, <3>1
    <3>3. \A n \in Fd : fdt'[n] = fdt[n] \/ (pc = "setup_client" /\ n = rpc[cur].svc_fd)
      BY Zenon, <1>b, <3>2
    <3>4. fdt[ctx.mnt_ns] = MntNs
      BY Zenon, <1>a, <2>3, <3>2 DEF MntInv
    <3> QED BY Zenon, <1>a, <2>2, <3>1, <3>3, <3>4 DEF MntInv
  <2>4. MntOpen => ctx.mnt_ns \in Fd /\ fdt'[ctx.mnt_ns] \in {MntNs, Free}
    BY Zenon, <1>a, <1>b DEF MntInv
  <2>5. \A n \in Fd : fdt'[n] = MntNs => MntOpen /\ n = ctx.mnt_ns
    BY Zenon, <1>a, <1>b, <2>2 DEF MntInv
  <2> QED BY Zenon, <1>c, <1>d, <2>1, <2>3, <2>4, <2>5 DEF MntInv
<1>4. FirstInv'
  BY Zenon, <1>a, <1>b, <1>c, <1>d DEF FirstInv, LibInv
<1> QED BY Zenon, <1>1, <1>2, <1>3, <1>4 DEF CallInv

(* ... and what happens outside the thread. *)
LEMMA ContextQuiet ==
  ASSUME CallInv, UNCHANGED <<pc, op, cur, ret, rpc, ctxinit, fdt, libvars>>
  PROVE  CallInv'
<1>1. UNCHANGED <<lib, ctx, rv, dirty, retried>>
  BY Zenon DEF libvars
<1>2. ReturnInv' /\ FirstInv'
  BY Zenon, <1>1 DEF CallInv, ReturnInv, FirstInv
<1>5. LibInv'
  BY ZenonT(30), <1>1 DEF CallInv, LibInv
<1>3. mypid' = mypid /\ MntOpen' = MntOpen
  BY Zenon, <1>1 DEF mypid, MntOpen
<1>4. MntInv'
  BY Zenon, <1>1, <1>3 DEF CallInv, MntInv
<1> QED BY Zenon, <1>2, <1>4, <1>5 DEF CallInv

(* The invariant of the context survives the steps of nvc_init ... *)
LEMMA ContextInit ==
  ASSUME ContextInv,
         nvc_init \/ EnvironmentFails \/ InitService \/ ServiceInitReturns \/ InitFails
  PROVE  CallInv'
<1> USE NvcContextAssumption, MinusOne
<1>a. TypeOK /\ ControlInv /\ PidInv /\ ReturnInv /\ LibInv /\ MntInv /\ FirstInv
  BY Zenon DEF ContextInv, CoreInv
<1>b. Free # MntNs /\ \A p \in Pids, k \in {"clt", "svc"} : <<p, k>> # MntNs
  BY Zenon DEF Free, MntNs
<1>c. ctx \in [initialized : BOOLEAN, mnt_ns : Fd \cup {NoFd}]
  BY Zenon, <1>a DEF LibInv
<1>1. CASE nvc_init
  <2>1. /\ parent /\ lib = "out" /\ pc = "idle" /\ ~ctx.initialized
        /\ retried' = (retried \/ dirty)
        /\ UNCHANGED <<parent, pc, op, cur, caller, force, ret, rpc, ctxinit>>
    BY Zenon, <1>1 DEF nvc_init, mainvars, rpcvars
  <2>2. ReturnInv'
    BY Zenon, <2>1 DEF ReturnInv
  <2>3. retried' \in BOOLEAN
    BY Zenon, <1>a, <2>1 DEF LibInv
  <2>4. ASSUME NEW n \in Fd, LowestFree(n), fdt' = [fdt EXCEPT ![n] = MntNs],
               ctx' = [ctx EXCEPT !.mnt_ns = n], lib' = "init_driver", UNCHANGED <<rv, dirty>>
        PROVE LibInv' /\ MntInv' /\ FirstInv'
    <3>1. ctx' \in [initialized : BOOLEAN, mnt_ns : Fd \cup {NoFd}]
          /\ ctx'.initialized = FALSE /\ ctx'.mnt_ns = n
      BY Zenon, <1>c, <2>1, <2>4
    <3>2. fdt'[n] = MntNs /\ \A m \in Fd : m # n => fdt'[m] = fdt[m]
      BY Zenon, <1>a, <2>4 DEF TypeOK
    <3>3. \A m \in Fd : fdt[m] # MntNs
      BY Zenon, <1>a, <2>1 DEF MntInv, MntOpen
    <3>4. LibInv'
      BY Zenon, <1>a, <2>1, <2>3, <2>4, <3>1 DEF LibInv, Places
    <3>5. MntInv'
      BY Zenon, <2>1, <2>4, <3>1, <3>2, <3>3 DEF MntInv, MntOpen
    <3>6. FirstInv'
      BY Zenon, <1>a, <2>1, <2>4 DEF FirstInv
    <3> QED BY Zenon, <3>4, <3>5, <3>6
  <2>5. ASSUME ctx' = [ctx EXCEPT !.mnt_ns = NoFd], rv' = -1, dirty' = TRUE,
               UNCHANGED <<fdt, lib>>
        PROVE LibInv' /\ MntInv' /\ FirstInv'
    <3>1. ctx' \in [initialized : BOOLEAN, mnt_ns : Fd \cup {NoFd}]
          /\ ctx'.initialized = FALSE
      BY Zenon, <1>c, <2>1, <2>5
    <3>3. \A m \in Fd : fdt[m] # MntNs
      BY Zenon, <1>a, <2>1 DEF MntInv, MntOpen
    <3>4. LibInv'
      BY Zenon, <1>a, <2>1, <2>3, <2>5, <3>1 DEF LibInv, Places
    <3>5. MntInv'
      BY Zenon, <2>1, <2>5, <3>1, <3>3 DEF MntInv, MntOpen
    <3>6. FirstInv'
      BY Zenon, <2>1, <2>5 DEF FirstInv
    <3> QED BY Zenon, <3>4, <3>5, <3>6
  <2> QED BY Zenon, <1>1, <2>2, <2>4, <2>5 DEF nvc_init, CallInv
<1>2. CASE EnvironmentFails
  <2>1. /\ lib = "init_driver" /\ lib' = "fail" /\ pc = "idle"
        /\ UNCHANGED <<pc, op, cur, ret, rpc, ctxinit, fdt, ctx, rv, dirty, retried>>
    BY Zenon, <1>2 DEF EnvironmentFails, vars, mainvars, rpcvars
  <2>2. LibInv'
    BY Zenon, <1>a, <2>1 DEF LibInv, Places
  <2>3. MntInv'
    BY Zenon, <1>a, <2>1 DEF MntInv, MntOpen
  <2> QED BY Zenon, <2>1, <2>2, <2>3 DEF CallInv, ReturnInv, FirstInv
<1>3. CASE ServiceInitReturns
  <2>1. /\ pc = "returned" /\ pc' = "idle" /\ lib \in {"init_driver", "init_nvcgo"}
        /\ UNCHANGED <<op, cur, ret, rpc, ctxinit, fdt, dirty, retried>>
    BY Zenon, <1>3 DEF ServiceInitReturns, rpcvars
  <2>2. op = "init" /\ (lib = "init_driver" => cur = "driver") /\ (lib = "init_nvcgo" => cur = "nvcgo")
    BY Zenon, <1>a, <2>1 DEF LibInv
  <2>3. ctxinit[cur] <=> ret = 0
    BY Zenon, <1>a, <2>1, <2>2 DEF ReturnInv
  <2>4. ~ctx.initialized /\ MntOpen
    BY Zenon, <1>a, <2>1 DEF LibInv, MntOpen
  <2>5. CASE lib = "init_driver" /\ ret = 0
    <3>1. lib' = "init_nvcgo" /\ UNCHANGED <<ctx, rv>>
      BY Zenon, <1>3, <2>5 DEF ServiceInitReturns
    <3>2. LibInv'
      BY Zenon, <1>a, <2>1, <2>2, <2>3, <2>5, <3>1 DEF LibInv, Places
    <3>3. MntInv'
      BY Zenon, <1>a, <2>1, <2>4, <2>5, <3>1 DEF MntInv, MntOpen
    <3> QED BY Zenon, <1>a, <2>1, <2>5, <3>1, <3>2, <3>3 DEF CallInv, ReturnInv, FirstInv
  <2>6. CASE lib = "init_nvcgo" /\ ret = 0
    <3>1. lib' = "out" /\ ctx' = [ctx EXCEPT !.initialized = TRUE] /\ rv' = 0
      BY Zenon, <1>3, <2>6 DEF ServiceInitReturns
    <3>2. ctx' \in [initialized : BOOLEAN, mnt_ns : Fd \cup {NoFd}]
          /\ ctx'.initialized /\ ctx'.mnt_ns = ctx.mnt_ns
      BY Zenon, <1>c, <3>1
    <3>3. \A s \in Services : ctxinit[s]
      BY Zenon, <1>a, <2>2, <2>3, <2>6 DEF LibInv
    <3>4. LibInv'
      BY Zenon, <1>a, <2>1, <3>1, <3>2, <3>3 DEF LibInv, Places
    <3>5. MntInv'
      BY Zenon, <1>a, <2>1, <2>4, <2>6, <3>1, <3>2 DEF MntInv, MntOpen
    <3> QED BY Zenon, <2>1, <3>1, <3>2, <3>4, <3>5 DEF CallInv, ReturnInv, FirstInv
  <2>7. CASE ret # 0
    <3>1. lib' = "fail" /\ UNCHANGED <<ctx, rv>>
      BY Zenon, <1>3, <2>7 DEF ServiceInitReturns
    <3>2. LibInv'
      BY Zenon, <1>a, <2>1, <2>4, <3>1 DEF LibInv, Places
    <3>3. MntInv'
      BY Zenon, <1>a, <2>1, <2>4, <3>1 DEF MntInv, MntOpen
    <3> QED BY Zenon, <2>1, <3>1, <3>2, <3>3 DEF CallInv, ReturnInv, FirstInv
  <2> QED BY Zenon, <2>1, <2>5, <2>6, <2>7
<1>4. CASE InitFails
  <2>1. /\ lib = "fail" /\ lib' = "out" /\ rv' = -1 /\ dirty' = TRUE
        /\ fdt' = Close(fdt, {ctx.mnt_ns})
        /\ UNCHANGED <<pc, op, cur, ret, rpc, ctxinit, ctx, retried>>
    BY Zenon, <1>4 DEF InitFails, mainvars, rpcvars
  <2>2. pc = "idle" /\ ~ctx.initialized
    BY Zenon, <1>a, <2>1 DEF LibInv
  <2>3. \A n \in Fd : fdt'[n] # MntNs
    BY Zenon, <1>a, <1>b, <2>1 DEF MntInv, Close
  <2>4. LibInv'
    BY Zenon, <1>a, <2>1, <2>2 DEF LibInv, Places
  <2>5. MntInv'
    BY Zenon, <2>1, <2>2, <2>3 DEF MntInv, MntOpen
  <2> QED BY Zenon, <2>1, <2>2, <2>4, <2>5 DEF CallInv, ReturnInv, FirstInv
<1>5. CASE InitService
  <2>1. PICK s \in Services :
          /\ service_init(s) /\ lib \in {"init_driver", "init_nvcgo"}
          /\ (lib = "init_driver" => s = "driver") /\ (lib = "init_nvcgo" => s = "nvcgo")
    BY Zenon, <1>5 DEF InitService
  <2>2. pc = "idle" /\ UNCHANGED <<lib, ctx, rv, dirty, retried>>
    BY Zenon, <1>5 DEF InitService, libvars
  <2>3. /\ cur' = s /\ op' = "init" /\ ctxinit' = [ctxinit EXCEPT ![s] = FALSE]
        /\ pc' \in {"setup_client", "returned"} /\ pc' = "returned" => ret' = -1
    BY Zenon, <2>1 DEF service_init, InitFork, InitNoFork, InitNoPath
  <2>4. ctxinit'[s] = FALSE /\ \A t \in Services : t # s => ctxinit'[t] = ctxinit[t]
    BY Zenon, <1>a, <2>3 DEF TypeOK
  <2>5. ReturnInv'
    BY Zenon, <2>3, <2>4 DEF ReturnInv
  <2>6. LibInv'
    BY Zenon, <1>a, <2>1, <2>2, <2>3, <2>4 DEF LibInv
  <2>7. FirstInv'
    BY Zenon, <1>a, <2>1, <2>2, <2>3, <2>4 DEF FirstInv
  <2>8. MntOpen /\ MntOpen' /\ ctx.mnt_ns \in Fd /\ fdt[ctx.mnt_ns] = MntNs
    BY Zenon, <1>a, <2>1, <2>2 DEF MntOpen, MntInv
  <2>9. MntInv'
    <3>1. CASE InitFork(s)
      <4>1. PICK p \in Pids, a \in Fd, b \in Fd :
              /\ LowestFree(a) /\ a < b /\ fdt[b] = Free
              /\ rpc' = [rpc EXCEPT ![s] = [initialized |-> FALSE, clt_fd |-> a,
                                            svc_fd |-> b, pid |-> p, clt |-> FALSE]]
              /\ fdt' = [fdt EXCEPT ![a] = <<p, "clt">>, ![b] = <<p, "svc">>]
        BY Zenon, <3>1 DEF InitFork, ForkService
      <4>2. /\ fdt'[b] = <<p, "svc">> /\ fdt'[a] \in {<<p, "clt">>, <<p, "svc">>}
            /\ \A n \in Fd : n # a /\ n # b => fdt'[n] = fdt[n]
        BY Zenon, <1>a, <4>1 DEF TypeOK
      <4>3. rpc'[s].svc_fd = b /\ rpc'[s].pid = p
        BY Zenon, <1>a, <4>1 DEF TypeOK
      <4>4. fdt[a] = Free /\ fdt[b] = Free
        BY Zenon, <4>1 DEF LowestFree
      <4>5. ctx.mnt_ns # a /\ ctx.mnt_ns # b
        BY Zenon, <1>b, <2>8, <4>4
      <4>6. fdt'[ctx.mnt_ns] = MntNs
        BY Zenon, <2>8, <4>2, <4>5
      <4>7. \A n \in Fd : fdt'[n] = MntNs => n = ctx.mnt_ns
        BY Zenon, <1>a, <1>b, <4>2 DEF MntInv
      <4>8. rpc'[cur'].svc_fd \in Fd /\ fdt'[rpc'[cur'].svc_fd] = <<mypid', "svc">>
        BY Zenon, <2>3, <4>2, <4>3 DEF mypid
      <4> QED BY Zenon, <2>2, <2>8, <4>6, <4>7, <4>8 DEF MntInv
    <3>2. CASE InitNoFork(s) \/ InitNoPath(s)
      <4>1. pc' = "returned" /\ ret' = -1 /\ fdt' \in {fdt, Close(fdt, {0})}
        BY Zenon, <3>2 DEF InitNoFork, InitNoPath
      <4>2. \A n \in Fd : fdt'[n] \in {fdt[n], Free}
        BY Zenon, <4>1 DEF Close
      <4>3. \A n \in Fd : fdt'[n] = MntNs => n = ctx.mnt_ns
        BY Zenon, <1>a, <1>b, <4>2 DEF MntInv
      <4> QED BY Zenon, <2>2, <2>8, <4>1, <4>2, <4>3 DEF MntInv, Calling
    <3> QED BY Zenon, <2>1, <3>1, <3>2 DEF service_init
  <2> QED BY Zenon, <2>5, <2>6, <2>7, <2>9 DEF CallInv
<1> QED BY Zenon, <1>1, <1>2, <1>3, <1>4, <1>5

(* ... those of nvc_shutdown, and a query. *)
LEMMA ContextShutdown ==
  ASSUME ContextInv,
         \/ nvc_shutdown \/ ShutdownService \/ ServiceShutdownReturns \/ ShutdownReturns
         \/ Query \/ QueryReturns
  PROVE  CallInv'
<1> USE NvcContextAssumption, MinusOne
<1>a. TypeOK /\ ReturnInv /\ LibInv /\ MntInv /\ FirstInv
  BY Zenon DEF ContextInv, CoreInv
<1>b. Free # MntNs
  BY Zenon DEF Free, MntNs
<1>1. CASE nvc_shutdown
  <2>1. /\ lib = "out" /\ lib' = "shut_nvcgo" /\ pc = "idle" /\ rv' = 0
        /\ UNCHANGED <<pc, op, cur, ret, rpc, ctxinit, fdt, ctx, dirty, retried>>
    BY Zenon, <1>1 DEF nvc_shutdown, vars, mainvars, rpcvars
  <2>2. LibInv'
    BY Zenon, <1>a, <2>1 DEF LibInv, Places
  <2>3. MntInv'
    BY Zenon, <1>a, <2>1 DEF MntInv, MntOpen
  <2> QED BY Zenon, <2>1, <2>2, <2>3 DEF CallInv, ReturnInv, FirstInv
<1>2. CASE ShutdownService
  <2>1. PICK s \in Services :
          /\ service_shutdown(s) /\ lib \in {"shut_nvcgo", "shut_driver"}
          /\ (lib = "shut_driver" => s = "driver") /\ (lib = "shut_nvcgo" => s = "nvcgo")
    BY Zenon, <1>2 DEF ShutdownService
  <2>2. /\ pc = "idle" /\ pc' \in {"call", "returned"} /\ op' = "shutdown" /\ cur' = s
        /\ pc' = "returned" => ~ctxinit[s]
        /\ UNCHANGED <<lib, ctx, rv, dirty, retried, rpc, ctxinit, fdt>>
    BY Zenon, <1>2, <2>1 DEF ShutdownService, service_shutdown, libvars, rpcvars
  <2>3. LibInv'
    BY Zenon, <1>a, <2>1, <2>2 DEF LibInv
  <2>4. MntInv'
    BY Zenon, <1>a, <2>1, <2>2 DEF MntInv, MntOpen
  <2>5. ReturnInv'
    BY Zenon, <2>2 DEF ReturnInv
  <2> QED BY Zenon, <2>1, <2>2, <2>3, <2>4, <2>5 DEF CallInv, FirstInv
<1>3. CASE ServiceShutdownReturns
  <2>1. /\ pc = "returned" /\ pc' = "idle"
        /\ \/ lib = "shut_nvcgo" /\ lib' = "shut_driver"
           \/ lib = "shut_driver" /\ lib' = "shut_ctx"
        /\ rv' = IF ret < 0 THEN -1 ELSE rv
        /\ UNCHANGED <<op, cur, ret, rpc, ctxinit, fdt, ctx, dirty, retried>>
    BY Zenon, <1>3 DEF ServiceShutdownReturns, rpcvars
  <2>2. /\ op = "shutdown" /\ (lib = "shut_driver" => cur = "driver")
        /\ (lib = "shut_nvcgo" => cur = "nvcgo")
    BY Zenon, <1>a, <2>1 DEF LibInv
  <2>3. rv' \in {0, -1} /\ (rv' = 0 => rv = 0 /\ ~ctxinit[cur])
    BY Zenon, <1>a, <2>1, <2>2 DEF LibInv, ReturnInv, TypeOK
  <2>4. LibInv'
    BY Zenon, <1>a, <2>1, <2>2, <2>3 DEF LibInv, Places
  <2>5. MntInv'
    BY Zenon, <1>a, <2>1 DEF MntInv, MntOpen
  <2> QED BY Zenon, <2>1, <2>4, <2>5 DEF CallInv, ReturnInv, FirstInv
<1>4. CASE ShutdownReturns
  <2>1. /\ lib = "shut_ctx" /\ lib' = "out" /\ dirty' = (rv # 0)
        /\ UNCHANGED <<pc, op, cur, ret, rpc, ctxinit, rv, retried>>
    BY Zenon, <1>4 DEF ShutdownReturns, mainvars, rpcvars
  <2>2. pc = "idle" /\ (rv = 0 => ~ctxinit["nvcgo"] /\ ~ctxinit["driver"])
    BY Zenon, <1>a, <2>1 DEF LibInv
  <2>3. /\ ctx' \in [initialized : BOOLEAN, mnt_ns : Fd \cup {NoFd}] /\ ~ctx'.initialized
        /\ \A n \in Fd : fdt'[n] # MntNs
    <3>1. CASE ctx.initialized
      <4>1. fdt' = Close(fdt, {ctx.mnt_ns}) /\ ctx' = [initialized |-> FALSE, mnt_ns |-> NoFd]
        BY Zenon, <1>4, <3>1 DEF ShutdownReturns
      <4>2. \A n \in Fd : fdt'[n] # MntNs
        BY Zenon, <1>a, <1>b, <4>1 DEF MntInv, Close
      <4> QED BY Zenon, <4>1, <4>2
    <3>2. CASE ~ctx.initialized
      BY Zenon, <1>4, <1>a, <2>1, <3>2 DEF ShutdownReturns, LibInv, MntInv, MntOpen
    <3> QED BY Zenon, <3>1, <3>2
  <2>4. LibInv'
    BY Zenon, <1>a, <2>1, <2>2, <2>3 DEF LibInv, Places
  <2>5. MntInv'
    BY Zenon, <2>1, <2>2, <2>3 DEF MntInv, MntOpen
  <2>6. FirstInv'
    BY Zenon, <2>1, <2>2 DEF FirstInv
  <2> QED BY Zenon, <2>1, <2>2, <2>4, <2>5, <2>6 DEF CallInv, ReturnInv
<1>5. CASE Query
  <2>1. /\ lib = "out" /\ lib' = "query" /\ pc = "idle" /\ pc' = "call" /\ op' = "query"
        /\ ctx.initialized /\ UNCHANGED <<rpc, ctxinit, fdt, ctx, rv, dirty, retried>>
    BY Zenon, <1>5 DEF Query, service_query, rpcvars
  <2>2. LibInv'
    BY Zenon, <1>a, <2>1 DEF LibInv, Places
  <2>3. MntInv'
    BY Zenon, <1>a, <2>1 DEF MntInv, MntOpen
  <2> QED BY Zenon, <2>1, <2>2, <2>3 DEF CallInv, ReturnInv, FirstInv
<1>6. CASE QueryReturns
  <2>1. /\ lib = "query" /\ lib' = "out" /\ pc' = "idle"
        /\ UNCHANGED <<op, cur, ret, rpc, ctxinit, fdt, ctx, rv, dirty, retried>>
    BY Zenon, <1>6 DEF QueryReturns, rpcvars
  <2>2. ctx.initialized
    BY Zenon, <1>a, <2>1 DEF LibInv
  <2>3. LibInv'
    BY Zenon, <1>a, <2>1, <2>2 DEF LibInv, Places
  <2>4. MntInv'
    BY Zenon, <1>a, <2>1, <2>2 DEF MntInv, MntOpen
  <2> QED BY Zenon, <2>1, <2>2, <2>3, <2>4 DEF CallInv, ReturnInv, FirstInv
<1> QED BY Zenon, <1>1, <1>2, <1>3, <1>4, <1>5, <1>6

(* The context starts with the invariant, and every step keeps it. *)
LEMMA ContextStarts == NvcInit => ContextInv
<1> SUFFICES ASSUME NvcInit PROVE ContextInv
  OBVIOUS
<1>1. CoreInv
  BY Zenon, InvInit DEF NvcInit, Inv, CoreInv
<1>2. ReturnInv /\ FirstInv
  BY Zenon DEF NvcInit, RpcInit, ReturnInv, FirstInv
<1>3. LibInv
  BY Zenon DEF NvcInit, RpcInit, LibInv, Places
<1>4. MntInv
  <2>1. Free # MntNs /\ Caller # MntNs
    BY Zenon DEF Free, MntNs, Caller
  <2>2. \A n \in Fd : fdt[n] # MntNs
    BY Zenon, <2>1 DEF NvcInit, RpcInit
  <2> QED BY Zenon, <2>2 DEF NvcInit, RpcInit, MntInv, MntOpen
<1> QED BY Zenon, <1>1, <1>2, <1>3, <1>4 DEF ContextInv

LEMMA ContextNext == ContextInv /\ [NvcNext]_allvars => ContextInv'
<1> SUFFICES ASSUME ContextInv, [NvcNext]_allvars PROVE ContextInv'
  OBVIOUS
<1>1. CoreInv'
  BY Zenon, StepAllowed, CoreNext DEF ContextInv
<1>2. CallInv
  BY Zenon DEF ContextInv, CallInv
<1>3. CASE SystemStep /\ UNCHANGED libvars
  <2>1. CASE MainStep
    BY Zenon, <1>1, <1>3, <2>1, ContextThread DEF ContextInv, CallInv
  <2>2. CASE ~MainStep
    BY Zenon, <1>1, <1>2, <1>3, <2>2, QuietStep, ContextQuiet DEF ContextInv, CallInv
  <2> QED BY Zenon, <2>1, <2>2
<1>4. CASE UNCHANGED allvars
  BY Zenon, <1>1, <1>2, <1>4, ContextQuiet
     DEF ContextInv, CallInv, allvars, vars, mainvars, rpcvars
<1> QED BY Zenon, <1>1, <1>3, <1>4, ContextInit, ContextShutdown
        DEF NvcNext, ContextInv, CallInv

(* The invariant of the context, whatever may fail. *)
THEOREM ContextInvariance == NvcSpec => []ContextInv
BY ContextStarts, ContextNext, PTL DEF NvcSpec

(* nvc_init, nvc_shutdown and the queries use the services as Rpc allows,  *)
(* until nvc_init is called again after a failure; and even then no        *)
(* process is signalled that is not a child, but in the case named there.  *)
THEOREM ContextUsesServices == NvcSpec => UsesServicesAsAllowed
<1>1. NvcInit => RpcInit
  BY Zenon DEF NvcInit
<1>2. ContextInv /\ [NvcNext]_allvars => [~retried' => [Next]_vars]_allvars
  BY Zenon, StepAllowed
<1>3. ContextInv /\ [NvcNext]_allvars => [Stray]_vars
  BY Zenon, StepAllowed, SignalStep DEF ContextInv
<1> QED BY ContextInvariance, <1>1, <1>2, <1>3, PTL
        DEF NvcSpec, UsesServicesAsAllowed, SignalsOnlyItsChild, Stray

-----------------------------------------------------------------------------
(***************************************************************************)
(* The library context when no reap fails.                                 *)
(***************************************************************************)
(* The pid of a service in use is its child's, or that of none. *)
LEMMA PidsInUse ==
  ASSUME CoreInv, parent, NEW s \in Services, InUse(s)
  PROVE  /\ rpc[s].pid \in Pids
         /\ owner[rpc[s].pid] = s \/ (s = cur /\ owner[rpc[s].pid] \notin Services)
<1>1. CASE s = cur /\ pc \in Calling \cup Reaping
  BY Zenon, <1>1 DEF CoreInv, PidInv, mypid, Child
<1>2. CASE ~(s = cur /\ pc \in Calling \cup Reaping)
  BY Zenon, <1>2 DEF CoreInv, InitializedPidIsChild, InUse, Reaping
<1> QED BY Zenon, <1>1, <1>2

(* So two services in use have two processes. *)
LEMMA PidsDiffer ==
  ASSUME CoreInv, parent, NEW s \in Services, NEW t \in Services, s # t, InUse(s), InUse(t)
  PROVE  rpc[s].pid # rpc[t].pid
BY Zenon, PidsInUse

(* Children, sockets and the table are as they were when the services in   *)
(* use, and what is being done with them, are.                             *)
LEMMA UseKept ==
  ASSUME ChildInv, SocketInv, TableInv, UNCHANGED <<rpc, ctxinit, fdt>>,
         \A p \in Pids : owner'[p] \in Services => owner'[p] = owner[p],
         \A s \in Services : InUse(s)' <=> InUse(s),
         \A s \in Services : (Again /\ cur = s)' <=> (Again /\ cur = s),
         pc' = "setup_client" <=> pc = "setup_client",
         pc = "setup_client" => cur' = cur
  PROVE  ChildInv' /\ SocketInv' /\ TableInv'
<1> USE NvcContextAssumption
<1>1. ChildInv'
  BY Zenon DEF ChildInv, Child
<1>2. SocketInv'
  BY Zenon DEF SocketInv
<1>3. TableInv'
  BY Zenon DEF TableInv
<1> QED BY Zenon, <1>1, <1>2, <1>3

(* While the caller lives, only it makes and collects its children. *)
LEMMA QuietChildren ==
  ASSUME TypeOK, ProcInv, SystemStep, ~MainStep, parent'
  PROVE  /\ parent
         /\ \A p \in Pids : owner[p] \in Services \/ owner'[p] \in Services => owner'[p] = owner[p]
<1>1. ~ParentDies
  BY Zenon DEF ParentDies
<1>2. ASSUME NEW p \in Pids, ServiceStep(p) \/ Handle(p) PROVE parent /\ UNCHANGED owner
  <2>1. parent
    BY Zenon, <1>2 DEF ServiceStep, SetPdeathsig, CheckParent, Register, SvcDestroy,
       Exit, DeliverSignal, Handle, HandleInit, HandleQuery, HandleShutdown,
       HandlerCrashes, Replies
  <2> QED BY Zenon, <1>2, <2>1, ServiceEffect
<1>3. ASSUME NEW p \in Pids, ForeignStarts(p) \/ ForeignEnds(p)
      PROVE parent /\ \A q \in Pids : owner[q] \in Services \/ owner'[q] \in Services
                                        => owner'[q] = owner[q]
  <2>1. parent /\ (st[p] = "free" \/ st[p] = "other")
        /\ owner' \in {[owner EXCEPT ![p] = Foreign], [owner EXCEPT ![p] = NoSvc]}
    BY Zenon, <1>3 DEF ForeignStarts, ForeignEnds, Released
  <2>2. owner[p] \notin Services
    BY Zenon, <2>1, RpcAssumption DEF ProcInv
  <2> QED BY Zenon, <2>1, <2>2, RpcAssumption DEF TypeOK
<1> QED BY Zenon, <1>1, <1>2, <1>3 DEF SystemStep, Environment

(* What is given up with a service is its socket, and nothing that another *)
(* one has: the end of reap_process in rpc_init and rpc_shutdown.          *)
LEMMA SocketsClosed ==
  ASSUME CoreInv, SocketInv, TableInv, parent, pc = "reaped",
         cur = "driver" => ~ctxinit["nvcgo"],
         \/ Again /\ fdt' = fdt
         \/ ~Again /\ fdt' = Close(fdt, {rpc[cur].clt_fd, rpc[cur].svc_fd})
  PROVE  /\ \A t \in Services : t # cur /\ InUse(t) =>
              fdt'[rpc[t].clt_fd] = <<rpc[t].pid, "clt">> /\ fdt'[rpc[t].svc_fd] = Free
         /\ \A n \in Fd :
              \/ fdt'[n] \in {Free, Caller, MntNs}
              \/ \E t \in Services : /\ t # cur /\ InUse(t)
                                     /\ n = rpc[t].clt_fd /\ fdt'[n] = <<rpc[t].pid, "clt">>
         /\ ~Again => fdt[rpc[cur].svc_fd] = Free /\ fdt[rpc[cur].clt_fd] = <<mypid, "clt">>
<1> USE NvcContextAssumption
<1> DEFINE c == rpc[cur].clt_fd
           v == rpc[cur].svc_fd
<1>1. /\ cur \in Services /\ InUse(cur) /\ c \in Fd /\ v \in Fd
      /\ ~Again => fdt[c] = <<mypid, "clt">>
  BY Zenon DEF CoreInv, TypeOK, InUse, Reaping, SocketInv, mypid
<1>2. cur = "driver" => ~InUse("nvcgo")
  BY Zenon DEF InUse
<1>3. fdt[v] = Free
  BY Zenon, <1>1, <1>2 DEF SocketInv
<1>4. \A n \in Fd : \/ ~Again /\ n \in {c, v} /\ fdt'[n] = Free
                    \/ fdt'[n] = fdt[n] /\ (~Again => n # c /\ n # v)
  BY Zenon DEF Close
<1>5. \A t \in Services : InUse(t) => rpc[t].pid \in Pids
  BY Zenon, PidsInUse
<1>6. \A t \in Services : t # cur /\ InUse(t) => rpc[t].pid # mypid
  BY Zenon, <1>1, PidsDiffer DEF mypid
<1>7. \A q \in Pids, k \in {"clt", "svc"} : <<q, k>> \notin {Free, Caller, MntNs}
  BY Zenon DEF Free, Caller, MntNs
<1> HIDE DEF c, v
<1>8. ASSUME NEW t \in Services, t # cur, InUse(t)
      PROVE fdt'[rpc[t].clt_fd] = <<rpc[t].pid, "clt">>
  <2>1. rpc[t].clt_fd \in Fd /\ fdt[rpc[t].clt_fd] = <<rpc[t].pid, "clt">>
    BY Zenon, <1>8 DEF SocketInv
  <2>2. ~Again => rpc[t].clt_fd # c
    BY <1>1, <1>6, <1>8, <2>1
  <2>3. rpc[t].clt_fd # v
    BY Zenon, <1>3, <1>5, <1>7, <1>8, <2>1
  <2> QED BY Zenon, <1>4, <2>1, <2>2, <2>3
<1>9. ASSUME NEW n \in Fd, fdt[n] \in {<<mypid, "clt">>, <<mypid, "svc">>}
      PROVE ~Again /\ n = c
  <2>1. mypid \in Pids
    BY Zenon, <1>1, <1>5 DEF mypid
  <2>2. PICK s \in Services : /\ InUse(s) /\ ~(Again /\ cur = s)
                              /\ n = rpc[s].clt_fd /\ fdt[n] = <<rpc[s].pid, "clt">>
    BY Zenon, <1>7, <1>9, <2>1 DEF TableInv
  <2>3. s = cur
    BY <1>6, <1>9, <2>2
  <2> QED BY Zenon, <2>2, <2>3 DEF c
<1>10. ASSUME NEW t \in Services, t # cur, InUse(t) PROVE fdt'[rpc[t].svc_fd] = Free
  <2>1. /\ rpc[t].svc_fd \in Fd
        /\ \/ fdt[rpc[t].svc_fd] = Free
           \/ fdt[rpc[t].svc_fd] \in {<<mypid, "clt">>, <<mypid, "svc">>}
    BY Zenon, <1>1, <1>10 DEF SocketInv, mypid
  <2> QED BY Zenon, <1>4, <1>9, <2>1
<1>11. ASSUME NEW n \in Fd, fdt'[n] \notin {Free, Caller, MntNs}
       PROVE \E t \in Services : /\ t # cur /\ InUse(t)
                                 /\ n = rpc[t].clt_fd /\ fdt'[n] = <<rpc[t].pid, "clt">>
  <2>1. fdt'[n] = fdt[n] /\ (~Again => n # c)
    BY Zenon, <1>4, <1>11
  <2>2. PICK s \in Services : /\ InUse(s) /\ ~(Again /\ cur = s)
                              /\ n = rpc[s].clt_fd /\ fdt[n] = <<rpc[s].pid, "clt">>
    BY Zenon, <1>11, <2>1 DEF TableInv
  <2> QED BY Zenon, <2>1, <2>2 DEF c
<1> QED BY Zenon, <1>1, <1>3, <1>8, <1>10, <1>11 DEF c, v

ServicesInv == ReapInv /\ ChildInv /\ SocketInv /\ TableInv

(* Up to the answer of a service: its socket, its child and its pid stay. *)
LEMMA CleanCalling ==
  ASSUME ContextInv, ServicesInv, parent, UNCHANGED libvars,
         setup_client \/ Send \/ \E r \in {"ok", "error"} : CallReturns(r)
  PROVE  ServicesInv'
<1> USE NvcContextAssumption
<1>a. /\ TypeOK /\ ControlInv /\ PidInv /\ MntInv /\ CoreInv
      /\ ReapInv /\ ChildInv /\ SocketInv /\ TableInv
  BY Zenon DEF ContextInv, CoreInv, ServicesInv
<1>b. UNCHANGED <<lib, ctx, rv, dirty, retried>>
  BY Zenon DEF libvars
<1>1. CASE setup_client
  <2> DEFINE v == rpc[cur].svc_fd
  <2>1. /\ pc = "setup_client" /\ pc' \in {"call", "reap"} /\ fdt' = Close(fdt, {v})
        /\ pc' = "call" => rpc' = [rpc EXCEPT ![cur] = [@ EXCEPT !.clt = TRUE, !.initialized = TRUE]]
        /\ pc' = "reap" => caller' = "rpc_init" /\ rpc' = rpc
        /\ UNCHANGED <<op, cur, ret, ctxinit, owner>>
    BY Zenon, <1>1 DEF setup_client, procvars
  <2>2. /\ cur \in Services /\ mypid \in Pids /\ owner[mypid] = cur /\ ~ctxinit[cur]
        /\ v \in Fd /\ fdt[v] = <<mypid, "svc">> /\ op = "init"
    BY Zenon, <1>a, <2>1 DEF TypeOK, PidInv, ControlInv, MntInv, Calling
  <2>3. /\ \A s \in Services : /\ rpc'[s].pid = rpc[s].pid /\ rpc'[s].clt_fd = rpc[s].clt_fd
                               /\ rpc'[s].svc_fd = rpc[s].svc_fd
                               /\ rpc[s].initialized => rpc'[s].initialized
        /\ pc' = "call" => rpc'[cur].initialized
    <3> DEFINE r == [rpc[cur] EXCEPT !.clt = TRUE, !.initialized = TRUE]
    <3>1. /\ r.pid = rpc[cur].pid /\ r.clt_fd = rpc[cur].clt_fd /\ r.svc_fd = rpc[cur].svc_fd
          /\ r.initialized
      <4>1. rpc[cur] \in RpcStruct
        BY Zenon, <1>a DEF TypeOK
      <4> QED BY Zenon, <4>1 DEF RpcStruct
    <3>2. (pc' = "call" => rpc' = [rpc EXCEPT ![cur] = r]) /\ (pc' = "reap" => rpc' = rpc)
      BY Zenon, <2>1
    <3> HIDE DEF r
    <3>3. rpc \in [Services -> RpcStruct]
      BY Zenon, <1>a DEF TypeOK
    <3> QED BY Zenon, <2>1, <2>2, <3>1, <3>2, <3>3
  <2>4. /\ fdt'[v] = Free /\ \A n \in Fd : n # v => fdt'[n] = fdt[n]
    BY Zenon, <2>1, <2>2 DEF Close
  <2>5. ~Again /\ ~Again' /\ \A s \in Services : InUse(s)' <=> InUse(s)
    BY Zenon, <2>1 DEF Again, InUse, Calling, Reaping
  <2>6. mypid' = mypid /\ Child(mypid)
    BY Zenon, <2>1, <2>2, <2>3 DEF mypid, Child
  <2> HIDE DEF v
  <2>7. ReapInv'
    BY Zenon, <1>a, <1>b, <2>1, <2>2, <2>3, <2>5, <2>6 DEF ReapInv, Child, Reaping
  <2>8. ChildInv'
    BY ZenonT(30), <1>a, <2>1, <2>3, <2>5 DEF ChildInv, Child, TypeOK
  <2>9. ASSUME NEW s \in Services, InUse(s)
        PROVE rpc[s].clt_fd # v /\ fdt'[rpc[s].clt_fd] = <<rpc[s].pid, "clt">>
    <3>1. rpc[s].clt_fd \in Fd /\ fdt[rpc[s].clt_fd] = <<rpc[s].pid, "clt">>
      BY Zenon, <1>a, <2>5, <2>9 DEF SocketInv
    <3>2. rpc[s].clt_fd # v
      BY <2>2, <3>1
    <3> QED BY Zenon, <2>4, <3>1, <3>2
  <2>10. SocketInv'
    <3>1. ASSUME NEW s \in Services, InUse(s)
          PROVE \/ fdt'[rpc[s].svc_fd] = Free
                \/ /\ s = "driver" /\ InUse("nvcgo")
                   /\ fdt'[rpc[s].svc_fd] \in {<<rpc["nvcgo"].pid, "clt">>, <<rpc["nvcgo"].pid, "svc">>}
      BY ZenonT(30), <1>a, <2>4, <3>1 DEF SocketInv, v
    <3>2. ASSUME NEW s \in Services, InUse(s)
          PROVE rpc[s].clt_fd \in Fd /\ rpc[s].svc_fd \in Fd /\ rpc[s].clt_fd # rpc[s].svc_fd
      BY Zenon, <1>a, <3>2 DEF SocketInv
    <3>3. ASSUME NEW s \in Services, InUse(s)'
          PROVE /\ rpc'[s].clt_fd \in Fd /\ rpc'[s].svc_fd \in Fd
                /\ rpc'[s].clt_fd # rpc'[s].svc_fd
                /\ fdt'[rpc'[s].clt_fd] = <<rpc'[s].pid, "clt">>
                /\ \/ fdt'[rpc'[s].svc_fd] = Free
                   \/ /\ s = "driver" /\ InUse("nvcgo")'
                      /\ fdt'[rpc'[s].svc_fd]
                           \in {<<rpc'["nvcgo"].pid, "clt">>, <<rpc'["nvcgo"].pid, "svc">>}
      <4>1. InUse(s)
        BY Zenon, <2>5, <3>3
      <4>2. /\ rpc'[s].clt_fd = rpc[s].clt_fd /\ rpc'[s].svc_fd = rpc[s].svc_fd
            /\ rpc'[s].pid = rpc[s].pid /\ rpc'["nvcgo"].pid = rpc["nvcgo"].pid
        BY Zenon, <2>3
      <4> QED BY Zenon, <2>5, <2>9, <3>1, <3>2, <4>1, <4>2
    <3> QED BY Zenon, <3>3 DEF SocketInv
  <2>11. TableInv'
    <3>1. ASSUME NEW n \in Fd, fdt'[n] \notin {Free, Caller, MntNs}
          PROVE \E s \in Services : InUse(s) /\ n = rpc[s].clt_fd /\ fdt'[n] = <<rpc[s].pid, "clt">>
      BY Zenon, <1>a, <2>4, <3>1 DEF TableInv, v
    <3>2. ASSUME NEW n \in Fd, fdt'[n] \notin {Free, Caller, MntNs}
          PROVE \E s \in Services : /\ InUse(s)' /\ ~(Again' /\ cur' = s)
                                    /\ n = rpc'[s].clt_fd /\ fdt'[n] = <<rpc'[s].pid, "clt">>
      <4>1. PICK s \in Services :
              InUse(s) /\ n = rpc[s].clt_fd /\ fdt'[n] = <<rpc[s].pid, "clt">>
        BY Zenon, <3>1, <3>2
      <4>2. InUse(s)' /\ rpc'[s].clt_fd = rpc[s].clt_fd /\ rpc'[s].pid = rpc[s].pid
        BY Zenon, <2>3, <2>5, <4>1
      <4> QED BY Zenon, <2>5, <4>1, <4>2
    <3> QED BY Zenon, <3>2 DEF TableInv
  <2> QED BY Zenon, <2>7, <2>8, <2>10, <2>11 DEF ServicesInv
<1>2. CASE Send
  <2>1. /\ pc = "call" /\ pc' = "wait"
        /\ UNCHANGED <<op, cur, caller, ret, rpc, ctxinit, fdt, owner>>
    BY Zenon, <1>2 DEF Send, rpcvars
  <2>2. ~Again /\ ~Again' /\ \A s \in Services : InUse(s)' <=> InUse(s)
    BY Zenon, <2>1 DEF Again, InUse, Calling, Reaping
  <2>3. ReapInv'
    BY Zenon, <1>a, <1>b, <2>1 DEF ReapInv, Reaping
  <2> QED BY Zenon, <1>a, <2>1, <2>2, <2>3, UseKept DEF ServicesInv
<1>3. ASSUME NEW r \in {"ok", "error"}, CallReturns(r) PROVE ServicesInv'
  <2>1. /\ pc = "wait" /\ pc' \in {"returned", "reap"}
        /\ UNCHANGED <<op, cur, rpc, fdt, owner>>
        /\ pc' = "returned" => op # "shutdown"
        /\ pc' = "returned" /\ op = "init" => ctxinit' = [ctxinit EXCEPT ![cur] = TRUE]
        /\ ~(pc' = "returned" /\ op = "init") => ctxinit' = ctxinit
    BY Zenon, <1>3 DEF CallReturns, procvars
  <2>2. /\ cur \in Services /\ rpc[cur].initialized /\ mypid \in Pids /\ owner[mypid] = cur
        /\ ctxinit[cur] <=> op # "init"
    BY Zenon, <1>a, <2>1 DEF TypeOK, ReapInv, PidInv, ControlInv, Calling
  <2>3. mypid' = mypid /\ ~Again /\ ~Again'
    BY Zenon, <2>1, <2>2 DEF mypid, Again, Reaping
  <2>4. /\ \A s \in Services : s # cur => ctxinit'[s] = ctxinit[s]
        /\ pc' = "returned" => ctxinit'[cur]
        /\ pc' = "reap" => ctxinit' = ctxinit
    BY Zenon, <1>a, <2>1, <2>2 DEF TypeOK
  <2>5. \A s \in Services : InUse(s)' <=> InUse(s)
    BY Zenon, <2>1, <2>4 DEF InUse, Calling, Reaping
  <2>6. op = "init" => lib \notin {"shut_driver", "shut_ctx"}
    BY Zenon, <2>1 DEF ContextInv, LibInv
  <2>7. ReapInv'
    BY Zenon, <1>a, <1>b, <2>1, <2>2, <2>3, <2>4, <2>6 DEF ReapInv, Child, Reaping
  <2>8. ChildInv'
    BY Zenon, <1>a, <2>1, <2>5 DEF ChildInv, Child
  <2>9. SocketInv'
    BY Zenon, <1>a, <2>1, <2>3, <2>5 DEF SocketInv
  <2>10. TableInv'
    BY Zenon, <1>a, <2>1, <2>3, <2>5 DEF TableInv
  <2> QED BY Zenon, <2>7, <2>8, <2>9, <2>10 DEF ServicesInv
<1> QED BY Zenon, <1>1, <1>2, <1>3

(* From there on: the child is collected, then its socket is closed. *)
LEMMA CleanReaping ==
  ASSUME NothingRefused, ContextInv, ServicesInv, ~retried, parent, UNCHANGED libvars,
         \/ Reap \/ PollFails \/ PollReady \/ PollTimeout \/ Waitpid
         \/ RpcInitFailed \/ RpcShutdownDone
  PROVE  ServicesInv'
<1> USE NvcContextAssumption, MinusOne
<1>a. /\ TypeOK /\ ControlInv /\ PidInv /\ CoreInv /\ LibInv /\ FirstInv
      /\ ReapInv /\ ChildInv /\ SocketInv /\ TableInv
  BY Zenon DEF ContextInv, CoreInv, ServicesInv
<1>b. UNCHANGED <<lib, ctx, rv, dirty, retried>>
  BY Zenon DEF libvars
<1>c. pc \in Reaping /\ cur \in Services
  BY Zenon, <1>a DEF TypeOK, Reap, PollFails, PollReady, PollTimeout, Waitpid, RpcInitFailed,
     RpcShutdownDone, Reaping
<1>d. mypid \in Pids /\ (ctxinit[cur] <=> op # "init") /\ pc # "idle" /\ op # "query"
  BY Zenon, <1>a, <1>c DEF PidInv, ControlInv, Reaping
<1>1. ASSUME pc' \in Reaping, pc # "reaped", UNCHANGED <<op, cur, caller, rpc, ctxinit, fdt>>,
             \A p \in Pids : owner'[p] \in Services => owner'[p] = owner[p],
             pc' # "reaped" => owner' = owner,
             pc' = "reaped" => owner'[mypid] \notin Services /\ (ret' = 0 <=> ~Again)
      PROVE ServicesInv'
  <2>1. /\ (Again' <=> Again) /\ mypid' = mypid
        /\ \A s \in Services : InUse(s)' <=> InUse(s)
        /\ pc # "setup_client" /\ pc' # "setup_client"
    BY Zenon, <1>1, <1>c DEF Again, mypid, InUse, Reaping, Calling
  <2>2. ReapInv'
    BY Zenon, <1>1, <1>a, <1>b, <1>c, <2>1 DEF ReapInv, Child, Reaping
  <2> QED BY Zenon, <1>1, <1>a, <2>1, <2>2, UseKept DEF ServicesInv
<1>2. CASE (Reap \/ Waitpid) /\ Released(mypid) /\ pc' = "reaped" /\ ret' = 0 /\ Child(mypid)
  <2>1. /\ owner' = [owner EXCEPT ![mypid] = NoSvc] /\ pc # "reaped"
        /\ UNCHANGED <<op, cur, caller, rpc, ctxinit, fdt>>
    BY Zenon, <1>2 DEF Reap, Waitpid, Released, rpcvars
  <2>2. ~Again
    BY Zenon, <1>2, <1>a, <1>c, <2>1 DEF ReapInv
  <2>3. owner'[mypid] \notin Services /\ \A p \in Pids : owner'[p] \in Services => owner'[p] = owner[p]
    BY Zenon, <1>a, <1>d, <2>1, RpcAssumption DEF TypeOK
  <2> QED BY Zenon, <1>1, <1>2, <2>1, <2>2, <2>3 DEF Reaping
<1>3. CASE Waitpid /\ ~Child(mypid)
  <2>1. /\ pc = "waitpid" /\ pc' = "reaped" /\ ret' = -1 /\ owner' = owner
        /\ UNCHANGED <<op, cur, caller, rpc, ctxinit, fdt>>
    BY Zenon, <1>3 DEF Waitpid, rpcvars, procvars
  <2>2. Again
    BY Zenon, <1>3, <1>a, <1>c, <2>1 DEF ReapInv
  <2> QED BY Zenon, <1>1, <1>3, <2>1, <2>2 DEF Reaping, Child
<1>4. CASE \/ Reap /\ pc' = "poll" /\ UNCHANGED owner
           \/ PollReady \/ PollTimeout
  <2>1. /\ pc # "reaped" /\ pc' \in {"poll", "waitpid"} /\ owner' = owner
        /\ UNCHANGED <<op, cur, caller, rpc, ctxinit, fdt>>
    BY Zenon, <1>4 DEF Reap, PollReady, PollTimeout, rpcvars, procvars, NothingRefused
  <2> QED BY Zenon, <1>1, <2>1 DEF Reaping
<1>5. ~PollFails
  BY Zenon DEF PollFails, NothingRefused
<1>6. cur = "driver" => ~ctxinit["nvcgo"]
  BY Zenon, <1>a, <1>d DEF LibInv, FirstInv, ReapInv, Places
<1>7. CASE RpcInitFailed
  <2>1. /\ pc = "reaped" /\ caller = "rpc_init" /\ pc' = "reap" /\ caller' = "rpc_shutdown"
        /\ fdt' = Close(fdt, {rpc[cur].clt_fd, rpc[cur].svc_fd})
        /\ UNCHANGED <<op, cur, ret, rpc, ctxinit, owner>>
    BY Zenon, <1>7 DEF RpcInitFailed, rpcvars, procvars
  <2>2. ~Again /\ Again' /\ mypid' = mypid /\ pc' # "setup_client"
    BY Zenon, <1>a, <1>c, <2>1 DEF Again, ControlInv, Reaping, mypid
  <2>3. \A s \in Services : InUse(s)' <=> InUse(s)
    BY Zenon, <2>1 DEF InUse, Reaping
  <2>4. /\ \A t \in Services : t # cur /\ InUse(t) =>
              fdt'[rpc[t].clt_fd] = <<rpc[t].pid, "clt">> /\ fdt'[rpc[t].svc_fd] = Free
        /\ \A n \in Fd :
              \/ fdt'[n] \in {Free, Caller, MntNs}
              \/ \E t \in Services : /\ t # cur /\ InUse(t)
                                     /\ n = rpc[t].clt_fd /\ fdt'[n] = <<rpc[t].pid, "clt">>
    BY Zenon, <1>a, <1>6, <2>1, <2>2, SocketsClosed
  <2>5. ReapInv'
    BY Zenon, <1>a, <1>b, <2>1, <2>2 DEF ReapInv, Child
  <2>6. ChildInv'
    BY Zenon, <1>a, <2>1, <2>3 DEF ChildInv, Child
  <2>7. SocketInv'
    <3>1. \A s \in Services : InUse(s) =>
            rpc[s].clt_fd \in Fd /\ rpc[s].svc_fd \in Fd /\ rpc[s].clt_fd # rpc[s].svc_fd
      BY Zenon, <1>a DEF SocketInv
    <3>2. InUse(cur) => fdt'[rpc[cur].svc_fd] = Free
      BY Zenon, <1>c, <2>1, <3>1 DEF Close
    <3>3. \A s \in Services : InUse(s) =>
            fdt'[rpc[s].svc_fd] = Free /\ (s # cur => fdt'[rpc[s].clt_fd] = <<rpc[s].pid, "clt">>)
      BY Zenon, <2>4, <3>2
    <3> QED BY Zenon, <2>1, <2>2, <2>3, <3>1, <3>3 DEF SocketInv
  <2>8. TableInv'
    BY Zenon, <2>1, <2>3, <2>4 DEF TableInv
  <2> QED BY Zenon, <2>5, <2>6, <2>7, <2>8 DEF ServicesInv
<1>8. CASE RpcShutdownDone
  <2>1. /\ pc = "reaped" /\ pc' = "returned" /\ UNCHANGED <<op, cur, owner>>
        /\ ret = 0 => /\ fdt' = Close(fdt, {rpc[cur].clt_fd, rpc[cur].svc_fd})
                      /\ rpc' = [rpc EXCEPT ![cur] = ResetRpc]
        /\ ret # 0 => fdt' = fdt /\ rpc' = rpc
        /\ op = "shutdown" /\ ret = 0 => ctxinit' = [ctxinit EXCEPT ![cur] = FALSE]
        /\ ~(op = "shutdown" /\ ret = 0) => ctxinit' = ctxinit
        /\ op = "shutdown" => ret' = ret
    BY Zenon, <1>8 DEF RpcShutdownDone, procvars
  <2>2. ~Child(mypid) /\ (ret = 0 <=> ~Again)
    BY Zenon, <1>a, <2>1 DEF ReapInv
  <2>3. op = "shutdown" => ret = 0
    BY Zenon, <1>a, <1>c, <1>d, <2>2 DEF ReapInv, Again
  <2>4. /\ ~ctxinit'[cur]
        /\ \A t \in Services : t # cur => ctxinit'[t] = ctxinit[t] /\ rpc'[t] = rpc[t]
    BY Zenon, <1>a, <1>c, <1>d, <2>1, <2>3 DEF TypeOK, Ops
  <2>5. ~Again' /\ pc' # "setup_client"
        /\ \A t \in Services : InUse(t)' <=> t # cur /\ InUse(t)
    BY Zenon, <2>1, <2>4 DEF Again, InUse, Calling, Reaping
  <2>6. /\ \A t \in Services : t # cur /\ InUse(t) =>
              fdt'[rpc[t].clt_fd] = <<rpc[t].pid, "clt">> /\ fdt'[rpc[t].svc_fd] = Free
        /\ \A n \in Fd :
              \/ fdt'[n] \in {Free, Caller, MntNs}
              \/ \E t \in Services : /\ t # cur /\ InUse(t)
                                     /\ n = rpc[t].clt_fd /\ fdt'[n] = <<rpc[t].pid, "clt">>
    BY Zenon, <1>a, <1>6, <2>1, <2>2, SocketsClosed
  <2>7. ReapInv'
    BY Zenon, <1>a, <1>b, <1>c, <2>1, <2>3, <2>4 DEF ReapInv, Reaping
  <2>8. ChildInv'
    <3>1. \A p \in Pids : Child(p) => owner[p] # cur
      BY Zenon, <1>a, <2>2 DEF ChildInv, mypid
    <3> QED BY Zenon, <1>a, <2>1, <2>4, <2>5, <3>1 DEF ChildInv, Child
  <2>9. SocketInv'
    <3>1. \A s \in Services : InUse(s) =>
            rpc[s].clt_fd \in Fd /\ rpc[s].svc_fd \in Fd /\ rpc[s].clt_fd # rpc[s].svc_fd
      BY Zenon, <1>a DEF SocketInv
    <3>2. ASSUME NEW s \in Services, InUse(s)'
          PROVE /\ rpc'[s].clt_fd \in Fd /\ rpc'[s].svc_fd \in Fd
                /\ rpc'[s].clt_fd # rpc'[s].svc_fd
                /\ fdt'[rpc'[s].clt_fd] = <<rpc'[s].pid, "clt">>
                /\ fdt'[rpc'[s].svc_fd] = Free
      <4>1. s # cur /\ InUse(s) /\ rpc'[s] = rpc[s]
        BY Zenon, <2>4, <2>5, <3>2
      <4> QED BY ZenonT(30), <2>6, <3>1, <4>1
    <3> QED BY Zenon, <3>2 DEF SocketInv
  <2>10. TableInv'
    <3>1. ASSUME NEW n \in Fd, fdt'[n] \notin {Free, Caller, MntNs}
          PROVE \E s \in Services : /\ InUse(s)' /\ ~(Again' /\ cur' = s)
                                    /\ n = rpc'[s].clt_fd /\ fdt'[n] = <<rpc'[s].pid, "clt">>
      <4>1. PICK t \in Services : /\ t # cur /\ InUse(t)
                                  /\ n = rpc[t].clt_fd /\ fdt'[n] = <<rpc[t].pid, "clt">>
        BY Zenon, <2>6, <3>1
      <4>2. InUse(t)' /\ rpc'[t] = rpc[t]
        BY Zenon, <2>4, <2>5, <4>1
      <4> QED BY Zenon, <2>5, <4>1, <4>2
    <3> QED BY Zenon, <3>1 DEF TableInv
  <2> QED BY Zenon, <2>7, <2>8, <2>9, <2>10 DEF ServicesInv
<1> QED BY Zenon, <1>2, <1>3, <1>4, <1>5, <1>7, <1>8 DEF Reap, Waitpid

(* The steps of the context between two calls on a service. *)
LEMMA CleanBetween ==
  ASSUME ContextInv, ServicesInv, ~retried', parent,
         \/ nvc_init \/ EnvironmentFails \/ ServiceInitReturns \/ InitFails
         \/ nvc_shutdown \/ ServiceShutdownReturns \/ ShutdownReturns \/ QueryReturns
  PROVE  ServicesInv'
<1> USE NvcContextAssumption
<1>a. /\ TypeOK /\ ReturnInv /\ CoreInv /\ LibInv /\ MntInv /\ FirstInv
      /\ ReapInv /\ ChildInv /\ SocketInv /\ TableInv
  BY Zenon DEF ContextInv, CoreInv, ServicesInv
<1>1. /\ pc \in {"idle", "returned"} /\ pc' = "idle" /\ UNCHANGED <<cur, rpc, ctxinit, owner>>
  BY Zenon, <1>a DEF nvc_init, EnvironmentFails, ServiceInitReturns, InitFails, nvc_shutdown,
     ServiceShutdownReturns, ShutdownReturns, QueryReturns, vars, mainvars, rpcvars, procvars,
     LibInv
<1>2. /\ ~Again /\ ~Again' /\ pc # "setup_client" /\ pc' # "setup_client"
      /\ \A s \in Services : (InUse(s) <=> ctxinit[s]) /\ (InUse(s)' <=> ctxinit[s])
  BY Zenon, <1>1 DEF Again, InUse, Calling, Reaping
<1>3. lib' \in {"shut_driver", "shut_ctx"} => ~ctxinit["nvcgo"]
  <2>1. CASE lib = "shut_nvcgo" /\ pc = "returned"
    BY Zenon, <1>a, <2>1 DEF LibInv, ReapInv, ReturnInv
  <2>2. lib' \in {"shut_driver", "shut_ctx"} =>
          (lib = "shut_nvcgo" /\ pc = "returned") \/ lib \in {"shut_driver", "shut_ctx"}
    BY Zenon DEF nvc_init, EnvironmentFails, ServiceInitReturns, InitFails, nvc_shutdown,
       ServiceShutdownReturns, ShutdownReturns, QueryReturns
  <2> QED BY Zenon, <1>a, <2>1, <2>2 DEF ReapInv
<1>4. ReapInv'
  BY Zenon, <1>a, <1>1, <1>2, <1>3 DEF ReapInv, Reaping
<1>5. CASE UNCHANGED fdt
  BY Zenon, <1>a, <1>1, <1>2, <1>4, <1>5, UseKept DEF ServicesInv
<1>6. ASSUME \A n \in Fd : fdt'[n] = fdt[n] \/ (fdt[n] \in {MntNs, Free} /\ fdt'[n] \in {MntNs, Free}),
             \A s \in Services, n \in Fd : ctxinit[s] /\ fdt[n] = Free => fdt'[n] = Free
      PROVE ServicesInv'
  <2>1. ChildInv'
    BY Zenon, <1>a, <1>1, <1>2 DEF ChildInv, Child, TypeOK
  <2>2. ASSUME NEW q \in Pids, NEW k \in {"clt", "svc"}, NEW n \in Fd
        PROVE fdt[n] = <<q, k>> <=> fdt'[n] = <<q, k>>
    <3>1. <<q, k>> # MntNs /\ <<q, k>> # Free
      BY Zenon DEF MntNs, Free
    <3> QED BY Zenon, <1>6, <3>1
  <2>3. \A s \in Services : ctxinit[s] => rpc[s].pid \in Pids
    BY Zenon, <1>a, <1>2, PidsInUse
  <2>4. ASSUME NEW s \in Services, ctxinit[s]
        PROVE /\ rpc[s].clt_fd \in Fd /\ rpc[s].svc_fd \in Fd /\ rpc[s].clt_fd # rpc[s].svc_fd
              /\ fdt'[rpc[s].clt_fd] = <<rpc[s].pid, "clt">>
              /\ \/ fdt'[rpc[s].svc_fd] = Free
                 \/ /\ s = "driver" /\ ctxinit["nvcgo"]
                    /\ fdt'[rpc[s].svc_fd] \in {<<rpc["nvcgo"].pid, "clt">>, <<rpc["nvcgo"].pid, "svc">>}
    <3>1. /\ rpc[s].clt_fd \in Fd /\ rpc[s].svc_fd \in Fd /\ rpc[s].clt_fd # rpc[s].svc_fd
          /\ fdt[rpc[s].clt_fd] = <<rpc[s].pid, "clt">>
          /\ \/ fdt[rpc[s].svc_fd] = Free
             \/ /\ s = "driver" /\ ctxinit["nvcgo"]
                /\ fdt[rpc[s].svc_fd] \in {<<rpc["nvcgo"].pid, "clt">>, <<rpc["nvcgo"].pid, "svc">>}
      BY Zenon, <1>a, <1>2, <2>4 DEF SocketInv
    <3> QED BY Zenon, <1>6, <2>2, <2>3, <2>4, <3>1
  <2>5. SocketInv'
    BY Zenon, <1>1, <1>2, <2>4 DEF SocketInv
  <2>6. TableInv'
    <3>1. ASSUME NEW n \in Fd, fdt'[n] \notin {Free, Caller, MntNs}
          PROVE \E s \in Services : /\ InUse(s)' /\ ~(Again' /\ cur' = s)
                                    /\ n = rpc'[s].clt_fd /\ fdt'[n] = <<rpc'[s].pid, "clt">>
      <4>1. fdt'[n] = fdt[n]
        BY Zenon, <1>6, <3>1
      <4>2. PICK s \in Services : InUse(s) /\ n = rpc[s].clt_fd /\ fdt[n] = <<rpc[s].pid, "clt">>
        BY Zenon, <1>a, <1>2, <3>1, <4>1 DEF TableInv
      <4> QED BY Zenon, <1>1, <1>2, <4>1, <4>2
    <3> QED BY Zenon, <3>1 DEF TableInv
  <2> QED BY Zenon, <1>4, <2>1, <2>5, <2>6 DEF ServicesInv
<1>7. CASE nvc_init /\ fdt' # fdt
  <2>1. PICK n \in Fd : LowestFree(n) /\ fdt' = [fdt EXCEPT ![n] = MntNs]
    BY Zenon, <1>7 DEF nvc_init
  <2>2. \A s \in Services : ~ctxinit[s]
    BY Zenon, <1>7, <1>a DEF nvc_init, FirstInv
  <2>3. \A m \in Fd : fdt'[m] = fdt[m] \/ (fdt[m] \in {MntNs, Free} /\ fdt'[m] \in {MntNs, Free})
    BY Zenon, <1>a, <2>1 DEF LowestFree, TypeOK
  <2> QED BY Zenon, <1>6, <2>2, <2>3
<1>8. CASE (InitFails \/ ShutdownReturns) /\ fdt' # fdt
  <2>1. MntOpen /\ fdt' = Close(fdt, {ctx.mnt_ns})
    BY Zenon, <1>8 DEF InitFails, ShutdownReturns, MntOpen
  <2>2. ctx.mnt_ns \in Fd /\ fdt[ctx.mnt_ns] \in {MntNs, Free}
    BY Zenon, <1>a, <2>1 DEF MntInv
  <2>3. \A m \in Fd : fdt'[m] = fdt[m] \/ (fdt[m] \in {MntNs, Free} /\ fdt'[m] = Free)
    BY Zenon, <2>1, <2>2 DEF Close
  <2> QED BY Zenon, <1>6, <2>3
<1> QED BY Zenon, <1>5, <1>7, <1>8
        DEF EnvironmentFails, ServiceInitReturns, nvc_shutdown, ServiceShutdownReturns,
            QueryReturns, vars

(* The beginning of a call on a service. *)
LEMMA CleanBegins ==
  ASSUME ContextInv, ServicesInv, ~retried, parent,
         InitService \/ ShutdownService \/ Query
  PROVE  ServicesInv'
<1> USE NvcContextAssumption
<1>a. /\ TypeOK /\ ProcInv /\ CoreInv /\ LibInv /\ FirstInv
      /\ ReapInv /\ ChildInv /\ SocketInv /\ TableInv
  BY Zenon DEF ContextInv, CoreInv, ServicesInv
<1>b. pc = "idle"
  BY Zenon DEF InitService, ShutdownService, Query
<1>c. ~Again /\ \A s \in Services : InUse(s) <=> ctxinit[s]
  BY Zenon, <1>b DEF Again, InUse, Calling, Reaping
<1>1. CASE ShutdownService \/ Query
  <2>1. PICK s \in Services :
          /\ pc' \in {"call", "returned"} /\ cur' = s
          /\ pc' = "call" => ctxinit[s]
          /\ pc' = "returned" => ret' = 0
          /\ UNCHANGED <<rpc, ctxinit, fdt, owner>>
    BY Zenon, <1>1, <1>a DEF ShutdownService, service_shutdown, Query, service_query, LibInv,
       rpcvars, procvars
  <2>2. ~Again' /\ \A t \in Services : InUse(t)' <=> InUse(t)
    BY Zenon, <1>c, <2>1 DEF Again, InUse, Calling, Reaping
  <2>3. lib' = lib \/ lib' = "query"
    BY Zenon, <1>1 DEF ShutdownService, Query, libvars
  <2>4. ReapInv'
    BY Zenon, <1>a, <2>1, <2>3 DEF ReapInv, Reaping
  <2> QED BY Zenon, <1>a, <1>b, <1>c, <2>1, <2>2, <2>4, UseKept DEF ServicesInv
<1>2. CASE InitService
  <2>1. PICK s \in Services :
          /\ service_init(s) /\ lib \in {"init_driver", "init_nvcgo"} /\ lib' = lib
          /\ (lib = "init_driver" => s = "driver") /\ (lib = "init_nvcgo" => s = "nvcgo")
    BY Zenon, <1>2 DEF InitService, libvars
  <2>2. /\ ~ctxinit[s] /\ (s = "driver" => ~ctxinit["nvcgo"])
        /\ ctxinit' = [ctxinit EXCEPT ![s] = FALSE] /\ cur' = s /\ op' = "init"
    BY Zenon, <1>a, <1>b, <2>1 DEF FirstInv, service_init, InitFork, InitNoFork, InitNoPath
  <2>3. ctxinit' = ctxinit
    BY Zenon, <1>a, <2>2 DEF TypeOK
  <2>4. CASE InitFork(s)
    <3>1. PICK p \in Pids, a \in Fd, b \in Fd :
            /\ st[p] = "free" /\ LowestFree(a) /\ a < b /\ fdt[b] = Free
            /\ rpc' = [rpc EXCEPT ![s] = [initialized |-> FALSE, clt_fd |-> a,
                                          svc_fd |-> b, pid |-> p, clt |-> FALSE]]
            /\ fdt' = [fdt EXCEPT ![a] = <<p, "clt">>, ![b] = <<p, "svc">>]
            /\ owner' = [owner EXCEPT ![p] = s]
      BY Zenon, <2>4 DEF InitFork, ForkService
    <3>2. pc' = "setup_client"
      BY Zenon, <2>4 DEF InitFork
    <3>3. a # b /\ fdt[a] = Free /\ fdt[b] = Free
      <4>1. a # b
        BY <3>1 DEF Fd
      <4> QED BY Zenon, <3>1, <4>1 DEF LowestFree
    <3>4. /\ fdt'[a] = <<p, "clt">> /\ fdt'[b] = <<p, "svc">>
          /\ \A n \in Fd : n # a /\ n # b => fdt'[n] = fdt[n]
      BY Zenon, <1>a, <3>1, <3>3 DEF TypeOK
    <3>5. /\ rpc'[s].clt_fd = a /\ rpc'[s].svc_fd = b /\ rpc'[s].pid = p
          /\ \A t \in Services : t # s => rpc'[t] = rpc[t]
      BY Zenon, <1>a, <3>1 DEF TypeOK
    <3>6. /\ ~Again' /\ \A t \in Services : InUse(t)' <=> (t = s \/ InUse(t))
      BY Zenon, <1>b, <2>2, <2>3, <3>2 DEF Again, InUse, Calling, Reaping
    <3>7. ReapInv'
      BY Zenon, <1>a, <2>1, <2>2, <2>3, <3>2, <3>5 DEF ReapInv, Reaping
    <3>8. ChildInv'
      <4>1. ASSUME NEW q \in Pids, NEW t \in Services, owner'[q] = t
            PROVE rpc'[t].pid = q /\ InUse(t)'
        <5>1. CASE q = p
          BY Zenon, <1>a, <3>1, <3>5, <3>6, <4>1, <5>1 DEF TypeOK
        <5>2. CASE q # p
          <6>1. owner[q] = t /\ rpc[t].pid = q /\ InUse(t)
            BY Zenon, <1>a, <3>1, <4>1, <5>2 DEF ChildInv, Child, TypeOK
          <6>2. t # s
            BY Zenon, <1>c, <2>2, <6>1
          <6> QED BY Zenon, <3>5, <3>6, <6>1, <6>2
        <5> QED BY Zenon, <5>1, <5>2
      <4> QED BY Zenon, <4>1 DEF ChildInv, Child, InUse
    <3>9. ASSUME NEW t \in Services, t # s, InUse(t)
          PROVE /\ rpc[t].clt_fd \in Fd /\ rpc[t].svc_fd \in Fd /\ rpc[t].clt_fd # rpc[t].svc_fd
                /\ fdt'[rpc[t].clt_fd] = <<rpc[t].pid, "clt">>
                /\ \/ fdt'[rpc[t].svc_fd] = Free
                   \/ /\ t = "driver" /\ s = "nvcgo"
                      /\ fdt'[rpc[t].svc_fd] \in {<<p, "clt">>, <<p, "svc">>}
      <4>1. t = "driver" /\ s = "nvcgo"
        BY Zenon, <1>c, <2>2, <3>9
      <4>2. /\ rpc[t].clt_fd \in Fd /\ rpc[t].svc_fd \in Fd /\ rpc[t].clt_fd # rpc[t].svc_fd
            /\ fdt[rpc[t].clt_fd] = <<rpc[t].pid, "clt">> /\ fdt[rpc[t].svc_fd] = Free
        BY Zenon, <1>a, <1>b, <1>c, <2>2, <3>9, <4>1 DEF SocketInv
      <4>3. <<rpc[t].pid, "clt">> # Free
        BY Zenon DEF Free
      <4>4. rpc[t].clt_fd # a /\ rpc[t].clt_fd # b
        BY Zenon, <3>3, <4>2, <4>3
      <4> QED BY Zenon, <3>4, <4>1, <4>2, <4>4
    <3>10. SocketInv'
      <4>1. ASSUME NEW t \in Services, t # s, InUse(t)
            PROVE /\ rpc'[t].clt_fd \in Fd /\ rpc'[t].svc_fd \in Fd
                  /\ rpc'[t].clt_fd # rpc'[t].svc_fd
                  /\ fdt'[rpc'[t].clt_fd] = <<rpc'[t].pid, "clt">>
                  /\ \/ fdt'[rpc'[t].svc_fd] = Free
                     \/ /\ t = "driver" /\ InUse("nvcgo")'
                        /\ fdt'[rpc'[t].svc_fd]
                             \in {<<rpc'["nvcgo"].pid, "clt">>, <<rpc'["nvcgo"].pid, "svc">>}
        BY Zenon, <3>5, <3>6, <3>9, <4>1
      <4>2. /\ rpc'[s].clt_fd \in Fd /\ rpc'[s].svc_fd \in Fd
            /\ rpc'[s].clt_fd # rpc'[s].svc_fd
            /\ fdt'[rpc'[s].clt_fd] = <<rpc'[s].pid, "clt">>
        BY Zenon, <3>3, <3>4, <3>5
      <4> QED BY Zenon, <2>2, <3>2, <3>6, <4>1, <4>2 DEF SocketInv
    <3>11. TableInv'
      <4>1. ASSUME NEW n \in Fd, n # a, n # b, fdt'[n] \notin {Free, Caller, MntNs}
            PROVE \E t \in Services : /\ InUse(t)' /\ ~(Again' /\ cur' = t)
                                      /\ n = rpc'[t].clt_fd /\ fdt'[n] = <<rpc'[t].pid, "clt">>
        <5>1. fdt'[n] = fdt[n]
          BY Zenon, <3>4, <4>1
        <5>2. PICK t \in Services : InUse(t) /\ n = rpc[t].clt_fd /\ fdt[n] = <<rpc[t].pid, "clt">>
          BY Zenon, <1>a, <1>b, <4>1, <5>1 DEF TableInv
        <5>3. t # s
          BY Zenon, <1>c, <2>2, <5>2
        <5> QED BY Zenon, <3>5, <3>6, <5>1, <5>2, <5>3
      <4>2. /\ InUse(s)' /\ ~(Again' /\ cur' = s)
            /\ a = rpc'[s].clt_fd /\ fdt'[a] = <<rpc'[s].pid, "clt">>
        BY Zenon, <3>4, <3>5, <3>6
      <4>3. pc' = "setup_client" /\ b = rpc'[cur'].svc_fd
        BY Zenon, <2>2, <3>2, <3>5
      <4> QED BY Zenon, <4>1, <4>2, <4>3 DEF TableInv
    <3> QED BY Zenon, <3>7, <3>8, <3>10, <3>11 DEF ServicesInv
  <2>5. CASE InitNoFork(s) \/ InitNoPath(s)
    <3>1. /\ pc' = "returned" /\ rpc' = [rpc EXCEPT ![s] = ResetRpc] /\ owner' = owner
          /\ \/ fdt' = fdt
             \/ s \in PathJoinMayFail /\ fdt' = Close(fdt, {0})
      BY Zenon, <2>5 DEF InitNoFork, InitNoPath, procvars
    <3>2. \A t \in Services : t # s => rpc'[t] = rpc[t]
      BY Zenon, <1>a, <3>1 DEF TypeOK
    <3>3. ~Again' /\ \A t \in Services : (InUse(t)' <=> InUse(t)) /\ (InUse(t) => t # s)
      BY Zenon, <1>c, <2>2, <2>3, <3>1 DEF Again, InUse, Calling, Reaping
    <3>4. ReapInv'
      BY Zenon, <1>a, <2>1, <2>2, <2>3, <3>1, <3>2, <3>3, <1>c DEF ReapInv, Reaping
    <3>5. ChildInv'
      BY ZenonT(30), <1>a, <3>1, <3>2, <3>3 DEF ChildInv, Child
    <3>6. fdt' = fdt \/ \A t \in Services : ~InUse(t)
      BY Zenon, <1>c, <2>2, <3>1
    <3>7. SocketInv'
      <4>1. ASSUME NEW t \in Services, InUse(t), fdt' = fdt
            PROVE /\ rpc'[t].clt_fd \in Fd /\ rpc'[t].svc_fd \in Fd
                  /\ rpc'[t].clt_fd # rpc'[t].svc_fd
                  /\ fdt'[rpc'[t].clt_fd] = <<rpc'[t].pid, "clt">>
                  /\ \/ fdt'[rpc'[t].svc_fd] = Free
                     \/ /\ t = "driver" /\ InUse("nvcgo")'
                        /\ fdt'[rpc'[t].svc_fd]
                             \in {<<rpc'["nvcgo"].pid, "clt">>, <<rpc'["nvcgo"].pid, "svc">>}
        BY ZenonT(30), <1>a, <1>b, <1>c, <3>2, <3>3, <4>1 DEF SocketInv
      <4> QED BY Zenon, <3>3, <3>6, <4>1 DEF SocketInv
    <3>8. TableInv'
      <4>1. ASSUME NEW n \in Fd, fdt'[n] \notin {Free, Caller, MntNs}
            PROVE \E t \in Services : /\ InUse(t)' /\ ~(Again' /\ cur' = t)
                                      /\ n = rpc'[t].clt_fd /\ fdt'[n] = <<rpc'[t].pid, "clt">>
        <5>1. fdt'[n] = fdt[n]
          BY Zenon, <3>1, <4>1 DEF Close
        <5>2. PICK t \in Services : InUse(t) /\ n = rpc[t].clt_fd /\ fdt[n] = <<rpc[t].pid, "clt">>
          BY ZenonT(30), <1>a, <1>b, <4>1, <5>1 DEF TableInv
        <5> QED BY Zenon, <3>2, <3>3, <5>1, <5>2
      <4> QED BY Zenon, <4>1 DEF TableInv
    <3> QED BY Zenon, <3>4, <3>5, <3>7, <3>8 DEF ServicesInv
  <2> QED BY Zenon, <2>1, <2>4, <2>5 DEF service_init
<1> QED BY Zenon, <1>1, <1>2

(* The services and their descriptors, step by step. *)
LEMMA CleanNext ==
  NothingRefused /\ ContextInv /\ CleanInv /\ [NvcNext]_allvars => CleanInv'
<1> SUFFICES ASSUME NothingRefused, ContextInv, CleanInv, [NvcNext]_allvars,
                    ~retried', parent'
             PROVE  ServicesInv'
  BY Zenon DEF CleanInv, ServicesInv
<1>1. ~retried
  BY Zenon DEF NvcNext, nvc_init, EnvironmentFails, InitService, ServiceInitReturns, InitFails,
     nvc_shutdown, ShutdownService, ServiceShutdownReturns, ShutdownReturns, Query,
     QueryReturns, allvars, libvars
<1>2. CASE SystemStep /\ UNCHANGED libvars
  <2>1. CASE MainStep
    <3>1. parent
      BY Zenon, <2>1 DEF MainStep
    <3>2. ServicesInv
      BY Zenon, <1>1, <3>1 DEF CleanInv, ServicesInv
    <3> QED BY ZenonT(30), <1>1, <1>2, <2>1, <3>1, <3>2, CleanCalling, CleanReaping DEF MainStep
  <2>2. CASE ~MainStep
    <3>1. /\ UNCHANGED <<pc, op, cur, caller, force, ret, rpc, ctxinit, fdt>>
          /\ UNCHANGED <<lib, ctx, rv, dirty, retried>>
      BY Zenon, <1>2, <2>2, QuietStep DEF libvars
    <3>2. /\ parent
          /\ \A p \in Pids : owner[p] \in Services \/ owner'[p] \in Services => owner'[p] = owner[p]
      BY Zenon, <1>2, <2>2, QuietChildren DEF ContextInv, CoreInv
    <3>3. ReapInv /\ ChildInv /\ SocketInv /\ TableInv /\ PidInv
      BY Zenon, <1>1, <3>2 DEF CleanInv, ContextInv, CoreInv
    <3>4. (Again' <=> Again) /\ mypid' = mypid /\ \A s \in Services : InUse(s)' <=> InUse(s)
      BY Zenon, <3>1 DEF Again, mypid, InUse
    <3>5. pc \in Reaping => (Child(mypid)' <=> Child(mypid))
      BY Zenon, <3>2, <3>3, <3>4 DEF PidInv, Child
    <3>6. ReapInv'
      BY Zenon, <3>1, <3>3, <3>4, <3>5 DEF ReapInv, Reaping
    <3> QED BY Zenon, <3>1, <3>2, <3>3, <3>4, <3>6, UseKept DEF ServicesInv
  <2> QED BY Zenon, <2>1, <2>2
<1>3. CASE UNCHANGED allvars
  <2>1. UNCHANGED <<parent, pc, op, cur, caller, ret, rpc, ctxinit, fdt, owner, lib>>
    BY Zenon, <1>3 DEF allvars, vars, mainvars, rpcvars, procvars, libvars
  <2>2. ReapInv /\ ChildInv /\ SocketInv /\ TableInv
    BY Zenon, <1>1, <2>1 DEF CleanInv
  <2>3. (Again' <=> Again) /\ mypid' = mypid /\ \A s \in Services : InUse(s)' <=> InUse(s)
    BY Zenon, <2>1 DEF Again, mypid, InUse
  <2>4. ReapInv'
    BY Zenon, <2>1, <2>2, <2>3 DEF ReapInv, Child
  <2> QED BY ZenonT(30), <2>1, <2>2, <2>3, <2>4, UseKept DEF ServicesInv
<1>4. CASE NvcNext /\ ~(SystemStep /\ UNCHANGED libvars)
  <2>1. parent
    BY Zenon, <1>4 DEF NvcNext, nvc_init, EnvironmentFails, InitService, ServiceInitReturns,
       InitFails, nvc_shutdown, ShutdownService, ServiceShutdownReturns, ShutdownReturns,
       Query, QueryReturns
  <2>2. ServicesInv
    BY Zenon, <1>1, <2>1 DEF CleanInv, ServicesInv
  <2> QED BY ZenonT(30), <1>1, <1>4, <2>1, <2>2, CleanBetween, CleanBegins DEF NvcNext
<1> QED BY Zenon, <1>2, <1>3, <1>4

(* The context starts without a child and with the caller's descriptors. *)
LEMMA CleanStarts == NvcInit => CleanInv
<1> SUFFICES ASSUME NvcInit PROVE ReapInv /\ ChildInv /\ SocketInv /\ TableInv
  BY Zenon DEF CleanInv
<1>1. ~Again /\ (\A s \in Services : ~InUse(s)) /\ (\A p \in Pids : ~Child(p))
  BY Zenon, RpcAssumption DEF NvcInit, RpcInit, Again, InUse, Child, Calling, Reaping
<1>2. ReapInv
  BY Zenon DEF NvcInit, RpcInit, ReapInv, Reaping
<1>3. ChildInv /\ SocketInv
  BY Zenon, <1>1 DEF ChildInv, SocketInv
<1>4. TableInv
  BY Zenon DEF NvcInit, RpcInit, TableInv
<1> QED BY Zenon, <1>2, <1>3, <1>4

(* When no reap can fail, the children and the descriptors of the caller   *)
(* are those of the services in use.                                       *)
THEOREM CleanInvariance == NothingRefused => (NvcSpec => [](ContextInv /\ CleanInv))
<1> SUFFICES ASSUME NothingRefused PROVE NvcSpec => [](ContextInv /\ CleanInv)
  OBVIOUS
<1>1. NvcInit => ContextInv /\ CleanInv
  BY Zenon, ContextStarts, CleanStarts
<1>2. ContextInv /\ CleanInv /\ [NvcNext]_allvars => (ContextInv /\ CleanInv)'
  BY Zenon, ContextNext, CleanNext
<1> QED BY <1>1, <1>2, PTL DEF NvcSpec

(* After an nvc_shutdown that reports success no child and no descriptor   *)
(* of the library is left, when no reap can fail.                          *)
THEOREM NothingIsLeft == NothingRefused => (NvcSpec => []ShutdownLeavesNothing)
<1> SUFFICES ASSUME NothingRefused PROVE NvcSpec => []ShutdownLeavesNothing
  OBVIOUS
<1>1. ASSUME ContextInv, CleanInv, ~retried, parent, lib = "out", ~dirty, ~ctx.initialized
      PROVE (\A p \in Pids : ~Child(p)) /\ (\A n \in Fd : fdt[n] \in {Free, Caller})
  <2>1. ChildInv /\ TableInv /\ pc = "idle" /\ \A s \in Services : ~ctxinit[s]
    BY Zenon, <1>1 DEF CleanInv, ContextInv, LibInv, FirstInv
  <2>2. \A s \in Services : ~InUse(s)
    BY Zenon, <2>1 DEF InUse, Calling, Reaping
  <2>3. \A p \in Pids : ~Child(p)
    BY Zenon, <2>1, <2>2 DEF ChildInv, Child
  <2>4. \A n \in Fd : fdt[n] # MntNs
    BY Zenon, <1>1 DEF ContextInv, MntInv, MntOpen
  <2>5. \A n \in Fd : fdt[n] \in {Free, Caller}
    BY Zenon, <2>1, <2>2, <2>4 DEF TableInv
  <2> QED BY Zenon, <2>3, <2>5
<1>2. ContextInv /\ CleanInv => ShutdownLeavesNothing
  BY Zenon, <1>1 DEF ShutdownLeavesNothing
<1> QED BY CleanInvariance, <1>2, PTL

(* A step of the library closes only what it owns, when no reap can fail:  *)
(* the stale fd[SOCK_SVC] of a service never costs another one its socket. *)
THEOREM OwnDescriptorsOnly == NothingRefused => (NvcSpec => ClosesOnlyItsOwn)
<1> SUFFICES ASSUME NothingRefused PROVE NvcSpec => ClosesOnlyItsOwn
  OBVIOUS
<1> USE NvcContextAssumption
<1> DEFINE Own(n) == \/ fdt[n] \in {<<rpc[cur].pid, "clt">>, <<rpc[cur].pid, "svc">>}
                     \/ fdt[n] = MntNs /\ ctx.mnt_ns = n /\ lib' = "out"
                     \/ n = 0 /\ lib = "init_driver"
           Closes == \A n \in Fd : ~retried /\ fdt[n] # Free /\ fdt'[n] = Free => Own(n)
<1>1. ASSUME ContextInv, CleanInv, NvcNext, NEW n \in Fd, ~retried, fdt[n] # Free, fdt'[n] = Free
      PROVE Own(n)
  <2>a. /\ TypeOK /\ ControlInv /\ CoreInv /\ LibInv /\ MntInv /\ FirstInv
    BY Zenon, <1>1 DEF ContextInv, CoreInv
  <2>1. ASSUME nvc_init \/ EnvironmentFails \/ ServiceInitReturns \/ nvc_shutdown
               \/ ShutdownService \/ ServiceShutdownReturns \/ Query \/ QueryReturns
               \/ (SystemStep /\ ~MainStep)
        PROVE FALSE
    <3>1. CASE nvc_init
      <4>1. Free # MntNs
        BY Zenon DEF Free, MntNs
      <4> QED BY Zenon, <1>1, <2>a, <3>1, <4>1 DEF nvc_init, TypeOK
    <3>2. CASE SystemStep /\ ~MainStep
      BY Zenon, <1>1, <3>2, QuietStep
    <3> QED BY Zenon, <1>1, <2>1, <3>1, <3>2 DEF EnvironmentFails, ServiceInitReturns,
               nvc_shutdown, ShutdownService, service_shutdown, ServiceShutdownReturns, Query,
               service_query, QueryReturns, vars
  <2>2. CASE InitFails \/ ShutdownReturns
    <3>1. fdt' = Close(fdt, {ctx.mnt_ns}) /\ lib' = "out" /\ MntOpen
      BY Zenon, <1>1, <2>2 DEF InitFails, ShutdownReturns, MntOpen
    <3>2. n = ctx.mnt_ns
      BY Zenon, <1>1, <3>1 DEF Close
    <3> QED BY Zenon, <1>1, <2>a, <3>1, <3>2 DEF MntInv
  <2>3. CASE InitService
    <3>1. CASE \E s \in Services : InitNoPath(s)
      <4>1. fdt' = Close(fdt, {0})
        BY Zenon, <3>1 DEF InitNoPath
      <4>2. n = 0
        BY Zenon, <1>1, <4>1 DEF Close
      <4>3. lib = "init_driver"
        BY Zenon, <2>3, <3>1 DEF InitService, service_init, InitFork, InitNoFork, InitNoPath
      <4> QED BY Zenon, <4>2, <4>3
    <3>2. ASSUME NEW s \in Services, InitFork(s) \/ InitNoFork(s) PROVE FALSE
      <4>1. CASE InitNoFork(s)
        BY Zenon, <1>1, <4>1 DEF InitNoFork
      <4>2. CASE InitFork(s)
        <5>1. PICK p \in Pids, a \in Fd, b \in Fd :
                fdt' = [fdt EXCEPT ![a] = <<p, "clt">>, ![b] = <<p, "svc">>]
          BY Zenon, <4>2 DEF InitFork, ForkService
        <5>2. <<p, "clt">> # Free /\ <<p, "svc">> # Free
          BY Zenon DEF Free
        <5> QED BY Zenon, <1>1, <2>a, <5>1, <5>2 DEF TypeOK
      <4> QED BY Zenon, <3>2, <4>1, <4>2
    <3> QED BY Zenon, <2>3, <3>1, <3>2 DEF InitService, service_init
  <2>4. CASE MainStep
    <3>1. parent /\ cur \in Services
      BY Zenon, <2>a, <2>4 DEF MainStep, TypeOK
    <3>2. ReapInv /\ ChildInv /\ SocketInv /\ TableInv
      BY Zenon, <1>1, <3>1 DEF CleanInv
    <3>3. CASE setup_client
      <4>1. n = rpc[cur].svc_fd /\ pc = "setup_client"
        BY Zenon, <1>1, <3>3 DEF setup_client, Close
      <4> QED BY Zenon, <2>a, <4>1 DEF MntInv, mypid
    <3>4. CASE RpcInitFailed \/ RpcShutdownDone
      <4>1. pc = "reaped" /\ n \in {rpc[cur].clt_fd, rpc[cur].svc_fd}
            /\ fdt' = Close(fdt, {rpc[cur].clt_fd, rpc[cur].svc_fd})
            /\ (caller = "rpc_init" \/ ret = 0)
        BY Zenon, <1>1, <3>4 DEF RpcInitFailed, RpcShutdownDone, Close
      <4>2. ~Again
        BY Zenon, <3>2, <4>1 DEF ReapInv, Again
      <4>3. cur = "driver" => ~ctxinit["nvcgo"]
        BY Zenon, <1>1, <2>a, <3>2, <4>1
           DEF LibInv, FirstInv, ReapInv, Places, ControlInv, Reaping
      <4>4. fdt[rpc[cur].svc_fd] = Free /\ fdt[rpc[cur].clt_fd] = <<mypid, "clt">>
        BY Zenon, <2>a, <3>1, <3>2, <4>1, <4>2, <4>3, SocketsClosed
      <4> QED BY Zenon, <1>1, <4>1, <4>4 DEF mypid
    <3> QED BY ZenonT(30), <1>1, <2>4, <3>3, <3>4 DEF MainStep, Send, CallReturns, Reap, PollFails,
               PollReady, PollTimeout, Waitpid
  <2> QED BY Zenon, <1>1, <2>1, <2>2, <2>3, <2>4 DEF NvcNext
<1>2. ContextInv /\ CleanInv /\ [NvcNext]_allvars => [Closes]_allvars
  BY Zenon, <1>1
<1> QED BY CleanInvariance, <1>2, PTL DEF NvcSpec, ClosesOnlyItsOwn
=============================================================================
