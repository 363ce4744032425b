---------------------------- MODULE DriverCalls -----------------------------
(***************************************************************************)
(* Calls to the services once they run: the stubs of the client            *)
(* (nvc_clt.c), the codecs (nvc_xdr.c), the dispatch (nvc_svc.c), the      *)
(* procedures of driver.c and nvc_device_info_new (nvc_info.c), which      *)
(* makes most of the calls. The client waits ten seconds for an answer; a  *)
(* service that is slower than that still answers later, on the same       *)
(* stream. Devices come and go between two calls. How the services are     *)
(* started, stopped and lost is in Rpc; what nvcgo does, in DeviceCgroup.  *)
(***************************************************************************)
EXTENDS Integers, Sequences, FiniteSets, TLC

CONSTANTS
  Devices,           \* devices the management library may know
  Enumerations,      \* the orders in which it may enumerate them
  MigDevices,        \* devices in MIG mode
  MAX_DEVICES,
  MAX_MIG_DEVICES,
  LibErrors,         \* codes it may fail with to tell the MIG mode
  Queries,           \* getters called on their own
  QueryIndices,      \* indices of devices they are called for
  MaxInfos,          \* calls of nvc_device_info_new, at most
  MaxChanges         \* changes of the enumeration, at most

(* The procedures the rest of the library, and its callers, use to ask     *)
(* about one device or about none.                                         *)
Getters ==
  {"driver_get_rm_version", "driver_get_cuda_version", "driver_get_device_arch",
   "driver_get_device_minor", "driver_get_device_busid", "driver_get_device_uuid",
   "driver_get_device_model", "driver_get_device_brand", "mig_enabled", "mig_capable",
   "driver_get_device_max_mig_device_count", "driver_get_device_gpu_instance_id",
   "driver_get_device_compute_instance_id",
   "nvcgo_get_device_cgroup_version", "nvcgo_find_device_cgroup_path", "nvcgo_setup_device_cgroup"}

ASSUME DriverCallsAssumption ==
  /\ MigDevices \subseteq Devices /\ <<>> \notin Devices /\ Queries \subseteq Getters
  /\ Enumerations \subseteq Seq(Devices)
  /\ MAX_DEVICES \in Nat /\ MAX_MIG_DEVICES \in Nat
  /\ "ok" \notin LibErrors /\ 0 \in QueryIndices /\ QueryIndices \subseteq Nat

VARIABLES
  enumeration,     \* devices by index, as the management library sees them
  changes,
  deviceHandles,   \* memory of the service: a device behind each handle
  alive,           \* services that run
  requests,        \* per service, sent and not yet read
  replies,         \* per service, written and not yet read
  client,          \* the operation and the call it waits for
  gpus,            \* info->gpus
  strings,         \* strings the client has allocated and not freed
  wsl              \* dxcore.initialized

callvars == <<enumeration, changes, deviceHandles, alive, requests, replies,
              client, gpus, strings, wsl>>

-----------------------------------------------------------------------------
(* Codecs. A result is a union on errcode: an error has a message, a       *)
(* success what its arm holds.                                             *)

DriverArms ==
  [driver_init |-> "void", driver_shutdown |-> "void", driver_get_rm_version |-> "string",
   driver_get_cuda_version |-> "pair", driver_get_device_arch |-> "pair",
   driver_get_device_count |-> "uint"]

DeviceArms ==
  [driver_get_device |-> "ptr", driver_get_device_minor |-> "uint",
   driver_get_device_busid |-> "string", driver_get_device_uuid |-> "string",
   driver_get_device_model |-> "string", driver_get_device_brand |-> "string"]

MigArms ==
  [driver_get_device_mig_mode |-> "mode", driver_get_device_max_mig_device_count |-> "uint",
   driver_get_device_mig_device |-> "ptr", driver_get_device_gpu_instance_id |-> "uint",
   driver_get_device_compute_instance_id |-> "uint"]

NvcgoArms ==
  [nvcgo_init |-> "void", nvcgo_shutdown |-> "void", nvcgo_get_device_cgroup_version |-> "uint",
   nvcgo_find_device_cgroup_path |-> "string", nvcgo_setup_device_cgroup |-> "void"]

Arms == DriverArms @@ DeviceArms @@ MigArms @@ NvcgoArms

Program(p) == IF p \in DOMAIN NvcgoArms THEN "nvcgo" ELSE "driver"

(* Arguments behind the pointer to the context that every procedure takes. *)
DriverArguments(p) ==
  CASE p = "driver_get_device" -> <<"uint">>
    [] p = "driver_get_device_mig_device" -> <<"ptr", "uint">>
    [] p \in DOMAIN DriverArms /\ p # "driver_get_device_arch" -> <<>>
    [] OTHER -> <<"ptr">>

NvcgoArguments(p) ==
  CASE p = "nvcgo_get_device_cgroup_version" -> <<"string", "int">>
    [] p = "nvcgo_find_device_cgroup_path" -> <<"int", "string", "int", "int">>
    [] p = "nvcgo_setup_device_cgroup" -> <<"int", "string", "ulong">>
    [] OTHER -> <<>>

(* xdr_string refuses to encode a null pointer. *)
Encodable(res) == res.errcode = "ok" \/ res.msg

(* A stub: the procedure, the arguments and the codec to read the result   *)
(* with. The transport numbers the requests.                               *)
DriverStub(p, args, x) == [proc |-> p, args |-> args, shape |-> DriverArguments(p), xid |-> x]

NvcgoStub(p, x) == [proc |-> p, args |-> <<>>, shape |-> NvcgoArguments(p), xid |-> x]

Stub(p, args, x) == IF Program(p) = "driver" THEN DriverStub(p, args, x) ELSE NvcgoStub(p, x)
-----------------------------------------------------------------------------
(* The procedures: what the service computes (the outcomes of the _1_svc   *)
(* function) and how the getter of the client takes the value.             *)

Null == <<>>
Handles == {<<i>> : i \in 0 .. MAX_DEVICES - 1}
             \cup ((0 .. MAX_DEVICES - 1) \X (0 .. MAX_MIG_DEVICES - 1))

Done(v) == [errcode |-> "ok", msg |-> FALSE, val |-> v, handles |-> deviceHandles]

(* error_to_xdr copies the code and the message; without memory for them   *)
(* the code is that of the allocation, and there may be no message.        *)
error_to_xdr(code) ==
  {[errcode |-> code, msg |-> TRUE, val |-> Null, handles |-> deviceHandles],
   [errcode |-> "nomem", msg |-> FALSE, val |-> Null, handles |-> deviceHandles]}

(* call_xdxml and call_nvml: a function that is missing is an error like   *)
(* any other. Except for the MIG mode the code is not looked at.           *)
call_xdxml(ok) == ok \cup error_to_xdr("error")

Attribute(p, h) == call_xdxml({Done(<<p, deviceHandles[h]>>)})

driver_get_rm_version == call_xdxml({Done(<<"rm">>)})

(* A version 1000 * major + 10 * minor. *)
driver_get_cuda_version == call_xdxml({Done(<<v \div 1000, (v % 100) \div 10>>) : v \in {9020, 11040}})

driver_get_device_count == call_xdxml({Done(Len(enumeration))})

(* The handle is a pointer into the memory of the service. *)
driver_get_device(idx) ==
  IF idx >= MAX_DEVICES THEN error_to_xdr("error")
  ELSE call_xdxml({[Done(<<idx>>) EXCEPT !.handles[<<idx>>] = enumeration[i]] :
                     i \in {idx + 1} \cap DOMAIN enumeration})

driver_get_device_minor(h) == Attribute("driver_get_device_minor", h)
driver_get_device_busid(h) == Attribute("driver_get_device_busid", h)
driver_get_device_uuid(h)  == Attribute("driver_get_device_uuid", h)
driver_get_device_model(h) == Attribute("driver_get_device_model", h)
driver_get_device_brand(h) == Attribute("driver_get_device_brand", h)
driver_get_device_arch(h)  == Attribute("driver_get_device_arch", h)

(* The error of the library is part of the result. The mode that comes     *)
(* with an error was never written.                                        *)
driver_get_device_mig_mode_1_svc(h) ==
  {Done(<<"ok", IF deviceHandles[h] \in MigDevices THEN 1 ELSE 0>>)}
    \cup {Done(<<e, c>>) : e \in LibErrors, c \in {0, 1}}

driver_get_device_max_mig_device_count(h) ==
  Attribute("driver_get_device_max_mig_device_count", h)

(* No MIG device at an index is no error. *)
driver_get_device_mig_device(h, idx) ==
  IF idx >= MAX_MIG_DEVICES THEN error_to_xdr("error")
  ELSE LET mig == Append(h, idx) IN
       {[Done(mig) EXCEPT !.handles[mig] = deviceHandles[h]]}
         \cup {Done(Null)} \cup error_to_xdr("error")

driver_get_device_gpu_instance_id(h) == Attribute("driver_get_device_gpu_instance_id", h)
driver_get_device_compute_instance_id(h) == Attribute("driver_get_device_compute_instance_id", h)

DriverLocal(p, args) ==
  CASE p = "driver_get_rm_version" -> driver_get_rm_version
    [] p = "driver_get_cuda_version" -> driver_get_cuda_version
    [] p = "driver_get_device_count" -> driver_get_device_count
    [] p = "driver_get_device" -> driver_get_device(args[1])
    [] p = "driver_get_device_minor" -> driver_get_device_minor(args[1])
    [] p = "driver_get_device_busid" -> driver_get_device_busid(args[1])
    [] p = "driver_get_device_uuid" -> driver_get_device_uuid(args[1])
    [] p = "driver_get_device_arch" -> driver_get_device_arch(args[1])
    [] p = "driver_get_device_model" -> driver_get_device_model(args[1])
    [] p = "driver_get_device_brand" -> driver_get_device_brand(args[1])
    [] p = "driver_get_device_mig_mode" -> driver_get_device_mig_mode_1_svc(args[1])
    [] p = "driver_get_device_max_mig_device_count" -> driver_get_device_max_mig_device_count(args[1])
    [] p = "driver_get_device_mig_device" -> driver_get_device_mig_device(args[1], args[2])
    [] p = "driver_get_device_gpu_instance_id" -> driver_get_device_gpu_instance_id(args[1])
    [] p = "driver_get_device_compute_instance_id" -> driver_get_device_compute_instance_id(args[1])

NvcgoLocal(p) == {Done(<<p>>)} \cup error_to_xdr("error")
-----------------------------------------------------------------------------
(* client.plan is what the operation of the client still has to call, the  *)
(* first of it being waited for.                                           *)
Waiting == client.plan # <<>>
Source == Program(Head(client.plan))

(* The service reads a request, calls the procedure, which has one of the  *)
(* outcomes, answers, and frees arguments and result. A result that cannot *)
(* be encoded is answered with a system error.                             *)
Dispatch(s, shape, outcomes) ==
  /\ s \in alive /\ requests[s] # <<>>
  /\ LET r == Head(requests[s]) IN
     /\ requests' = [requests EXCEPT ![s] = Tail(@)]
     /\ IF r.shape # shape
        THEN /\ replies' = [replies EXCEPT ![s] = Append(@, [xid |-> r.xid, stat |-> "decode", res |-> Null])]
             /\ UNCHANGED deviceHandles
        ELSE \E o \in outcomes :
             /\ replies' = [replies EXCEPT ![s] =
                  Append(@, [xid |-> r.xid, stat |-> IF Encodable(o) THEN "ok" ELSE "system",
                             res |-> [errcode |-> o.errcode, val |-> o.val]])]
             /\ deviceHandles' = o.handles
  /\ UNCHANGED <<enumeration, changes, alive, client, gpus, strings, wsl>>

driver_program_1 ==
  /\ requests["driver"] # <<>>
  /\ LET r == Head(requests["driver"]) IN
     Dispatch("driver", DriverArguments(r.proc), DriverLocal(r.proc, r.args))

nvcgo_program_1 ==
  /\ requests["nvcgo"] # <<>>
  /\ LET r == Head(requests["nvcgo"]) IN
     Dispatch("nvcgo", NvcgoArguments(r.proc), NvcgoLocal(r.proc))

(* A device is added, removed or found in another place. *)
EnumerationChanges ==
  /\ Waiting /\ changes < MaxChanges /\ changes' = changes + 1
  /\ \E e \in Enumerations \ {enumeration} : enumeration' = e
  /\ UNCHANGED <<deviceHandles, alive, requests, replies, client, gpus, strings, wsl>>

(* A service may die; it makes a difference when it is waited for. *)
ServiceDies ==
  /\ Waiting /\ Source \in alive /\ alive' = alive \ {Source}
  /\ requests' = [requests EXCEPT ![Source] = <<>>]
  /\ UNCHANGED <<enumeration, changes, deviceHandles, replies, client, gpus, strings, wsl>>
-----------------------------------------------------------------------------
(* The client *)

NoGpu == [model |-> Null, busid |-> Null, uuid |-> Null, node |-> Null]
StringsIn(gs) == Cardinality({x \in (DOMAIN gs) \X (DOMAIN NoGpu) : gs[x[1]][x[2]] # Null})

(* The calls for one device; on WSL it has no device node. *)
init_nvc_device ==
  <<"driver_get_device", "driver_get_device_model", "driver_get_device_minor",
    "driver_get_device_busid", "driver_get_device_uuid">>
    \o IF wsl THEN <<>> ELSE <<"driver_get_device_minor">>

ProcOf(q) == IF q \in {"mig_enabled", "mig_capable"} THEN "driver_get_device_mig_mode" ELSE q

(* The calls a getter needs: the device first, the MIG device for an id.   *)
QueryPlan(q) ==
  IF q \in {"driver_get_device_gpu_instance_id", "driver_get_device_compute_instance_id"}
  THEN <<"driver_get_device", "driver_get_device_mig_device", q>>
  ELSE IF Program(ProcOf(q)) = "driver" /\ DriverArguments(ProcOf(q)) = <<"ptr">>
  THEN <<"driver_get_device", ProcOf(q)>>
  ELSE <<ProcOf(q)>>

ArgsFor(p, c) ==
  CASE p = "driver_get_device" -> <<c.i>>
    [] p = "driver_get_device_mig_device" -> <<c.h, c.j>>
    [] Program(p) = "driver" /\ DriverArguments(p) = <<"ptr">> -> <<c.h>>
    [] OTHER -> <<>>

(* The transport gives a request a number no outstanding one has. *)
FreshXid(s) ==
  CHOOSE x \in 0 .. Len(requests[s]) + Len(replies[s]) :
    /\ \A k \in DOMAIN requests[s] : requests[s][k].xid # x
    /\ \A k \in DOMAIN replies[s] : replies[s][k].xid # x

(* call_rpc, up to the wait for the answer. *)
Call(c) ==
  LET p == Head(c.plan)
      s == Program(p)
      x == FreshXid(s) IN
  /\ client' = [c EXCEPT !.xid = x,
                         !.of = IF c.h \in Handles THEN deviceHandles[c.h] ELSE Null]
  /\ requests' = [requests EXCEPT ![s] =
       IF s \in alive THEN Append(@, Stub(p, ArgsFor(p, c), x)) ELSE @]

Return(rv, err, out) ==
  /\ client' = [client EXCEPT !.plan = <<>>, !.xid = 0, !.h = Null, !.of = Null, !.i = 0, !.j = 0,
                              !.rv = rv, !.err = err, !.out = out]
  /\ UNCHANGED requests

\* variant: a device that was not read to the end is passed over
nvc_device_info_free_Partly ==
  strings' = strings - StringsIn(SelectSeq(gpus, LAMBDA g : g.uuid # Null)) /\ gpus' = <<>>

nvc_device_info_free ==
  strings' = strings - StringsIn(gpus) /\ gpus' = <<>>

Fail(err) == Return(-1, err, Null) /\ nvc_device_info_free

Start(op, plan, n, i, j) ==
  /\ ~Waiting /\ gpus = <<>>
  /\ Call([client EXCEPT !.op = op, !.plan = plan, !.infos = n, !.i = i, !.j = j, !.rv = 0,
                         !.err = "none", !.out = Null])
  /\ UNCHANGED <<enumeration, changes, deviceHandles, alive, replies, gpus, strings, wsl>>

nvc_device_info_new ==
  /\ client.infos < MaxInfos
  /\ Start("info", <<"driver_get_device_count">>, client.infos + 1, 0, 0)

(* A getter on its own, after which the client calls no more. *)
Query_(q) == \E i \in QueryIndices, j \in 0 .. MAX_MIG_DEVICES :
  /\ Len(QueryPlan(q)) = 1 => i = 0
  /\ Len(QueryPlan(q)) < 3 => j = 0
  /\ client.infos <= MaxInfos /\ Start(q, QueryPlan(q), MaxInfos + 1, i, j)

FreeInfo ==
  /\ ~Waiting /\ gpus # <<>> /\ nvc_device_info_free
  /\ UNCHANGED <<enumeration, changes, deviceHandles, alive, requests, replies, client, wsl>>

(* The field a call fills: the device node is named by the second minor.   *)
FieldOf(p) ==
  CASE p = "driver_get_device_model" -> "model"
    [] p = "driver_get_device_busid" -> "busid"
    [] p = "driver_get_device_uuid" -> "uuid"
    [] p = "driver_get_device_minor" /\ Len(client.plan) = 1 -> "node"
    [] OTHER -> "none"

(* The value of a call of nvc_device_info_new, and what comes after it.    *)
InfoGot(v) ==
  LET p    == Head(client.plan)
      f    == FieldOf(p)
      next == [client EXCEPT !.plan = Tail(@), !.h = IF p = "driver_get_device" THEN v ELSE @] IN
  IF p = "driver_get_device_count"
  THEN /\ gpus' = [k \in 1 .. v |-> NoGpu] /\ UNCHANGED strings
       /\ IF v = 0 THEN Return(0, "none", Null)
          ELSE Call([next EXCEPT !.plan = init_nvc_device])
  ELSE /\ IF f = "none" THEN UNCHANGED <<gpus, strings>>
          ELSE gpus' = [gpus EXCEPT ![client.i + 1][f] = v] /\ strings' = strings + 1
       /\ IF next.plan # <<>> THEN Call(next)
          ELSE IF client.i + 1 < Len(gpus)
          THEN Call([next EXCEPT !.plan = init_nvc_device, !.i = @ + 1])
          ELSE Return(0, "none", Null)

\* variant: the mode is looked at whatever came with it
driver_get_device_mig_enabled_Unchecked(v) == Return(0, "none", <<client.op, client.of, v[2] = 1>>)

(* An error of the library other than the two is returned without a        *)
(* message.                                                                *)
driver_get_device_mig_enabled(v) ==
  CASE v[1] = "ok" -> Return(0, "none", <<client.op, client.of, v[2] = 1>>)
    [] v[1] \in {"function_not_found", "not_supported"} ->
         Return(0, "none", <<client.op, client.of, FALSE>>)
    [] OTHER -> Return(-1, "none", Null)

driver_get_device_mig_capable(v) ==
  CASE v[1] = "ok" -> Return(0, "none", <<client.op, client.of, TRUE>>)
    [] v[1] \in {"function_not_found", "not_supported"} ->
         Return(0, "none", <<client.op, client.of, FALSE>>)
    [] OTHER -> Return(-1, "none", Null)

QueryGot(v) ==
  LET p == Head(client.plan) IN
  /\ IF Len(client.plan) > 1
     THEN IF v = Null THEN Return(0, "none", Null)
          ELSE Call([client EXCEPT !.plan = Tail(@), !.h = v])
     ELSE IF client.op = "mig_enabled" THEN driver_get_device_mig_enabled(v)
     ELSE IF client.op = "mig_capable" THEN driver_get_device_mig_capable(v)
     ELSE Return(0, "none", <<client.op, client.of, v>>)
  /\ UNCHANGED <<gpus, strings>>


(* The code of the service, or that of a failed copy of its message. *)
error_from_xdr(code) == {code, "nomem"}

(* The transport takes an answer to another request for a late one. *)
Matches(r) == r.xid = client.xid

(* call_rpc once the answer is there, the copy of the value by the getter, *)
(* which may fail, and the release of the result.                          *)
Receive ==
  /\ Waiting /\ replies[Source] # <<>> /\ Matches(Head(replies[Source]))
  /\ LET r == Head(replies[Source])
         p == Head(client.plan) IN
     /\ replies' = [replies EXCEPT ![Source] = Tail(@)]
     /\ IF r.stat # "ok" THEN Fail("rpc")
        ELSE IF r.res.errcode # "ok" THEN \E e \in error_from_xdr(r.res.errcode) : Fail(e)
        ELSE \/ IF client.op = "info" THEN InfoGot(r.res.val) ELSE QueryGot(r.res.val)
             \/ (Arms[p] \in {"string", "pair"} \/ FieldOf(p) = "node") /\ Fail("nomem")
  /\ UNCHANGED <<enumeration, changes, deviceHandles, alive, wsl>>

PassLate ==
  /\ Waiting /\ replies[Source] # <<>> /\ ~Matches(Head(replies[Source]))
  /\ replies' = [replies EXCEPT ![Source] = Tail(@)]
  /\ UNCHANGED <<enumeration, changes, deviceHandles, alive, requests, client, gpus, strings, wsl>>

(* TIMEOUT passes, or the service is not there any more. *)
CallFails ==
  /\ Waiting /\ replies[Source] = <<>> /\ Fail("rpc")
  /\ UNCHANGED <<enumeration, changes, deviceHandles, alive, replies, wsl>>

CallsInit ==
  /\ enumeration \in Enumerations /\ changes = 0
  /\ deviceHandles = [h \in Handles |-> Null]
  /\ alive = {"driver", "nvcgo"}
  /\ requests = [s \in {"driver", "nvcgo"} |-> <<>>]
  /\ replies = [s \in {"driver", "nvcgo"} |-> <<>>]
  /\ client = [op |-> "none", plan |-> <<>>, infos |-> 0, xid |-> 0, h |-> Null, i |-> 0, j |-> 0,
               of |-> Null, rv |-> 0, err |-> "none", out |-> Null]
  /\ gpus = <<>> /\ strings = 0
  /\ wsl \in BOOLEAN

ClientStep == Receive \/ PassLate \/ CallFails

CallsNext ==
  \/ nvc_device_info_new \/ (\E q \in Queries : Query_(q)) \/ FreeInfo
  \/ ClientStep
  \/ driver_program_1 \/ nvcgo_program_1 \/ ServiceDies \/ EnumerationChanges

CallsSpec == CallsInit /\ [][CallsNext]_callvars /\ WF_callvars(ClientStep)
-----------------------------------------------------------------------------
(* Properties *)

(* A getter hands out what is true of the device whose handle it was given *)
(* at the time of the call, and every pointer sent back to the service is  *)
(* that of a handle which was filled; in particular MIG mode is never      *)
(* reported from a field the service did not write. nvc_device_info_new    *)
(* reports devices, not mixtures of them: model, bus ID, UUID and device   *)
(* node of an entry belong to one device, although each is asked for in a  *)
(* call of its own, devices come and go between the calls and answers to   *)
(* abandoned calls arrive in between.                                      *)
AnswersAreTrue ==
  /\ LET o == client.out IN
     o # Null =>
       CASE o[1] = "mig_enabled" -> o[3] => o[2] \in MigDevices
         [] o[1] = "mig_capable" -> TRUE
         [] o[1] = "driver_get_cuda_version" -> o[3] \in {<<9, 2>>, <<11, 4>>}
         [] o[1] = "driver_get_rm_version" -> o[3] = <<"rm">>
         [] Program(o[1]) = "nvcgo" -> o[3] = <<o[1]>>
         [] OTHER -> o[3] = <<o[1], o[2]>>
  /\ \A k \in DOMAIN gpus :
       /\ Cardinality({gpus[k][f][2] : f \in {g \in DOMAIN NoGpu : gpus[k][g] # Null}}) <= 1
       /\ ~Waiting => \A f \in DOMAIN NoGpu : gpus[k][f] # Null \/ (f = "node" /\ wsl)
  /\ \A k \in DOMAIN requests["driver"] :
       LET r == requests["driver"][k] IN
       r.shape # <<>> /\ r.shape[1] = "ptr" =>
         r.args[1] \in Handles /\ deviceHandles[r.args[1]] # Null

(* An operation that fails says why: the error of the service, of the      *)
(* transport or of an allocation reaches the caller, except from the two   *)
(* getters of the MIG mode. However an operation ends, the strings of the  *)
(* client are those its caller can still reach (nvc_device_info_free).     *)
FailuresAreClean ==
  /\ client.rv = -1 /\ client.err = "none" => client.op \in {"mig_enabled", "mig_capable"}
  /\ strings = StringsIn(gpus)

(* Each operation returns, answered or not: the wait has an end. *)
OperationsReturn == Waiting ~> ~Waiting
=============================================================================
