---------------------------- MODULE DriverProofs ----------------------------
(***************************************************************************)
(* What the client of the services is told, for any devices, any number of *)
(* calls and of changes, and answers that come at any time.                *)
(***************************************************************************)
EXTENDS DriverCalls, FiniteSetTheorems, TLAPS

Services == {"driver", "nvcgo"}

(* Procedures that take a handle, and others of the driver. *)
HandleProcs ==
  {"driver_get_device_minor", "driver_get_device_busid", "driver_get_device_uuid",
   "driver_get_device_model", "driver_get_device_brand", "driver_get_device_arch",
   "driver_get_device_mig_mode", "driver_get_device_max_mig_device_count",
   "driver_get_device_gpu_instance_id", "driver_get_device_compute_instance_id"}

DriverProcs ==
  HandleProcs \cup {"driver_get_rm_version", "driver_get_cuda_version", "driver_get_device_count",
                    "driver_get_device", "driver_get_device_mig_device"}

NvcgoProcs ==
  {"nvcgo_get_device_cgroup_version", "nvcgo_find_device_cgroup_path", "nvcgo_setup_device_cgroup"}

TakesHandle(p) == p \in HandleProcs \cup {"driver_get_device_mig_device"}

DeviceHandles == {<<i>> : i \in 0 .. MAX_DEVICES - 1}

Sequence(q) == \E S : q \in Seq(S)

ClientFields == {"op", "plan", "infos", "xid", "h", "i", "j", "of", "rv", "err", "out"}

Record(c) == c = [f \in ClientFields |-> c[f]]

CallsTyped ==
  /\ enumeration \in Seq(Devices)
  /\ deviceHandles \in [Handles -> Devices \cup {Null}]
  /\ requests = [s \in Services |-> requests[s]] /\ replies = [s \in Services |-> replies[s]]
  /\ \A s \in Services : Sequence(requests[s]) /\ Sequence(replies[s])
  /\ wsl \in BOOLEAN
  /\ Record(client) /\ client.i \in Nat /\ client.j \in Nat

(* Every pointer in a request is that of a handle which was filled. *)
RequestOk(handles, s, r) ==
  /\ r.xid \in Nat
  /\ s = "nvcgo" => r.proc \in NvcgoProcs /\ r.shape = NvcgoArguments(r.proc)
  /\ s = "driver" =>
       /\ r.proc \in DriverProcs /\ r.shape = DriverArguments(r.proc)
       /\ r.proc = "driver_get_device" => r.args[1] \in Nat
       /\ r.proc \in HandleProcs => r.args[1] \in Handles /\ handles[r.args[1]] # Null
       /\ r.proc = "driver_get_device_mig_device" =>
            r.args[1] \in DeviceHandles /\ handles[r.args[1]] # Null /\ r.args[2] \in Nat

ReplyOk(r) == r.xid \in Nat /\ (r.stat = "ok" => r.res.errcode # "none")

MessagesInv ==
  \A s \in Services :
    /\ \A k \in 1 .. Len(requests[s]) : RequestOk(deviceHandles, s, requests[s][k])
    /\ \A k \in 1 .. Len(replies[s]) : ReplyOk(replies[s][k])

(* What a successful answer to procedure p says to client c. *)
Truthful(c, handles, p, v) ==
  /\ p = "driver_get_device_count" => v \in Nat
  /\ p = "driver_get_device" => v = <<c.i>> /\ v \in DeviceHandles /\ handles[v] # Null
  /\ p = "driver_get_device_mig_device" => v = Null \/ (v \in Handles /\ handles[v] # Null)
  /\ p = "driver_get_rm_version" => v = <<"rm">>
  /\ p = "driver_get_cuda_version" => v \in {<<9, 2>>, <<11, 4>>}
  /\ p = "driver_get_device_mig_mode" => (v[1] = "ok" /\ v[2] = 1 => c.of \in MigDevices)
  /\ p \in NvcgoProcs => v = <<p>>
  /\ p \in HandleProcs \ {"driver_get_device_mig_mode"} => v = <<p, c.of>>

Successful(r) == r.stat = "ok" /\ r.res.errcode = "ok"

(* The request of the call that waits is the last one, and the only one if *)
(* it has a handle: those before were answered. With the answer there, no  *)
(* request is left, so that no handle is overwritten.                      *)
Current(c, handles, reqs, reps) ==
  LET p == Head(c.plan) IN
  /\ p \in DriverProcs \cup NvcgoProcs
  /\ \A k \in 1 .. Len(reqs) : reqs[k].xid = c.xid =>
       k = Len(reqs) /\ reqs[k] = Stub(p, ArgsFor(p, c), c.xid)
  /\ \A k \in 1 .. Len(reps) : reps[k].xid = c.xid =>
       reqs = <<>> /\ (Successful(reps[k]) => Truthful(c, handles, p, reps[k].res.val))
  /\ TakesHandle(p) =>
       /\ c.h \in Handles /\ c.of # Null /\ handles[c.h] = c.of
       /\ \A k \in 1 .. Len(reqs) : reqs[k].xid = c.xid
  /\ p = "driver_get_device_mig_device" => c.h \in DeviceHandles

CurrentInv == Waiting => Current(client, deviceHandles, requests[Source], replies[Source])

-----------------------------------------------------------------------------
(* Plans: what is left of the calls of an operation. *)
PlansHere ==
  {<<"driver_get_device", "driver_get_device_model", "driver_get_device_minor",
     "driver_get_device_busid", "driver_get_device_uuid", "driver_get_device_minor">>,
   <<"driver_get_device_model", "driver_get_device_minor",
     "driver_get_device_busid", "driver_get_device_uuid", "driver_get_device_minor">>,
   <<"driver_get_device_minor", "driver_get_device_busid", "driver_get_device_uuid", "driver_get_device_minor">>,
   <<"driver_get_device_busid", "driver_get_device_uuid", "driver_get_device_minor">>,
   <<"driver_get_device_uuid", "driver_get_device_minor">>,
   <<"driver_get_device_minor">>}

PlansOnWsl ==
  {<<"driver_get_device", "driver_get_device_model", "driver_get_device_minor",
     "driver_get_device_busid", "driver_get_device_uuid">>,
   <<"driver_get_device_model", "driver_get_device_minor",
     "driver_get_device_busid", "driver_get_device_uuid">>,
   <<"driver_get_device_minor", "driver_get_device_busid", "driver_get_device_uuid">>,
   <<"driver_get_device_busid", "driver_get_device_uuid">>,
   <<"driver_get_device_uuid">>}

DevicePlans(w) == IF w THEN PlansOnWsl ELSE PlansHere

QueryPlans(q) ==
  IF q \in {"driver_get_device_gpu_instance_id", "driver_get_device_compute_instance_id"}
  THEN {<<"driver_get_device", "driver_get_device_mig_device", q>>,
        <<"driver_get_device_mig_device", q>>, <<q>>}
  ELSE IF ProcOf(q) \in HandleProcs THEN {<<"driver_get_device", ProcOf(q)>>, <<ProcOf(q)>>}
  ELSE {<<q>>}

(* The fields of an entry that are filled when a plan is left. *)
Filled(plan) ==
  CASE Head(plan) \in {"driver_get_device", "driver_get_device_model"} -> {}
    [] Head(plan) = "driver_get_device_minor" /\ Len(plan) = 1 -> {"model", "busid", "uuid"}
    [] Head(plan) = "driver_get_device_uuid" -> {"model", "busid"}
    [] OTHER -> {"model"}

Fields == {"model", "busid", "uuid", "node"}

Complete(w, g) == \A f \in Fields : g[f] # Null \/ (f = "node" /\ w)

(* Entry n of gs has the fields F, those of device d. *)
Entry(gs, n, F, d) ==
  \A f \in Fields : (gs[n][f] # Null <=> f \in F) /\ (gs[n][f] # Null => gs[n][f][2] = d)

GpuRecord(g) == g = [f \in Fields |-> g[f]]

OneDevice(g) == \A f, e \in Fields : g[f] # Null /\ g[e] # Null => g[f][2] = g[e][2]

InfoInv ==
  /\ Sequence(gpus)
  /\ \A k \in 1 .. Len(gpus) : GpuRecord(gpus[k]) /\ OneDevice(gpus[k])
  /\ strings = StringsIn(gpus)
  /\ ~Waiting => \A k \in 1 .. Len(gpus) : Complete(wsl, gpus[k])
  /\ Waiting /\ client.op # "info" =>
       gpus = <<>> /\ client.op \in Getters /\ client.plan \in QueryPlans(client.op)
  /\ Waiting /\ client.op = "info" =>
       \/ client.plan = <<"driver_get_device_count">> /\ client.i = 0 /\ gpus = <<>>
       \/ /\ client.plan \in DevicePlans(wsl) /\ client.i < Len(gpus)
          /\ \A k \in 1 .. client.i : Complete(wsl, gpus[k])
          /\ \A k \in client.i + 2 .. Len(gpus) : gpus[k] = NoGpu
          /\ Entry(gpus, client.i + 1, Filled(client.plan), client.of)

OutTrue(o) ==
  o # Null =>
    CASE o[1] = "mig_enabled" -> o[3] => o[2] \in MigDevices
      [] o[1] = "mig_capable" -> TRUE
      [] o[1] = "driver_get_cuda_version" -> o[3] \in {<<9, 2>>, <<11, 4>>}
      [] o[1] = "driver_get_rm_version" -> o[3] = <<"rm">>
      [] Program(o[1]) = "nvcgo" -> o[3] = <<o[1]>>
      [] OTHER -> o[3] = <<o[1], o[2]>>

ResultInv ==
  /\ OutTrue(client.out)
  /\ client.rv = -1 /\ client.err = "none" => client.op \in {"mig_enabled", "mig_capable"}

CallsInv == CallsTyped /\ MessagesInv /\ CurrentInv /\ InfoInv /\ ResultInv
-----------------------------------------------------------------------------
(* Sequences of anything. *)
LEMMA SequenceFacts ==
  ASSUME NEW q, Sequence(q)
  PROVE  /\ Len(q) \in Nat /\ DOMAIN q = 1 .. Len(q)
         /\ q = <<>> <=> Len(q) = 0
         /\ q # <<>> => /\ Sequence(Tail(q)) /\ Len(Tail(q)) = Len(q) - 1 /\ Head(q) = q[1]
                        /\ \A k \in 1 .. Len(q) - 1 : Tail(q)[k] = q[k + 1]
         /\ \A e : /\ Sequence(Append(q, e)) /\ Len(Append(q, e)) = Len(q) + 1
                   /\ \A k \in 1 .. Len(q) : Append(q, e)[k] = q[k]
                   /\ Append(q, e)[Len(q) + 1] = e
<1>1. PICK S : q \in Seq(S)
  BY Zenon DEF Sequence
<1>2. Len(q) \in Nat /\ DOMAIN q = 1 .. Len(q) /\ (q = <<>> <=> Len(q) = 0)
  BY <1>1
<1>3. ASSUME q # <<>>
      PROVE  /\ Tail(q) \in Seq(S) /\ Len(Tail(q)) = Len(q) - 1 /\ Head(q) = q[1]
             /\ \A k \in 1 .. Len(q) - 1 : Tail(q)[k] = q[k + 1]
  BY <1>1, <1>3
<1>4. ASSUME NEW e
      PROVE  /\ Append(q, e) \in Seq(S \cup {e}) /\ Len(Append(q, e)) = Len(q) + 1
             /\ \A k \in 1 .. Len(q) : Append(q, e)[k] = q[k]
             /\ Append(q, e)[Len(q) + 1] = e
  <2>1. q \in Seq(S \cup {e})
    BY <1>1
  <2> QED
    BY <2>1
<1>5. (q # <<>> => Sequence(Tail(q))) /\ \A e : Sequence(Append(q, e))
  BY Zenon, <1>3, <1>4 DEF Sequence
<1> QED
  BY Zenon, <1>2, <1>3, <1>4, <1>5

LEMMA AppendFacts ==
  ASSUME NEW q, Sequence(q), NEW e
  PROVE  /\ Sequence(Append(q, e)) /\ Len(Append(q, e)) = Len(q) + 1
         /\ \A k \in 1 .. Len(q) : Append(q, e)[k] = q[k]
         /\ Append(q, e)[Len(q) + 1] = e
BY Zenon, SequenceFacts

LEMMA EmptyIsSequence == Sequence(<<>>) /\ Len(<<>>) = 0
<1>1. <<>> \in Seq({})
  OBVIOUS
<1> QED
  BY <1>1 DEF Sequence

(* Sequences of the same length and elements are the same. *)
LEMMA SameSequence ==
  ASSUME NEW S, NEW s \in Seq(S), NEW t \in Seq(S), Len(s) = Len(t), \A k \in 1 .. Len(s) : s[k] = t[k]
  PROVE  s = t
OBVIOUS

LEMMA Concatenation ==
  ASSUME NEW S, NEW s \in Seq(S), NEW t \in Seq(S)
  PROVE  /\ s \o t \in Seq(S) /\ Len(s \o t) = Len(s) + Len(t)
         /\ \A k \in 1 .. Len(s) + Len(t) : (s \o t)[k] = IF k <= Len(s) THEN s[k] ELSE t[k - Len(s)]
OBVIOUS

(* No more numbers are in use than there are messages. *)
LEMMA Numbers ==
  ASSUME NEW q, Sequence(q)
  PROVE  LET X == {q[k].xid : k \in DOMAIN q} IN IsFiniteSet(X) /\ Cardinality(X) \in Nat /\ Cardinality(X) <= Len(q)
<1> DEFINE n == Len(q)
           X == {q[k].xid : k \in DOMAIN q}
           f == [k \in 1 .. n |-> q[k].xid]
<1>1. n \in Nat /\ DOMAIN q = 1 .. n
  BY Zenon, SequenceFacts
<1>2. IsFiniteSet(1 .. n) /\ Cardinality(1 .. n) = n
  <2> HIDE DEF n
  <2> QED
    BY <1>1, FS_Interval
<1>3. f \in Surjection(1 .. n, X)
  BY Zenon, <1>1 DEF Surjection
<1> HIDE DEF n, X, f
<1>4. IsFiniteSet(X) /\ Cardinality(X) <= Cardinality(1 .. n)
  BY Zenon, <1>2, <1>3, FS_Surjection
<1>5. Cardinality(X) \in Nat
  BY Zenon, <1>4, FS_CardinalityType
<1> QED
  BY Zenon, <1>2, <1>4, <1>5 DEF X, n

(* The number of a request is that of no other message of the stream. *)
LEMMA FreshNumber ==
  ASSUME NEW s \in Services, CallsTyped
  PROVE  /\ FreshXid(s) \in Nat
         /\ \A k \in 1 .. Len(requests[s]) : requests[s][k].xid # FreshXid(s)
         /\ \A k \in 1 .. Len(replies[s]) : replies[s][k].xid # FreshXid(s)
<1> DEFINE n == Len(requests[s])
           m == Len(replies[s])
           X == {requests[s][k].xid : k \in DOMAIN requests[s]}
           Y == {replies[s][k].xid : k \in DOMAIN replies[s]}
<1>1. Sequence(requests[s]) /\ Sequence(replies[s])
  BY Zenon DEF CallsTyped
<1>2. /\ n \in Nat /\ DOMAIN requests[s] = 1 .. n
      /\ m \in Nat /\ DOMAIN replies[s] = 1 .. m
  BY Zenon, <1>1, SequenceFacts
<1>3. /\ IsFiniteSet(X) /\ Cardinality(X) \in Nat /\ Cardinality(X) <= n
      /\ IsFiniteSet(Y) /\ Cardinality(Y) \in Nat /\ Cardinality(Y) <= m
  BY Zenon, <1>1, Numbers
<1>4. FreshXid(s) = CHOOSE x \in 0 .. n + m : (\A k \in DOMAIN requests[s] : requests[s][k].xid # x)
                                              /\ \A k \in DOMAIN replies[s] : replies[s][k].xid # x
  BY Zenon DEF FreshXid
<1>5. (\A k \in 1 .. n : requests[s][k].xid \in X) /\ (\A k \in 1 .. m : replies[s][k].xid \in Y)
  BY Zenon, <1>2
<1> HIDE DEF n, m, X, Y
<1>6. (0 .. n + m) \ (X \cup Y) # {}
  <2>1. IsFiniteSet(X \cup Y) /\ Cardinality(X \cup Y) = Cardinality(X) + Cardinality(Y) - Cardinality(X \cap Y)
    BY Zenon, <1>3, FS_Union
  <2>2. IsFiniteSet(X \cap Y)
    BY Zenon, <1>3, FS_Intersection
  <2>3. Cardinality(X \cap Y) \in Nat /\ Cardinality(X \cup Y) \in Nat
    BY Zenon, <2>1, <2>2, FS_CardinalityType
  <2>4. Cardinality(X \cup Y) <= n + m
    BY <1>2, <1>3, <2>1, <2>3
  <2>5. IsFiniteSet(0 .. n + m) /\ Cardinality(0 .. n + m) = n + m + 1
    BY <1>2, FS_Interval
  <2>6. ASSUME 0 .. n + m \subseteq X \cup Y PROVE FALSE
    <3>1. Cardinality(0 .. n + m) <= Cardinality(X \cup Y)
      BY Zenon, <2>1, <2>6, FS_Subset
    <3> QED
      BY <1>2, <2>3, <2>4, <2>5, <3>1
  <2> QED
    BY Zenon, <2>6
<1>7. \E x \in 0 .. n + m : /\ \A k \in DOMAIN requests[s] : requests[s][k].xid # x
                            /\ \A k \in DOMAIN replies[s] : replies[s][k].xid # x
  <2>1. PICK x \in 0 .. n + m : x \notin X /\ x \notin Y
    BY Zenon, <1>6
  <2>2. /\ \A k \in DOMAIN requests[s] : requests[s][k].xid # x
        /\ \A k \in DOMAIN replies[s] : replies[s][k].xid # x
    BY Zenon, <1>2, <1>5, <2>1
  <2> QED
    BY Zenon, <2>2
<1>8. /\ FreshXid(s) \in 0 .. n + m
      /\ \A k \in 1 .. n : requests[s][k].xid # FreshXid(s)
      /\ \A k \in 1 .. m : replies[s][k].xid # FreshXid(s)
  BY Zenon, <1>2, <1>4, <1>7
<1>9. FreshXid(s) \in Nat
  BY <1>2, <1>8
<1> QED
  BY Zenon, <1>8, <1>9 DEF n, m

-----------------------------------------------------------------------------
(* The procedures, their programs and arguments. *)
LEMMA Procedures ==
  /\ \A p \in DriverProcs : p \notin NvcgoProcs /\ Program(p) = "driver"
  /\ \A p \in NvcgoProcs : Program(p) = "nvcgo"
  /\ \A p \in HandleProcs : DriverArguments(p) = <<"ptr">>
  /\ DriverArguments("driver_get_device") = <<"uint">>
  /\ DriverArguments("driver_get_device_mig_device") = <<"ptr", "uint">>
  /\ \A p \in {"driver_get_rm_version", "driver_get_cuda_version", "driver_get_device_count"} :
       DriverArguments(p) = <<>>
<1>1. /\ \A p \in DriverProcs : p \notin NvcgoProcs /\ Program(p) = "driver"
      /\ \A p \in NvcgoProcs : Program(p) = "nvcgo"
  BY DEF DriverProcs, HandleProcs, NvcgoProcs, Program, NvcgoArms
<1>2. \A p \in HandleProcs : DriverArguments(p) = <<"ptr">>
  BY DEF DriverArguments, DriverArms, HandleProcs
<1>3. /\ DriverArguments("driver_get_device") = <<"uint">>
      /\ DriverArguments("driver_get_device_mig_device") = <<"ptr", "uint">>
      /\ \A p \in {"driver_get_rm_version", "driver_get_cuda_version", "driver_get_device_count"} :
           DriverArguments(p) = <<>>
  BY DEF DriverArguments, DriverArms
<1> QED
  BY Zenon, <1>1, <1>2, <1>3

(* The arguments of a call. *)
LEMMA Arguments ==
  ASSUME NEW p \in DriverProcs \cup NvcgoProcs, NEW c
  PROVE  /\ p = "driver_get_device" => ArgsFor(p, c) = <<c.i>>
         /\ p = "driver_get_device_mig_device" => ArgsFor(p, c) = <<c.h, c.j>>
         /\ p \in HandleProcs => ArgsFor(p, c) = <<c.h>>
<1>0. /\ "driver_get_device" # "driver_get_device_mig_device"
      /\ "driver_get_device" \notin HandleProcs /\ "driver_get_device_mig_device" \notin HandleProcs
  BY Zenon DEF HandleProcs
<1>4. \A x \in {"driver_get_device", "driver_get_device_mig_device"} : DriverArguments(x) # <<"ptr">>
  BY Procedures
<1>1. CASE p = "driver_get_device"
  BY Zenon, <1>0, <1>1, <1>4 DEF ArgsFor
<1>2. CASE p = "driver_get_device_mig_device"
  BY Zenon, <1>0, <1>2, <1>4 DEF ArgsFor
<1>3. CASE p \in HandleProcs
  <2>1. Program(p) = "driver" /\ DriverArguments(p) = <<"ptr">>
    BY Zenon, <1>3, Procedures DEF DriverProcs
  <2>2. p # "driver_get_device" /\ p # "driver_get_device_mig_device"
    BY Zenon, <1>3 DEF HandleProcs
  <2> QED
    BY Zenon, <1>3, <2>1, <2>2 DEF ArgsFor
<1> QED
  BY Zenon, <1>1, <1>2, <1>3
-----------------------------------------------------------------------------
(* What the outcome of a procedure says, and what it does to the handles. *)
Answered(r, o) ==
  /\ r.proc = "driver_get_device_count" => o.val \in Nat
  /\ r.proc = "driver_get_device" =>
       o.val = <<r.args[1]>> /\ o.val \in DeviceHandles /\ o.handles[o.val] # Null
  /\ r.proc = "driver_get_device_mig_device" => o.val = Null \/ (o.val \in Handles /\ o.handles[o.val] # Null)
  /\ r.proc = "driver_get_rm_version" => o.val = <<"rm">>
  /\ r.proc = "driver_get_cuda_version" => o.val \in {<<9, 2>>, <<11, 4>>}
  /\ r.proc = "driver_get_device_mig_mode" =>
       (o.val[1] = "ok" /\ o.val[2] = 1 => deviceHandles[r.args[1]] \in MigDevices)
  /\ r.proc \in HandleProcs \ {"driver_get_device_mig_mode"} => o.val = <<r.proc, deviceHandles[r.args[1]]>>

Outcome(r, o) ==
  /\ o.errcode \in {"ok", "error", "nomem"}
  /\ o.handles \in [Handles -> Devices \cup {Null}]
  /\ \A h \in Handles : deviceHandles[h] # Null => o.handles[h] # Null
  /\ TakesHandle(r.proc) => o.handles[r.args[1]] = deviceHandles[r.args[1]]
  /\ o.errcode = "ok" => Answered(r, o)

(* A procedure that fails, *)
LEMMA OutcomeOfError ==
  ASSUME CallsTyped, NEW r, NEW o \in error_to_xdr("error")
  PROVE  Outcome(r, o)
<1>1. o.errcode \in {"error", "nomem"} /\ o.handles = deviceHandles
  BY DEF error_to_xdr
<1> QED
  BY Zenon, <1>1 DEF Outcome, CallsTyped

(* one that asks for an attribute, *)
LEMMA OutcomeOfAttribute ==
  ASSUME CallsTyped, NEW r, r.proc \in HandleProcs \ {"driver_get_device_mig_mode"},
         NEW o \in Attribute(r.proc, r.args[1])
  PROVE  Outcome(r, o)
<1>1. CASE o \in error_to_xdr("error")
  BY Zenon, <1>1, OutcomeOfError
<1>2. CASE o = Done(<<r.proc, deviceHandles[r.args[1]]>>)
  <2>1. o.errcode = "ok" /\ o.val = <<r.proc, deviceHandles[r.args[1]]>> /\ o.handles = deviceHandles
    BY Zenon, <1>2 DEF Done
  <2>2. Answered(r, o)
    BY Zenon, <2>1 DEF Answered, HandleProcs
  <2> QED
    BY Zenon, <2>1, <2>2 DEF Outcome, CallsTyped
<1> QED
  BY Zenon, <1>1, <1>2 DEF Attribute, call_xdxml

(* driver_get_device, *)
LEMMA OutcomeOfDevice ==
  ASSUME CallsTyped, NEW r, r.proc = "driver_get_device", r.args[1] \in Nat,
         NEW o \in driver_get_device(r.args[1])
  PROVE  Outcome(r, o)
<1> DEFINE idx == r.args[1]
<1>1. CASE o \in error_to_xdr("error")
  BY Zenon, <1>1, OutcomeOfError
<1>2. CASE o \notin error_to_xdr("error")
  <2>1. /\ ~(idx >= MAX_DEVICES)
        /\ \E i \in {idx + 1} \cap DOMAIN enumeration :
             o = [Done(<<idx>>) EXCEPT !.handles[<<idx>>] = enumeration[i]]
    BY Zenon, <1>2 DEF driver_get_device, call_xdxml
  <2>2. PICK d \in Devices : o = [Done(<<idx>>) EXCEPT !.handles[<<idx>>] = d]
    <3>1. \A i \in DOMAIN enumeration : enumeration[i] \in Devices
      BY DEF CallsTyped
    <3> QED
      BY Zenon, <2>1, <3>1
  <2>3. o.errcode = "ok" /\ o.val = <<idx>> /\ o.handles = [deviceHandles EXCEPT ![<<idx>>] = d]
    BY <2>2 DEF Done
  <2>4. <<idx>> \in DeviceHandles
    <3>1. idx \in 0 .. MAX_DEVICES - 1
      BY <2>1, DriverCallsAssumption
    <3> QED
      BY Zenon, <3>1 DEF DeviceHandles
  <2>5. <<idx>> \in Handles /\ d # Null
    BY Zenon, <2>4, DriverCallsAssumption DEF DeviceHandles, Handles, Null
  <2>6. /\ o.handles \in [Handles -> Devices \cup {Null}] /\ o.handles[<<idx>>] = d
        /\ \A h \in Handles : deviceHandles[h] # Null => o.handles[h] # Null
    BY Zenon, <2>3, <2>5 DEF CallsTyped
  <2>7. Answered(r, o) /\ ~TakesHandle(r.proc)
    BY Zenon, <2>3, <2>4, <2>5, <2>6 DEF Answered, HandleProcs, TakesHandle
  <2> QED
    BY Zenon, <2>3, <2>6, <2>7 DEF Outcome
<1> QED
  BY Zenon, <1>1, <1>2

(* driver_get_device_mig_device, *)
LEMMA OutcomeOfMigDevice ==
  ASSUME CallsTyped, NEW r, RequestOk(deviceHandles, "driver", r), r.proc = "driver_get_device_mig_device",
         NEW o \in driver_get_device_mig_device(r.args[1], r.args[2])
  PROVE  Outcome(r, o)
<1> DEFINE h == r.args[1]
           j == r.args[2]
           mig == Append(h, j)
<1>1. CASE o \in error_to_xdr("error")
  BY Zenon, <1>1, OutcomeOfError
<1>2. CASE o = Done(Null)
  <2>1. o.errcode = "ok" /\ o.val = Null /\ o.handles = deviceHandles
    BY Zenon, <1>2 DEF Done
  <2>2. Answered(r, o)
    BY Zenon, <2>1 DEF Answered, HandleProcs
  <2> QED
    BY Zenon, <2>1, <2>2 DEF Outcome, CallsTyped
<1>3. CASE ~(j >= MAX_MIG_DEVICES) /\ o = [Done(mig) EXCEPT !.handles[mig] = deviceHandles[h]]
  <2>1. h \in DeviceHandles /\ h \in Handles /\ deviceHandles[h] # Null /\ j \in Nat
    BY Zenon DEF RequestOk, DeviceHandles, Handles
  <2>2. PICK i \in 0 .. MAX_DEVICES - 1 : h = <<i>>
    BY Zenon, <2>1 DEF DeviceHandles
  <2>3. mig = <<i, j>> /\ mig # h
    <3>1. ASSUME NEW x \in Nat, NEW y \in Nat PROVE Append(<<x>>, y) = <<x, y>> /\ <<x, y>> # <<x>>
      <4>1. <<x>> \in Seq(Nat) /\ Len(<<x>>) = 1 /\ <<x, y>> \in Seq(Nat) /\ Len(<<x, y>>) = 2
        OBVIOUS
      <4> DEFINE a == Append(<<x>>, y)
                 b == <<x, y>>
      <4>2. a \in Seq(Nat) /\ Len(a) = 2 /\ a[1] = x /\ a[2] = y
        BY <4>1
      <4>3. b \in Seq(Nat) /\ Len(b) = 2 /\ b[1] = x /\ b[2] = y
        OBVIOUS
      <4>4. b # <<x>>
        BY <4>1
      <4> HIDE DEF a, b
      <4>5. \A k \in 1 .. Len(a) : a[k] = b[k]
        BY <4>2, <4>3
      <4>6. a = b
        BY Zenon, <4>2, <4>3, <4>5, SameSequence
      <4> QED
        BY Zenon, <4>4, <4>6 DEF a, b
    <3>2. i \in Nat
      BY DriverCallsAssumption
    <3> QED
      BY Zenon, <2>1, <2>2, <3>1, <3>2
  <2>4. j \in 0 .. MAX_MIG_DEVICES - 1
    BY <1>3, <2>1, DriverCallsAssumption
  <2>5. mig \in Handles
    BY <2>3, <2>4 DEF Handles
  <2> HIDE DEF mig
  <2>6. o.errcode = "ok" /\ o.val = mig /\ o.handles = [deviceHandles EXCEPT ![mig] = deviceHandles[h]]
    BY <1>3 DEF Done
  <2>7. /\ o.handles \in [Handles -> Devices \cup {Null}] /\ o.handles[mig] # Null
        /\ \A x \in Handles : deviceHandles[x] # Null => o.handles[x] # Null
        /\ o.handles[h] = deviceHandles[h]
    BY Zenon, <2>1, <2>3, <2>5, <2>6 DEF CallsTyped
  <2>8. Answered(r, o)
    BY Zenon, <2>5, <2>6, <2>7 DEF Answered, HandleProcs
  <2> QED
    BY Zenon, <2>6, <2>7, <2>8 DEF Outcome
<1> QED
  BY Zenon, <1>1, <1>2, <1>3 DEF driver_get_device_mig_device

(* driver_get_device_mig_mode_1_svc *)
LEMMA OutcomeOfMigMode ==
  ASSUME CallsTyped, NEW r, r.proc = "driver_get_device_mig_mode",
         NEW o \in driver_get_device_mig_mode_1_svc(r.args[1])
  PROVE  Outcome(r, o)
<1> DEFINE d == deviceHandles[r.args[1]]
<1>1. \E v : o = Done(v) /\ (v[1] = "ok" /\ v[2] = 1 => d \in MigDevices)
  <2>1. CASE o = Done(<<"ok", IF d \in MigDevices THEN 1 ELSE 0>>)
    BY <2>1
  <2>2. CASE \E e \in LibErrors, c \in {0, 1} : o = Done(<<e, c>>)
    BY <2>2, DriverCallsAssumption
  <2> QED
    <3>1. \/ o = Done(<<"ok", IF d \in MigDevices THEN 1 ELSE 0>>)
          \/ o \in {Done(<<e, c>>) : e \in LibErrors, c \in {0, 1}}
      BY SMT DEF driver_get_device_mig_mode_1_svc
    <3> QED
      BY SMT, <2>1, <2>2, <3>1
<1>2. PICK v : o = Done(v) /\ (v[1] = "ok" /\ v[2] = 1 => d \in MigDevices)
  BY Zenon, <1>1
<1>3. o.errcode = "ok" /\ o.val = v /\ o.handles = deviceHandles
  BY Zenon, <1>2 DEF Done
<1>4. Answered(r, o)
  BY Zenon, <1>2, <1>3 DEF Answered
<1> QED
  BY Zenon, <1>3, <1>4 DEF Outcome, CallsTyped

(* and those without a device. *)
LEMMA OutcomeOfOthers ==
  ASSUME CallsTyped, NEW r,
         NEW o, \/ r.proc = "driver_get_rm_version" /\ o \in driver_get_rm_version
                \/ r.proc = "driver_get_cuda_version" /\ o \in driver_get_cuda_version
                \/ r.proc = "driver_get_device_count" /\ o \in driver_get_device_count
  PROVE  Outcome(r, o)
<1>1. CASE o \in error_to_xdr("error")
  BY Zenon, <1>1, OutcomeOfError
<1>2. CASE o \notin error_to_xdr("error")
  <2>1. \E v : /\ o = Done(v)
               /\ r.proc = "driver_get_rm_version" => v = <<"rm">>
               /\ r.proc = "driver_get_cuda_version" => v \in {<<9, 2>>, <<11, 4>>}
               /\ r.proc = "driver_get_device_count" => v \in Nat
    <3>1. CASE r.proc = "driver_get_rm_version"
      BY Zenon, <1>2, <3>1 DEF driver_get_rm_version, call_xdxml
    <3>2. CASE r.proc = "driver_get_cuda_version"
      <4>1. \E v \in {9020, 11040} : o = Done(<<v \div 1000, (v % 100) \div 10>>)
        <5>1. o \in {Done(<<v \div 1000, (v % 100) \div 10>>) : v \in {9020, 11040}}
          BY SMT, <1>2, <3>2 DEF driver_get_cuda_version, call_xdxml
        <5> QED
          BY SMT, <5>1
      <4>2. \A v \in {9020, 11040} : <<v \div 1000, (v % 100) \div 10>> \in {<<9, 2>>, <<11, 4>>}
        OBVIOUS
      <4> QED
        BY SMT, <3>2, <4>1, <4>2
    <3>3. CASE r.proc = "driver_get_device_count"
      <4>1. Len(enumeration) \in Nat
        BY DEF CallsTyped
      <4> QED
        BY Zenon, <1>2, <3>3, <4>1 DEF driver_get_device_count, call_xdxml
    <3> QED
      BY Zenon, <3>1, <3>2, <3>3
  <2>2. PICK v : /\ o = Done(v)
                 /\ r.proc = "driver_get_rm_version" => v = <<"rm">>
                 /\ r.proc = "driver_get_cuda_version" => v \in {<<9, 2>>, <<11, 4>>}
                 /\ r.proc = "driver_get_device_count" => v \in Nat
    BY Zenon, <2>1
  <2>3. o.errcode = "ok" /\ o.val = v /\ o.handles = deviceHandles
    BY Zenon, <2>2 DEF Done
  <2>4. Answered(r, o) /\ ~TakesHandle(r.proc)
    BY Zenon, <2>2, <2>3 DEF Answered, HandleProcs, TakesHandle
  <2> QED
    BY Zenon, <2>3, <2>4 DEF Outcome, CallsTyped
<1> QED
  BY Zenon, <1>1, <1>2

(* So every request of the driver has such an outcome. *)
LEMMA DriverOutcomes ==
  ASSUME CallsTyped, NEW r, RequestOk(deviceHandles, "driver", r), NEW o \in DriverLocal(r.proc, r.args)
  PROVE  Outcome(r, o)
<1>1. r.proc \in DriverProcs
  BY Zenon DEF RequestOk
<1>2. CASE r.proc = "driver_get_device"
  <2>1. DriverLocal(r.proc, r.args) = driver_get_device(r.args[1])
    BY Zenon, <1>2 DEF DriverLocal
  <2> QED
    BY Zenon, <1>2, <2>1, OutcomeOfDevice DEF RequestOk
<1>3. CASE r.proc = "driver_get_device_mig_device"
  <2>1. DriverLocal(r.proc, r.args) = driver_get_device_mig_device(r.args[1], r.args[2])
    BY Zenon, <1>3 DEF DriverLocal
  <2> QED
    BY Zenon, <1>3, <2>1, OutcomeOfMigDevice
<1>4. CASE r.proc = "driver_get_device_mig_mode"
  <2>1. DriverLocal(r.proc, r.args) = driver_get_device_mig_mode_1_svc(r.args[1])
    BY Zenon, <1>4 DEF DriverLocal
  <2> QED
    BY Zenon, <1>4, <2>1, OutcomeOfMigMode
<1>5. CASE r.proc \in {"driver_get_rm_version", "driver_get_cuda_version", "driver_get_device_count"}
  <2>1. /\ r.proc = "driver_get_rm_version" => DriverLocal(r.proc, r.args) = driver_get_rm_version
        /\ r.proc = "driver_get_cuda_version" => DriverLocal(r.proc, r.args) = driver_get_cuda_version
        /\ r.proc = "driver_get_device_count" => DriverLocal(r.proc, r.args) = driver_get_device_count
    BY Zenon DEF DriverLocal
  <2> QED
    BY Zenon, <1>5, <2>1, OutcomeOfOthers
<1>6. CASE r.proc \in HandleProcs \ {"driver_get_device_mig_mode"}
  <2>1. DriverLocal(r.proc, r.args) = Attribute(r.proc, r.args[1])
    BY <1>6 DEF DriverLocal, HandleProcs, driver_get_device_minor, driver_get_device_busid,
       driver_get_device_uuid, driver_get_device_model, driver_get_device_brand, driver_get_device_arch,
       driver_get_device_max_mig_device_count, driver_get_device_gpu_instance_id,
       driver_get_device_compute_instance_id
  <2> QED
    BY Zenon, <1>6, <2>1, OutcomeOfAttribute
<1> QED
  BY Zenon, <1>1, <1>2, <1>3, <1>4, <1>5, <1>6 DEF DriverProcs
-----------------------------------------------------------------------------
(* The service takes the first request and answers it. *)
LEMMA CurrentDispatched ==
  ASSUME NEW c, NEW handles, NEW reqs, NEW reps, Current(c, handles, reqs, reps),
         Sequence(reqs), Sequence(reps), reqs # <<>>,
         NEW m, m.xid = reqs[1].xid,
         NEW after, TakesHandle(Head(c.plan)) => after[c.h] = handles[c.h],
         reqs[1] = Stub(Head(c.plan), ArgsFor(Head(c.plan), c), c.xid) /\ Successful(m) =>
           Truthful(c, after, Head(c.plan), m.res.val)
  PROVE  Current(c, after, Tail(reqs), Append(reps, m))
<1> DEFINE p == Head(c.plan)
           n == Len(reqs)
           l == Len(reps)
<1>1. /\ n \in Nat /\ n # 0 /\ Len(Tail(reqs)) = n - 1 /\ Sequence(Tail(reqs))
      /\ \A k \in 1 .. n - 1 : Tail(reqs)[k] = reqs[k + 1]
  BY SequenceFacts
<1>2. /\ l \in Nat /\ Len(Append(reps, m)) = l + 1
      /\ \A k \in 1 .. l : Append(reps, m)[k] = reps[k]
      /\ Append(reps, m)[l + 1] = m
  BY SequenceFacts, AppendFacts
<1>3. \A k \in 1 .. l : reps[k].xid # c.xid
  BY Zenon DEF Current
<1>4. \A k \in 1 .. l + 1 : Append(reps, m)[k].xid = c.xid => k = l + 1 /\ m.xid = c.xid
  <2>1. \A k \in 1 .. l + 1 : k \in 1 .. l \/ k = l + 1
    BY <1>2
  <2> QED
    BY Zenon, <1>2, <1>3, <2>1
<1>5. /\ p \in DriverProcs \cup NvcgoProcs
      /\ TakesHandle(p) => c.h \in Handles /\ c.of # Null /\ after[c.h] = c.of
      /\ p = "driver_get_device_mig_device" => c.h \in DeviceHandles
  BY Zenon DEF Current
<1>6. 1 \in 1 .. n
  BY <1>1
<1>7. CASE reqs[1].xid = c.xid
  <2>1. n = 1 /\ reqs[1] = Stub(p, ArgsFor(p, c), c.xid)
    BY Zenon, <1>6, <1>7 DEF Current
  <2>5. Len(Tail(reqs)) = 0
    BY <1>1, <2>1
  <2>2. Tail(reqs) = <<>>
    BY Zenon, <1>1, <2>5, SequenceFacts
  <2>3. \A k \in 1 .. l + 1 : Append(reps, m)[k].xid = c.xid =>
          Tail(reqs) = <<>> /\ (Successful(Append(reps, m)[k]) => Truthful(c, after, p, Append(reps, m)[k].res.val))
    BY Zenon, <1>2, <1>4, <2>1, <2>2
  <2>4. 1 .. Len(Tail(reqs)) = {}
    <3>1. 1 .. 0 = {}
      OBVIOUS
    <3> QED
      BY Zenon, <2>5, <3>1
  <2> QED
    BY Zenon, <1>2, <1>5, <2>3, <2>4 DEF Current
<1>8. CASE reqs[1].xid # c.xid
  <2>1. ~TakesHandle(p)
    BY Zenon, <1>6, <1>8 DEF Current
  <2>2. ASSUME NEW k \in 1 .. n - 1, Tail(reqs)[k].xid = c.xid
        PROVE  k = n - 1 /\ Tail(reqs)[k] = Stub(p, ArgsFor(p, c), c.xid)
    <3>1. Tail(reqs)[k] = reqs[k + 1] /\ k + 1 \in 1 .. n
      BY <1>1
    <3>2. k + 1 = n /\ reqs[k + 1] = Stub(p, ArgsFor(p, c), c.xid)
      BY Zenon, <2>2, <3>1 DEF Current
    <3>3. k = n - 1
      BY <3>2
    <3> QED
      BY Zenon, <3>1, <3>2, <3>3
  <2>3. \A k \in 1 .. l + 1 : Append(reps, m)[k].xid # c.xid
    BY Zenon, <1>4, <1>8
  <2> QED
    BY Zenon, <1>1, <1>2, <1>5, <2>1, <2>2, <2>3 DEF Current
<1> QED
  BY Zenon, <1>7, <1>8

(* For a call of nvcgo the handles do not matter. *)
LEMMA CurrentOfNvcgo ==
  ASSUME NEW c, NEW handles, NEW reqs, NEW reps, Current(c, handles, reqs, reps),
         Program(Head(c.plan)) = "nvcgo", NEW after
  PROVE  Current(c, after, reqs, reps)
<1>1. Head(c.plan) \in NvcgoProcs /\ ~TakesHandle(Head(c.plan)) /\ Head(c.plan) \notin DriverProcs
  BY Zenon, Procedures DEF Current, TakesHandle, DriverProcs
<1>2. \A v : Truthful(c, handles, Head(c.plan), v) => Truthful(c, after, Head(c.plan), v)
  BY Zenon, <1>1 DEF Truthful, DriverProcs
<1> QED
  BY Zenon, <1>1, <1>2 DEF Current

(* The client, and what it has, is left alone. *)
LEMMA ClientKept ==
  ASSUME InfoInv, ResultInv, UNCHANGED <<client, gpus, strings, wsl>>
  PROVE  InfoInv' /\ ResultInv'
<1>1. InfoInv'
  BY Zenon DEF InfoInv, Waiting
<1>2. ResultInv'
  BY Zenon DEF ResultInv
<1> QED
  BY Zenon, <1>1, <1>2

(* Requests stay well-formed while handles are filled and never emptied. *)
LEMMA RequestKept ==
  ASSUME NEW handles, NEW after, \A h \in Handles : handles[h] # Null => after[h] # Null,
         NEW s, NEW r, RequestOk(handles, s, r)
  PROVE  RequestOk(after, s, r)
<1>1. DeviceHandles \subseteq Handles
  BY Zenon DEF DeviceHandles, Handles
<1> QED
  BY Zenon, <1>1 DEF RequestOk

(* The answer to the call that waits is the one its procedure gives. *)
LEMMA AnswerIsTrue ==
  ASSUME NEW c, NEW reqs, NEW reps, NEW p \in DriverProcs, p = Head(c.plan),
         Current(c, deviceHandles, reqs, reps),
         NEW r, r = Stub(p, ArgsFor(p, c), c.xid),
         NEW o, Answered(r, o)
  PROVE  Truthful(c, o.handles, p, o.val)
<1>1. Program(p) = "driver" /\ p \notin NvcgoProcs
  BY Zenon, Procedures
<1>2. r.proc = p /\ r.args = ArgsFor(p, c)
  BY Zenon, <1>1 DEF Stub, DriverStub
<1>3. TakesHandle(p) => c.of = deviceHandles[c.h]
  BY Zenon DEF Current
<1>4. p = "driver_get_device" => r.args[1] = c.i
  BY <1>2, Arguments
<1>5. p \in HandleProcs => r.args[1] = c.h
  BY <1>2, Arguments
<1>6. p \in HandleProcs => c.of = deviceHandles[r.args[1]]
  BY Zenon, <1>3, <1>5 DEF TakesHandle
<1>7. p = "driver_get_device_mig_mode" => p \in HandleProcs
  BY Zenon DEF HandleProcs
<1>8. \/ p \notin HandleProcs
      \/ deviceHandles[r.args[1]] = c.of
  BY Zenon, <1>6
<1>9. p \in HandleProcs \ {"driver_get_device_mig_mode"} => o.val = <<p, c.of>>
  BY Zenon, <1>2, <1>8 DEF Answered
<1>10. p = "driver_get_device_mig_mode" => (o.val[1] = "ok" /\ o.val[2] = 1 => c.of \in MigDevices)
  BY Zenon, <1>2, <1>7, <1>8 DEF Answered
<1>11. p = "driver_get_device" => o.val = <<c.i>> /\ o.val \in DeviceHandles /\ o.handles[o.val] # Null
  BY Zenon, <1>2, <1>4 DEF Answered
<1>12. /\ p = "driver_get_device_count" => o.val \in Nat
       /\ p = "driver_get_device_mig_device" => o.val = Null \/ (o.val \in Handles /\ o.handles[o.val] # Null)
       /\ p = "driver_get_rm_version" => o.val = <<"rm">>
       /\ p = "driver_get_cuda_version" => o.val \in {<<9, 2>>, <<11, 4>>}
  BY Zenon, <1>2 DEF Answered
<1> QED
  BY Zenon, <1>1, <1>9, <1>10, <1>11, <1>12 DEF Truthful

(* What the dispatcher of a service does: one outcome of the procedure is  *)
(* answered to the first request.                                          *)
Dispatched(s, o) ==
  LET m == [xid |-> requests[s][1].xid, stat |-> IF Encodable(o) THEN "ok" ELSE "system",
            res |-> [errcode |-> o.errcode, val |-> o.val]] IN
  /\ requests[s] # <<>>
  /\ requests' = [requests EXCEPT ![s] = Tail(requests[s])]
  /\ replies' = [replies EXCEPT ![s] = Append(replies[s], m)]
  /\ deviceHandles' = o.handles
  /\ UNCHANGED <<enumeration, client, gpus, strings, wsl>>

(* Such a step keeps the invariant. *)
LEMMA DispatchedStep ==
  ASSUME CallsInv, NEW s \in Services, NEW o, Dispatched(s, o),
         o.errcode # "none", o.handles \in [Handles -> Devices \cup {Null}],
         \A h \in Handles : deviceHandles[h] # Null => o.handles[h] # Null,
         s = "nvcgo" => o.handles = deviceHandles,
         Waiting /\ s = Source =>
           /\ TakesHandle(Head(client.plan)) => o.handles[client.h] = deviceHandles[client.h]
           /\ requests[s][1] = Stub(Head(client.plan), ArgsFor(Head(client.plan), client), client.xid)
                /\ o.errcode = "ok" => Truthful(client, o.handles, Head(client.plan), o.val)
  PROVE  CallsInv'
<1> DEFINE m == [xid |-> requests[s][1].xid, stat |-> IF Encodable(o) THEN "ok" ELSE "system",
                 res |-> [errcode |-> o.errcode, val |-> o.val]]
<1>1. m.xid = requests[s][1].xid /\ m.res.errcode = o.errcode /\ m.res.val = o.val
  BY Zenon
<1>2. /\ requests[s] # <<>> /\ deviceHandles' = o.handles
      /\ requests' = [requests EXCEPT ![s] = Tail(requests[s])]
      /\ replies' = [replies EXCEPT ![s] = Append(replies[s], m)]
      /\ UNCHANGED <<enumeration, client, gpus, strings, wsl>>
  BY Zenon DEF Dispatched
<1> HIDE DEF m
<1>3. /\ requests = [t \in Services |-> requests[t]] /\ replies = [t \in Services |-> replies[t]]
      /\ \A t \in Services : Sequence(requests[t]) /\ Sequence(replies[t])
  BY Zenon DEF CallsInv, CallsTyped
<1>4. /\ requests'[s] = Tail(requests[s]) /\ replies'[s] = Append(replies[s], m)
      /\ \A t \in Services \ {s} : requests'[t] = requests[t] /\ replies'[t] = replies[t]
      /\ requests' = [t \in Services |-> requests'[t]] /\ replies' = [t \in Services |-> replies'[t]]
  BY Zenon, <1>2, <1>3
<1>5. /\ Len(requests[s]) \in Nat /\ Len(requests[s]) # 0
      /\ Sequence(Tail(requests[s])) /\ Len(Tail(requests[s])) = Len(requests[s]) - 1
      /\ \A k \in 1 .. Len(requests[s]) - 1 : Tail(requests[s])[k] = requests[s][k + 1]
  BY <1>2, <1>3, SequenceFacts
<1>6. /\ Len(replies[s]) \in Nat /\ Sequence(Append(replies[s], m)) /\ Len(Append(replies[s], m)) = Len(replies[s]) + 1
      /\ \A k \in 1 .. Len(replies[s]) : Append(replies[s], m)[k] = replies[s][k]
      /\ Append(replies[s], m)[Len(replies[s]) + 1] = m
  BY <1>3, SequenceFacts, AppendFacts
<1>7. CallsTyped'
  <2>1. \A t \in Services : Sequence(requests'[t]) /\ Sequence(replies'[t])
    BY Zenon, <1>3, <1>4, <1>5, <1>6
  <2> QED
    BY Zenon, <1>2, <1>4, <2>1 DEF CallsInv, CallsTyped
<1>8. MessagesInv'
  <2>1. \A t \in Services : \A k \in 1 .. Len(requests[t]) : RequestOk(deviceHandles', t, requests[t][k])
    BY Zenon, <1>2, RequestKept DEF CallsInv, MessagesInv
  <2>2. \A k \in 1 .. Len(Tail(requests[s])) : RequestOk(deviceHandles', s, Tail(requests[s])[k])
    <3>1. \A k \in 1 .. Len(Tail(requests[s])) : k \in 1 .. Len(requests[s]) - 1 /\ k + 1 \in 1 .. Len(requests[s])
      BY <1>5
    <3> QED
      BY Zenon, <1>5, <2>1, <3>1
  <2>3. ReplyOk(m)
    <3>1. requests[s][1].xid \in Nat
      <4>1. 1 \in 1 .. Len(requests[s])
        BY <1>5
      <4> QED
        BY Zenon, <4>1 DEF CallsInv, MessagesInv, RequestOk
    <3> QED
      BY Zenon, <1>1, <3>1 DEF ReplyOk
  <2>4. \A k \in 1 .. Len(Append(replies[s], m)) : ReplyOk(Append(replies[s], m)[k])
    <3>1. \A k \in 1 .. Len(Append(replies[s], m)) : k \in 1 .. Len(replies[s]) \/ k = Len(replies[s]) + 1
      BY <1>6
    <3>2. \A k \in 1 .. Len(replies[s]) : ReplyOk(replies[s][k])
      BY Zenon DEF CallsInv, MessagesInv
    <3> QED
      BY Zenon, <1>6, <2>3, <3>1, <3>2
  <2>5. ASSUME NEW t \in Services
        PROVE  /\ \A k \in 1 .. Len(requests'[t]) : RequestOk(deviceHandles', t, requests'[t][k])
               /\ \A k \in 1 .. Len(replies'[t]) : ReplyOk(replies'[t][k])
    <3>1. CASE t = s
      BY Zenon, <1>4, <2>2, <2>4, <3>1
    <3>2. CASE t # s
      BY Zenon, <1>4, <2>1, <3>2 DEF CallsInv, MessagesInv
    <3> QED
      BY Zenon, <3>1, <3>2
  <2> QED
    BY Zenon, <2>5 DEF MessagesInv
<1>9. CurrentInv'
  <2> SUFFICES ASSUME Waiting
               PROVE  Current(client, deviceHandles', requests'[Source], replies'[Source])
    BY Zenon, <1>2 DEF CurrentInv, Waiting, Source
  <2>1. Current(client, deviceHandles, requests[Source], replies[Source])
    BY Zenon DEF CallsInv, CurrentInv
  <2>2. CASE s = Source
    <3>1. Successful(m) => o.errcode = "ok"
      BY Zenon, <1>1 DEF Successful
    <3>2. Current(client, o.handles, Tail(requests[s]), Append(replies[s], m))
      BY Zenon, <1>1, <1>2, <1>3, <2>1, <2>2, <3>1, CurrentDispatched
    <3> QED
      BY Zenon, <1>2, <1>4, <2>2, <3>2
  <2>3. CASE s # Source
    <3>1. Source \in Services
      BY Zenon DEF Source, Program, Services
    <3>2. requests'[Source] = requests[Source] /\ replies'[Source] = replies[Source]
      BY Zenon, <1>4, <2>3, <3>1
    <3>3. CASE Source = "nvcgo"
      BY Zenon, <2>1, <3>2, <3>3, CurrentOfNvcgo DEF Source
    <3>4. CASE Source = "driver"
      BY Zenon, <1>2, <2>1, <2>3, <3>2, <3>4 DEF Services
    <3> QED
      BY Zenon, <3>1, <3>3, <3>4 DEF Services
  <2> QED
    BY Zenon, <2>2, <2>3
<1> QED
  BY Zenon, <1>2, <1>7, <1>8, <1>9, ClientKept DEF CallsInv

(* The driver service reads a request. *)
LEMMA DriverStep ==
  ASSUME CallsInv, driver_program_1
  PROVE  CallsInv'
<1> DEFINE r == Head(requests["driver"])
           p == Head(client.plan)
<1>1. requests["driver"] # <<>> /\ "driver" \in Services
  BY Zenon DEF driver_program_1, Services
<1>2. r = requests["driver"][1] /\ Len(requests["driver"]) \in Nat /\ Len(requests["driver"]) # 0
  BY <1>1, SequenceFacts DEF CallsInv, CallsTyped
<1>3. RequestOk(deviceHandles, "driver", r)
  <2>1. 1 \in 1 .. Len(requests["driver"])
    BY <1>2
  <2> QED
    BY Zenon, <1>1, <1>2, <2>1 DEF CallsInv, MessagesInv
<1>4. PICK o \in DriverLocal(r.proc, r.args) : Dispatched("driver", o)
  <2>1. r.shape = DriverArguments(r.proc)
    BY Zenon, <1>3 DEF RequestOk
  <2> QED
    BY Zenon, <1>1, <1>2, <2>1 DEF driver_program_1, Dispatch, Dispatched
<1> HIDE DEF r
<1>5. Outcome(r, o)
  BY Zenon, <1>3, DriverOutcomes DEF CallsInv
<1>6. ASSUME Waiting, Source = "driver"
      PROVE  /\ TakesHandle(p) => o.handles[client.h] = deviceHandles[client.h]
             /\ r = Stub(p, ArgsFor(p, client), client.xid) /\ o.errcode = "ok" => Truthful(client, o.handles, p, o.val)
  <2> USE <1>6
  <2>1. Current(client, deviceHandles, requests["driver"], replies["driver"])
    BY Zenon DEF CallsInv, CurrentInv
  <2>2. p \in DriverProcs
    BY Zenon, <2>1, Procedures DEF Current, Source
  <2>3. r = Stub(p, ArgsFor(p, client), client.xid) /\ o.errcode = "ok" => Truthful(client, o.handles, p, o.val)
    <3> SUFFICES ASSUME r = Stub(p, ArgsFor(p, client), client.xid), o.errcode = "ok"
                 PROVE  Truthful(client, o.handles, p, o.val)
      OBVIOUS
    <3>1. Answered(r, o)
      BY Zenon, <1>5 DEF Outcome
    <3> HIDE DEF p
    <3> QED
      BY Zenon, <2>1, <2>2, <3>1, AnswerIsTrue DEF p
  <2>4. ASSUME TakesHandle(p)
        PROVE  o.handles[client.h] = deviceHandles[client.h]
    <3>1. 1 \in 1 .. Len(requests["driver"])
      BY <1>2
    <3>2. r = Stub(p, ArgsFor(p, client), client.xid)
      BY Zenon, <1>2, <2>1, <2>4, <3>1 DEF Current
    <3>3. r.proc = p /\ r.args = ArgsFor(p, client)
      BY Zenon, <2>2, <3>2, Procedures DEF Stub, DriverStub
    <3>4. r.args[1] = client.h
      BY <2>2, <2>4, <3>3, Arguments DEF TakesHandle
    <3> QED
      BY Zenon, <1>5, <2>4, <3>3, <3>4 DEF Outcome
  <2> QED
    BY Zenon, <2>3, <2>4
<1>7. o.errcode # "none"
  BY Zenon, <1>5 DEF Outcome
<1>8. /\ o.handles \in [Handles -> Devices \cup {Null}]
      /\ \A h \in Handles : deviceHandles[h] # Null => o.handles[h] # Null
  BY Zenon, <1>5 DEF Outcome
<1> QED
  BY Zenon, <1>1, <1>2, <1>4, <1>6, <1>7, <1>8, DispatchedStep

(* The nvcgo service reads a request. *)
LEMMA NvcgoStep ==
  ASSUME CallsInv, nvcgo_program_1
  PROVE  CallsInv'
<1> DEFINE r == Head(requests["nvcgo"])
           p == Head(client.plan)
<1>1. requests["nvcgo"] # <<>> /\ "nvcgo" \in Services
  BY Zenon DEF nvcgo_program_1, Services
<1>2. r = requests["nvcgo"][1] /\ Len(requests["nvcgo"]) \in Nat /\ Len(requests["nvcgo"]) # 0
  BY <1>1, SequenceFacts DEF CallsInv, CallsTyped
<1>3. RequestOk(deviceHandles, "nvcgo", r)
  <2>1. 1 \in 1 .. Len(requests["nvcgo"])
    BY <1>2
  <2> QED
    BY Zenon, <1>1, <1>2, <2>1 DEF CallsInv, MessagesInv
<1>4. PICK o \in NvcgoLocal(r.proc) : Dispatched("nvcgo", o)
  <2>1. r.shape = NvcgoArguments(r.proc)
    BY Zenon, <1>3 DEF RequestOk
  <2> QED
    BY Zenon, <1>1, <1>2, <2>1 DEF nvcgo_program_1, Dispatch, Dispatched
<1> HIDE DEF r
<1>5. /\ o.errcode \in {"ok", "error", "nomem"} /\ o.handles = deviceHandles
      /\ o.errcode = "ok" => o.val = <<r.proc>>
  BY DEF NvcgoLocal, error_to_xdr, Done
<1>6. ASSUME Waiting, Source = "nvcgo"
      PROVE  r = Stub(p, ArgsFor(p, client), client.xid) /\ o.errcode = "ok" => Truthful(client, o.handles, p, o.val)
  <2> USE <1>6
  <2>1. Current(client, deviceHandles, requests["nvcgo"], replies["nvcgo"])
    BY Zenon DEF CallsInv, CurrentInv
  <2>2. p \in NvcgoProcs /\ p \notin DriverProcs
    BY Zenon, <2>1, Procedures DEF Current, Source
  <2> SUFFICES ASSUME r = Stub(p, ArgsFor(p, client), client.xid), o.errcode = "ok"
               PROVE  Truthful(client, o.handles, p, o.val)
    OBVIOUS
  <2>3. r.proc = p
    BY Zenon, <1>6 DEF Stub, NvcgoStub, Source
  <2>4. p # "driver_get_device_mig_mode" /\ p \notin HandleProcs
    BY Zenon, <2>2 DEF DriverProcs, HandleProcs
  <2>5. /\ p # "driver_get_device_count" /\ p # "driver_get_device" /\ p # "driver_get_device_mig_device"
        /\ p # "driver_get_rm_version" /\ p # "driver_get_cuda_version"
    BY Zenon, <2>2 DEF DriverProcs
  <2> QED
    BY Zenon, <1>5, <2>3, <2>4, <2>5 DEF Truthful
<1>7. o.errcode # "none"
  BY Zenon, <1>5
<1>8. /\ o.handles \in [Handles -> Devices \cup {Null}]
      /\ \A h \in Handles : deviceHandles[h] # Null => o.handles[h] # Null
  BY Zenon, <1>5 DEF CallsInv, CallsTyped
<1> QED
  BY Zenon, <1>1, <1>2, <1>4, <1>5, <1>6, <1>7, <1>8, DispatchedStep

-----------------------------------------------------------------------------
(* Steps that send nothing. *)
LEMMA ChangesStep ==
  ASSUME CallsInv, EnumerationChanges
  PROVE  CallsInv'
<1>1. enumeration' \in Seq(Devices)
  BY Zenon, DriverCallsAssumption DEF EnumerationChanges
<1>2. UNCHANGED <<deviceHandles, requests, replies, client, gpus, strings, wsl>>
  BY Zenon DEF EnumerationChanges
<1>3. CallsTyped'
  BY Zenon, <1>1, <1>2 DEF CallsInv, CallsTyped
<1>4. MessagesInv'
  BY Zenon, <1>2 DEF CallsInv, MessagesInv
<1>5. CurrentInv'
  BY Zenon, <1>2 DEF CallsInv, CurrentInv, Waiting, Source
<1> QED
  BY Zenon, <1>2, <1>3, <1>4, <1>5, ClientKept DEF CallsInv

LEMMA DiesStep ==
  ASSUME CallsInv, ServiceDies
  PROVE  CallsInv'
<1>1. /\ Waiting /\ requests' = [requests EXCEPT ![Source] = <<>>]
      /\ UNCHANGED <<enumeration, deviceHandles, replies, client, gpus, strings, wsl>>
  BY Zenon DEF ServiceDies
<1>2. Source \in Services /\ requests = [s \in Services |-> requests[s]]
  BY Zenon DEF Source, Program, Services, CallsInv, CallsTyped
<1>3. /\ requests' = [s \in Services |-> requests'[s]] /\ requests'[Source] = <<>>
      /\ \A s \in Services \ {Source} : requests'[s] = requests[s]
  BY <1>1, <1>2
<1>4. Len(<<>>) = 0 /\ 1 .. Len(<<>>) = {}
  <2>1. 1 .. 0 = {}
    OBVIOUS
  <2> QED
    BY Zenon, <2>1, EmptyIsSequence
<1>5. CallsTyped'
  BY Zenon, <1>1, <1>3, EmptyIsSequence DEF CallsInv, CallsTyped
<1>6. MessagesInv'
  <2>1. \A s \in Services : \A k \in 1 .. Len(requests'[s]) : RequestOk(deviceHandles, s, requests'[s][k])
    <3> SUFFICES ASSUME NEW s \in Services, NEW k \in 1 .. Len(requests'[s])
                 PROVE  RequestOk(deviceHandles, s, requests'[s][k])
      OBVIOUS
    <3>1. s # Source
      BY Zenon, <1>3, <1>4
    <3> QED
      BY Zenon, <1>3, <3>1 DEF CallsInv, MessagesInv
  <2> QED
    BY Zenon, <1>1, <2>1 DEF CallsInv, MessagesInv
<1>7. CurrentInv'
  <2>1. Current(client, deviceHandles, requests[Source], replies[Source])
    BY Zenon, <1>1 DEF CallsInv, CurrentInv
  <2>2. Current(client, deviceHandles, <<>>, replies[Source])
    BY Zenon, <1>4, <2>1 DEF Current
  <2>3. Source' = Source
    BY Zenon, <1>1 DEF Source
  <2> QED
    BY Zenon, <1>1, <1>3, <2>2, <2>3 DEF CurrentInv
<1> QED
  BY Zenon, <1>1, <1>5, <1>6, <1>7, ClientKept DEF CallsInv

(* The first answer is read. *)
LEMMA AnswerRead ==
  ASSUME CallsInv, NEW s \in Services, replies[s] # <<>>,
         replies' = [replies EXCEPT ![s] = Tail(@)]
  PROVE  /\ replies' = [t \in Services |-> replies'[t]] /\ replies'[s] = Tail(replies[s])
         /\ \A t \in Services : Sequence(replies'[t])
         /\ \A t \in Services : \A k \in 1 .. Len(replies'[t]) :
              ReplyOk(replies'[t][k]) /\ \E l \in 1 .. Len(replies[t]) : replies'[t][k] = replies[t][l]
<1>1. replies = [t \in Services |-> replies[t]] /\ \A t \in Services : Sequence(replies[t])
  BY Zenon DEF CallsInv, CallsTyped
<1>2. /\ replies' = [t \in Services |-> replies'[t]] /\ replies'[s] = Tail(replies[s])
      /\ \A t \in Services \ {s} : replies'[t] = replies[t]
  BY Zenon, <1>1
<1>3. /\ Len(replies[s]) \in Nat /\ Sequence(Tail(replies[s])) /\ Len(Tail(replies[s])) = Len(replies[s]) - 1
      /\ \A k \in 1 .. Len(replies[s]) - 1 : Tail(replies[s])[k] = replies[s][k + 1]
  BY <1>1, SequenceFacts
<1>4. \A t \in Services : Sequence(replies'[t])
  BY Zenon, <1>1, <1>2, <1>3
<1>5. ASSUME NEW t \in Services, NEW k \in 1 .. Len(replies'[t])
      PROVE  \E l \in 1 .. Len(replies[t]) : replies'[t][k] = replies[t][l]
  <2>1. CASE t = s
    <3>1. k \in 1 .. Len(Tail(replies[s]))
      BY Zenon, <1>2, <2>1
    <3>2. k \in 1 .. Len(replies[s]) - 1 /\ k + 1 \in 1 .. Len(replies[s])
      BY <1>3, <3>1
    <3> QED
      BY Zenon, <1>2, <1>3, <2>1, <3>2
  <2>2. CASE t # s
    BY Zenon, <1>2, <2>2
  <2> QED
    BY Zenon, <2>1, <2>2
<1>6. \A t \in Services : \A k \in 1 .. Len(replies'[t]) : ReplyOk(replies'[t][k])
  BY Zenon, <1>5 DEF CallsInv, MessagesInv
<1> QED
  BY Zenon, <1>2, <1>4, <1>5, <1>6

LEMMA LateStep ==
  ASSUME CallsInv, PassLate
  PROVE  CallsInv'
<1>1. /\ Waiting /\ replies[Source] # <<>> /\ replies' = [replies EXCEPT ![Source] = Tail(@)]
      /\ UNCHANGED <<enumeration, deviceHandles, requests, client, gpus, strings, wsl>>
  BY Zenon DEF PassLate
<1>2. Source \in Services /\ Source' = Source
  BY Zenon, <1>1 DEF Source, Program, Services
<1>3. /\ replies' = [t \in Services |-> replies'[t]] /\ replies'[Source] = Tail(replies[Source])
      /\ \A t \in Services : Sequence(replies'[t])
      /\ \A t \in Services : \A k \in 1 .. Len(replies'[t]) :
           ReplyOk(replies'[t][k]) /\ \E l \in 1 .. Len(replies[t]) : replies'[t][k] = replies[t][l]
  BY Zenon, <1>1, <1>2, AnswerRead
<1>4. CallsTyped'
  BY Zenon, <1>1, <1>3 DEF CallsInv, CallsTyped
<1>5. MessagesInv'
  BY Zenon, <1>1, <1>3 DEF CallsInv, MessagesInv
<1>6. CurrentInv'
  <2>1. Current(client, deviceHandles, requests[Source], replies[Source])
    BY Zenon, <1>1 DEF CallsInv, CurrentInv
  <2>2. Current(client, deviceHandles, requests[Source], replies'[Source])
    BY Zenon, <1>2, <1>3, <2>1 DEF Current
  <2> QED
    BY Zenon, <1>1, <1>2, <2>2 DEF CurrentInv
<1> QED
  BY Zenon, <1>1, <1>4, <1>5, <1>6, ClientKept DEF CallsInv

(* Nothing is left in an information structure that was freed. *)
LEMMA NothingInNothing ==
  StringsIn(<<>>) = 0
<1>1. DOMAIN <<>> = {}
  OBVIOUS
<1>2. {x \in (DOMAIN <<>>) \X (DOMAIN NoGpu) : <<>>[x[1]][x[2]] # Null} = {}
  BY <1>1
<1> QED
  BY Zenon, <1>2, FS_EmptySet DEF StringsIn

(* The strings of an information structure. *)
StringsOfInfo(gs) == {x \in (DOMAIN gs) \X Fields : gs[x[1]][x[2]] # Null}

LEMMA StringsAreCounted ==
  ASSUME NEW gs, Sequence(gs)
  PROVE  /\ StringsIn(gs) = Cardinality(StringsOfInfo(gs)) /\ IsFiniteSet(StringsOfInfo(gs))
         /\ StringsIn(gs) \in Nat
<1>1. DOMAIN NoGpu = Fields
  BY DEF NoGpu, Fields
<1>2. StringsIn(gs) = Cardinality(StringsOfInfo(gs))
  BY SMT, <1>1 DEF StringsIn, StringsOfInfo
<1>3. IsFiniteSet(DOMAIN gs)
  BY SequenceFacts, FS_Interval
<1>4. IsFiniteSet(Fields)
  <2>1. IsFiniteSet({"model"}) /\ IsFiniteSet({"busid"}) /\ IsFiniteSet({"uuid"}) /\ IsFiniteSet({"node"})
    BY Zenon, FS_Singleton
  <2>2. IsFiniteSet({"model"} \cup {"busid"}) /\ IsFiniteSet({"uuid"} \cup {"node"})
    BY Zenon, <2>1, FS_Union
  <2>3. IsFiniteSet(({"model"} \cup {"busid"}) \cup ({"uuid"} \cup {"node"}))
    BY Zenon, <2>2, FS_Union
  <2>4. Fields = ({"model"} \cup {"busid"}) \cup ({"uuid"} \cup {"node"})
    BY Zenon DEF Fields
  <2> QED
    BY Zenon, <2>3, <2>4
<1>5. IsFiniteSet((DOMAIN gs) \X Fields)
  BY Zenon, <1>3, <1>4, FS_Product
<1>6. StringsOfInfo(gs) \subseteq (DOMAIN gs) \X Fields
  BY SMT DEF StringsOfInfo
<1>7. IsFiniteSet(StringsOfInfo(gs))
  BY Zenon, <1>5, <1>6, FS_Subset
<1> QED
  BY Zenon, <1>2, <1>7, FS_CardinalityType

LEMMA InfoFreed ==
  ASSUME CallsInv, nvc_device_info_free
  PROVE  gpus' = <<>> /\ strings' = 0
<1>1. gpus' = <<>> /\ strings' = strings - StringsIn(gpus) /\ strings = StringsIn(gpus) /\ Sequence(gpus)
  BY Zenon DEF nvc_device_info_free, CallsInv, InfoInv
<1>2. StringsIn(gpus) \in Nat
  BY Zenon, <1>1, StringsAreCounted
<1> QED
  BY <1>1, <1>2

LEMMA FreeStep ==
  ASSUME CallsInv, FreeInfo
  PROVE  CallsInv'
<1>1. /\ ~Waiting /\ nvc_device_info_free
      /\ UNCHANGED <<enumeration, deviceHandles, requests, replies, client, wsl>>
  BY Zenon DEF FreeInfo
<1>2. gpus' = <<>> /\ strings' = StringsIn(gpus')
  BY Zenon, <1>1, InfoFreed, NothingInNothing
<1>3. ~Waiting'
  BY Zenon, <1>1 DEF Waiting
<1>4. InfoInv'
  <2>1. 1 .. 0 = {}
    OBVIOUS
  <2>2. Sequence(gpus') /\ 1 .. Len(gpus') = {}
    BY Zenon, <1>2, <2>1, EmptyIsSequence
  <2> QED
    BY Zenon, <1>2, <1>3, <2>2 DEF InfoInv
<1>5. CallsTyped' /\ ResultInv'
  BY Zenon, <1>1 DEF CallsInv, CallsTyped, ResultInv
<1>6. MessagesInv'
  BY Zenon, <1>1 DEF CallsInv, MessagesInv
<1>7. CurrentInv'
  BY Zenon, <1>3 DEF CurrentInv
<1> QED
  BY Zenon, <1>4, <1>5, <1>6, <1>7 DEF CallsInv

-----------------------------------------------------------------------------
(* A call is made. *)

(* A device that a procedure is asked about is one the service has. *)
HandleReady(c, handles, reqs) ==
  LET p == Head(c.plan) IN
  /\ TakesHandle(p) => c.h \in Handles /\ handles[c.h] # Null /\ reqs = <<>>
  /\ p = "driver_get_device_mig_device" => c.h \in DeviceHandles

LEMMA StubOk ==
  ASSUME NEW c, NEW handles, NEW reqs, HandleReady(c, handles, reqs), c.i \in Nat, c.j \in Nat,
         NEW p \in DriverProcs \cup NvcgoProcs, p = Head(c.plan), NEW x \in Nat
  PROVE  /\ RequestOk(handles, Program(p), Stub(p, ArgsFor(p, c), x))
         /\ Stub(p, ArgsFor(p, c), x).xid = x
<1> DEFINE r == Stub(p, ArgsFor(p, c), x)
<1>1. CASE p \in NvcgoProcs
  <2>1. Program(p) = "nvcgo" /\ r = NvcgoStub(p, x)
    BY Zenon, <1>1, Procedures DEF Stub
  <2> HIDE DEF r
  <2>2. r.proc = p /\ r.shape = NvcgoArguments(p) /\ r.xid = x
    BY Zenon, <2>1 DEF NvcgoStub
  <2> QED
    BY Zenon, <1>1, <2>1, <2>2 DEF RequestOk, r
<1>2. CASE p \in DriverProcs
  <2>1. Program(p) = "driver" /\ r = DriverStub(p, ArgsFor(p, c), x)
    BY Zenon, <1>2, Procedures DEF Stub
  <2> HIDE DEF r
  <2>2. r.proc = p /\ r.shape = DriverArguments(p) /\ r.xid = x /\ r.args = ArgsFor(p, c)
    BY Zenon, <2>1 DEF DriverStub
  <2>3. p = "driver_get_device" => r.args[1] \in Nat
    BY <2>2, Arguments
  <2>4. p \in HandleProcs => r.args[1] = c.h
    BY <2>2, Arguments
  <2>5. p = "driver_get_device_mig_device" => r.args[1] = c.h /\ r.args[2] \in Nat
    BY <2>2, Arguments
  <2>6. p \in HandleProcs => r.args[1] \in Handles /\ handles[r.args[1]] # Null
    BY Zenon, <2>4 DEF HandleReady, TakesHandle
  <2>7. p = "driver_get_device_mig_device" =>
          r.args[1] \in DeviceHandles /\ handles[r.args[1]] # Null /\ r.args[2] \in Nat
    BY Zenon, <2>5 DEF HandleReady, TakesHandle
  <2> QED
    BY Zenon, <1>2, <2>1, <2>2, <2>3, <2>6, <2>7 DEF RequestOk, r
<1> QED
  BY Zenon, <1>1, <1>2

(* The answers in a step are some of those before. *)
FewerReplies ==
  /\ replies' = [t \in Services |-> replies'[t]]
  /\ \A t \in Services : Sequence(replies'[t])
  /\ \A t \in Services : \A k \in 1 .. Len(replies'[t]) :
       ReplyOk(replies'[t][k]) /\ \E l \in 1 .. Len(replies[t]) : replies'[t][k] = replies[t][l]

SameOperation(d, c) ==
  /\ d.op = c.op /\ d.plan = c.plan /\ d.h = c.h /\ d.i = c.i
  /\ d.rv = c.rv /\ d.err = c.err /\ d.out = c.out

LEMMA CallMade ==
  ASSUME CallsInv, FewerReplies, UNCHANGED <<enumeration, deviceHandles, wsl>>,
         NEW c, Record(c), c.i \in Nat, c.j \in Nat, c.plan # <<>>,
         Head(c.plan) \in DriverProcs \cup NvcgoProcs,
         HandleReady(c, deviceHandles, requests[Program(Head(c.plan))]), Call(c)
  PROVE  /\ CallsTyped' /\ MessagesInv' /\ CurrentInv' /\ Waiting'
         /\ SameOperation(client', c)
         /\ c.h \in Handles => client'.of = deviceHandles[c.h]
<1> DEFINE p == Head(c.plan)
           s == Program(p)
           x == FreshXid(s)
           m == Stub(p, ArgsFor(p, c), x)
           n == Len(requests[s])
<1>1. s \in Services
  BY Zenon DEF Program, Services
<1>2. /\ x \in Nat
      /\ \A k \in 1 .. Len(requests[s]) : requests[s][k].xid # x
      /\ \A k \in 1 .. Len(replies[s]) : replies[s][k].xid # x
  BY Zenon, <1>1, FreshNumber DEF CallsInv
<1>3. RequestOk(deviceHandles, s, m) /\ m.xid = x
  BY Zenon, <1>2, StubOk
<1>4. /\ client' = [c EXCEPT !.xid = x, !.of = IF c.h \in Handles THEN deviceHandles[c.h] ELSE Null]
      /\ requests' = [requests EXCEPT ![s] = IF s \in alive THEN Append(requests[s], m) ELSE requests[s]]
  BY Zenon DEF Call
<1> HIDE DEF m, x
<1>5. Record(client)'
  BY Zenon, <1>4 DEF Record
<1>6. /\ client'.plan = c.plan /\ client'.xid = x /\ client'.h = c.h /\ client'.i = c.i /\ client'.j = c.j
      /\ client'.op = c.op /\ client'.rv = c.rv /\ client'.err = c.err /\ client'.out = c.out
      /\ client'.of = IF c.h \in Handles THEN deviceHandles[c.h] ELSE Null
  BY Zenon, <1>4 DEF Record, ClientFields
<1>7. SameOperation(client', c)
  BY Zenon, <1>6 DEF SameOperation
<1>9. /\ requests = [t \in Services |-> requests[t]] /\ Sequence(requests[s])
      /\ n \in Nat /\ Len(Append(requests[s], m)) = n + 1 /\ Sequence(Append(requests[s], m))
      /\ \A k \in 1 .. n : Append(requests[s], m)[k] = requests[s][k]
      /\ Append(requests[s], m)[n + 1] = m
  <2>1. Sequence(requests[s]) /\ requests = [t \in Services |-> requests[t]]
    BY Zenon, <1>1 DEF CallsInv, CallsTyped
  <2>2. n \in Nat
    BY Zenon, <2>1, SequenceFacts
  <2> QED
    BY <2>1, <2>2, AppendFacts
<1>10. /\ requests' = [t \in Services |-> requests'[t]]
       /\ requests'[s] = IF s \in alive THEN Append(requests[s], m) ELSE requests[s]
       /\ \A t \in Services \ {s} : requests'[t] = requests[t]
  BY Zenon, <1>1, <1>4, <1>9
<1>11. CallsTyped'
  <2>1. \A t \in Services : Sequence(requests'[t])
    BY Zenon, <1>9, <1>10 DEF CallsInv, CallsTyped
  <2> QED
    BY Zenon, <1>5, <1>6, <1>10, <2>1 DEF CallsInv, CallsTyped, FewerReplies
<1>12. \A k \in 1 .. Len(requests'[s]) :
         \/ requests'[s][k] = m /\ k = Len(requests'[s])
         \/ k \in 1 .. n /\ requests'[s][k] = requests[s][k] /\ requests'[s][k].xid # x
  <2>1. CASE s \in alive
    <3>1. requests'[s] = Append(requests[s], m)
      BY Zenon, <1>10, <2>1
    <3>2. \A k \in 1 .. n + 1 : k \in 1 .. n \/ k = n + 1
      BY <1>9
    <3> QED
      BY Zenon, <1>2, <1>9, <3>1, <3>2
  <2>2. CASE s \notin alive
    BY Zenon, <1>2, <1>10, <2>2
  <2> QED
    BY Zenon, <2>1, <2>2
<1>13. MessagesInv'
  <2>1. \A t \in Services : \A k \in 1 .. Len(requests'[t]) : RequestOk(deviceHandles, t, requests'[t][k])
    <3> SUFFICES ASSUME NEW t \in Services, NEW k \in 1 .. Len(requests'[t])
                 PROVE  RequestOk(deviceHandles, t, requests'[t][k])
      OBVIOUS
    <3>1. CASE t = s
      BY Zenon, <1>3, <1>12, <3>1 DEF CallsInv, MessagesInv
    <3>2. CASE t # s
      BY Zenon, <1>10, <3>2 DEF CallsInv, MessagesInv
    <3> QED
      BY Zenon, <3>1, <3>2
  <2> QED
    BY Zenon, <2>1 DEF MessagesInv, FewerReplies
<1>14. Waiting' /\ Source' = s
  BY Zenon, <1>6 DEF Waiting, Source
<1>15. Current(client', deviceHandles, requests'[s], replies'[s])
  <2>1. ArgsFor(p, client') = ArgsFor(p, c)
    BY Zenon, <1>6 DEF ArgsFor
  <2>2. m = Stub(p, ArgsFor(p, client'), client'.xid)
    BY Zenon, <1>6, <2>1 DEF m
  <2>3. \A k \in 1 .. Len(requests'[s]) : requests'[s][k].xid = x =>
          k = Len(requests'[s]) /\ requests'[s][k] = Stub(p, ArgsFor(p, client'), client'.xid)
    BY Zenon, <1>12, <2>2
  <2>4. \A k \in 1 .. Len(replies'[s]) : replies'[s][k].xid # x
    <3> SUFFICES ASSUME NEW k \in 1 .. Len(replies'[s])
                 PROVE  replies'[s][k].xid # x
      OBVIOUS
    <3>1. \E l \in 1 .. Len(replies[s]) : replies'[s][k] = replies[s][l]
      BY Zenon, <1>1 DEF FewerReplies
    <3> QED
      BY Zenon, <1>2, <3>1
  <2>5. ASSUME TakesHandle(p)
        PROVE  /\ c.h \in Handles /\ client'.of # Null /\ deviceHandles[c.h] = client'.of
               /\ \A k \in 1 .. Len(requests'[s]) : requests'[s][k].xid = x
    <3>1. c.h \in Handles /\ deviceHandles[c.h] # Null /\ requests[s] = <<>>
      BY Zenon, <2>5 DEF HandleReady
    <3>2. 1 .. n = {}
      <4>1. 1 .. 0 = {}
        OBVIOUS
      <4> QED
        BY Zenon, <3>1, <4>1, EmptyIsSequence
    <3> QED
      BY Zenon, <1>3, <1>6, <1>12, <3>1, <3>2
  <2>6. p = "driver_get_device_mig_device" => c.h \in DeviceHandles
    BY Zenon DEF HandleReady
  <2> QED
    BY Zenon, <1>6, <2>3, <2>4, <2>5, <2>6 DEF Current
<1>16. CurrentInv'
  BY Zenon, <1>14, <1>15 DEF CurrentInv
<1> QED
  BY Zenon, <1>6, <1>7, <1>11, <1>13, <1>14, <1>16

LEMMA RepliesKept ==
  ASSUME CallsInv, UNCHANGED replies
  PROVE  FewerReplies
BY Zenon DEF CallsInv, CallsTyped, MessagesInv, FewerReplies

(* An operation starts with a call that takes no handle. *)
LEMMA StartStep ==
  ASSUME CallsInv, NEW op, NEW plan, NEW n, NEW i \in Nat, NEW j \in Nat, Start(op, plan, n, i, j),
         plan # <<>>, Head(plan) \in DriverProcs \cup NvcgoProcs, ~TakesHandle(Head(plan)),
         \/ op = "info" /\ plan = <<"driver_get_device_count">> /\ i = 0
         \/ op # "info" /\ op \in Getters /\ plan \in QueryPlans(op)
  PROVE  CallsInv'
<1> DEFINE c == [client EXCEPT !.op = op, !.plan = plan, !.infos = n, !.i = i, !.j = j, !.rv = 0,
                               !.err = "none", !.out = Null]
<1>1. /\ gpus = <<>> /\ Call(c)
      /\ UNCHANGED <<enumeration, deviceHandles, replies, gpus, strings, wsl>>
  BY Zenon DEF Start
<1>2. Record(client)
  BY Zenon DEF CallsInv, CallsTyped
<1>3. c.op = op /\ c.plan = plan /\ c.i = i /\ c.j = j /\ c.rv = 0 /\ c.err = "none" /\ c.out = Null
  BY Zenon, <1>2 DEF Record, ClientFields
<1>4. Record(c)
  BY Zenon, <1>2 DEF Record
<1> HIDE DEF c
<1>5. HandleReady(c, deviceHandles, requests[Program(Head(c.plan))])
  BY Zenon, <1>3 DEF HandleReady, TakesHandle
<1>6. CallsTyped' /\ MessagesInv' /\ CurrentInv' /\ Waiting' /\ SameOperation(client', c)
  BY Zenon, <1>1, <1>3, <1>4, <1>5, RepliesKept, CallMade
<1>7. /\ client'.op = op /\ client'.plan = plan /\ client'.i = i /\ client'.rv = 0 /\ client'.out = Null
  BY Zenon, <1>3, <1>6 DEF SameOperation
<1>8. ResultInv'
  <2>1. 0 # -1
    OBVIOUS
  <2> QED
    BY Zenon, <1>7, <2>1 DEF ResultInv, OutTrue
<1>9. InfoInv'
  <2>1. 1 .. 0 = {}
    OBVIOUS
  <2>2. gpus' = <<>> /\ Sequence(gpus') /\ 1 .. Len(gpus') = {} /\ strings' = StringsIn(gpus')
    BY Zenon, <1>1, <2>1, EmptyIsSequence DEF CallsInv, InfoInv
  <2> QED
    BY Zenon, <1>6, <1>7, <2>2 DEF InfoInv
<1> QED
  BY Zenon, <1>6, <1>8, <1>9 DEF CallsInv

LEMMA InfoNewStep ==
  ASSUME CallsInv, nvc_device_info_new
  PROVE  CallsInv'
<1> DEFINE plan == <<"driver_get_device_count">>
<1>1. Start("info", plan, client.infos + 1, 0, 0)
  BY Zenon DEF nvc_device_info_new
<1>2. plan # <<>> /\ Head(plan) = "driver_get_device_count" /\ 0 \in Nat
  OBVIOUS
<1>3. "driver_get_device_count" \in DriverProcs /\ ~TakesHandle("driver_get_device_count")
  BY Zenon DEF DriverProcs, TakesHandle, HandleProcs
<1> HIDE DEF plan
<1>4. CallsInv'
  <2>1. Head(plan) \in DriverProcs \cup NvcgoProcs /\ ~TakesHandle(Head(plan))
    BY Zenon, <1>2, <1>3
  <2> QED
    BY Zenon, <1>1, <1>2, <2>1, StartStep DEF plan
<1> QED
  BY Zenon, <1>4

(* What a getter calls. *)
LEMMA PlanOfQuery ==
  ASSUME NEW q \in Getters
  PROVE  /\ QueryPlan(q) \in QueryPlans(q) /\ QueryPlan(q) # <<>> /\ q # "info"
         /\ Head(QueryPlan(q)) \in DriverProcs \cup NvcgoProcs /\ ~TakesHandle(Head(QueryPlan(q)))
<1>1. q # "info"
  BY Zenon DEF Getters
<1>2. "driver_get_device" \in DriverProcs /\ ~TakesHandle("driver_get_device")
  BY Zenon DEF DriverProcs, TakesHandle, HandleProcs
<1>3. CASE q \in {"driver_get_device_gpu_instance_id", "driver_get_device_compute_instance_id"}
  <2>1. QueryPlan(q) = <<"driver_get_device", "driver_get_device_mig_device", q>>
    BY <1>3 DEF QueryPlan
  <2>2. QueryPlan(q) \in QueryPlans(q)
    BY <1>3, <2>1 DEF QueryPlans
  <2> QED
    BY <1>1, <1>2, <2>1, <2>2
<1> DEFINE p == ProcOf(q)
<1>4. CASE p \in HandleProcs /\ q \notin {"driver_get_device_gpu_instance_id", "driver_get_device_compute_instance_id"}
  <2>1. Program(p) = "driver" /\ DriverArguments(p) = <<"ptr">>
    BY Zenon, <1>4, Procedures DEF DriverProcs
  <2>2. QueryPlan(q) = <<"driver_get_device", p>>
    BY Zenon, <1>4, <2>1 DEF QueryPlan
  <2>3. QueryPlans(q) = {<<"driver_get_device", p>>, <<p>>}
    BY Zenon, <1>4 DEF QueryPlans
  <2> QED
    BY <1>1, <1>2, <2>2, <2>3
<1>5. CASE q \in {"driver_get_rm_version", "driver_get_cuda_version"} \cup NvcgoProcs
  <2>1. p = q
    BY Zenon, <1>5 DEF ProcOf, NvcgoProcs
  <2>2. p \notin HandleProcs /\ q \notin {"driver_get_device_gpu_instance_id", "driver_get_device_compute_instance_id"}
    BY Zenon, <1>5, <2>1 DEF HandleProcs, NvcgoProcs
  <2>3. ~(Program(p) = "driver" /\ DriverArguments(p) = <<"ptr">>)
    BY <1>5, <2>1, Procedures
  <2>4. QueryPlan(q) = <<q>> /\ QueryPlans(q) = {<<q>>}
    BY Zenon, <2>1, <2>2, <2>3 DEF QueryPlan, QueryPlans
  <2>5. q \in DriverProcs \cup NvcgoProcs /\ ~TakesHandle(q)
    BY Zenon, <1>5, <2>1, <2>2 DEF TakesHandle, DriverProcs, NvcgoProcs
  <2> QED
    BY <1>1, <2>4, <2>5
<1>6. \/ q \in {"driver_get_device_gpu_instance_id", "driver_get_device_compute_instance_id"}
      \/ p \in HandleProcs
      \/ q \in {"driver_get_rm_version", "driver_get_cuda_version"} \cup NvcgoProcs
  BY DEF Getters, NvcgoProcs, HandleProcs, ProcOf
<1> QED
  BY Zenon, <1>3, <1>4, <1>5, <1>6

LEMMA QueryStep ==
  ASSUME CallsInv, NEW q \in Queries, Query_(q)
  PROVE  CallsInv'
<1>1. q \in Getters
  BY Zenon, DriverCallsAssumption
<1>2. PICK i \in QueryIndices, j \in 0 .. MAX_MIG_DEVICES : Start(q, QueryPlan(q), MaxInfos + 1, i, j)
  BY Zenon DEF Query_
<1>3. i \in Nat /\ j \in Nat
  BY DriverCallsAssumption
<1> QED
  BY Zenon, <1>1, <1>2, <1>3, PlanOfQuery, StartStep

-----------------------------------------------------------------------------
(* An operation returns. *)
LEMMA Returned ==
  ASSUME CallsInv, FewerReplies, UNCHANGED <<enumeration, deviceHandles, wsl>>,
         NEW rv, NEW err, NEW out, Return(rv, err, out)
  PROVE  /\ CallsTyped' /\ MessagesInv' /\ CurrentInv' /\ ~Waiting'
         /\ client'.op = client.op /\ client'.rv = rv /\ client'.err = err /\ client'.out = out
<1>1. /\ client' = [client EXCEPT !.plan = <<>>, !.xid = 0, !.h = Null, !.of = Null, !.i = 0, !.j = 0,
                                  !.rv = rv, !.err = err, !.out = out]
      /\ UNCHANGED requests
  BY Zenon DEF Return
<1>2. Record(client)
  BY Zenon DEF CallsInv, CallsTyped
<1>3. /\ client'.op = client.op /\ client'.rv = rv /\ client'.err = err /\ client'.out = out
      /\ client'.plan = <<>> /\ client'.i = 0 /\ client'.j = 0
  BY Zenon, <1>1, <1>2 DEF Record, ClientFields
<1>4. Record(client)'
  BY Zenon, <1>1, <1>2 DEF Record
<1>5. ~Waiting' /\ CurrentInv'
  BY Zenon, <1>3 DEF Waiting, CurrentInv
<1>6. 0 \in Nat
  OBVIOUS
<1>7. CallsTyped'
  BY Zenon, <1>1, <1>3, <1>4, <1>6 DEF CallsInv, CallsTyped, FewerReplies
<1>8. MessagesInv'
  BY Zenon, <1>1 DEF CallsInv, MessagesInv, FewerReplies
<1> QED
  BY Zenon, <1>3, <1>5, <1>7, <1>8

LEMMA Failed ==
  ASSUME CallsInv, FewerReplies, UNCHANGED <<enumeration, deviceHandles, wsl>>,
         NEW err, err # "none", Fail(err)
  PROVE  CallsInv'
<1>1. Return(-1, err, Null) /\ nvc_device_info_free
  BY Zenon DEF Fail
<1>2. /\ CallsTyped' /\ MessagesInv' /\ CurrentInv' /\ ~Waiting'
      /\ client'.err = err /\ client'.out = Null
  BY Zenon, <1>1, Returned
<1>3. InfoInv'
  <2>1. gpus' = <<>> /\ strings' = StringsIn(gpus')
    BY Zenon, <1>1, InfoFreed, NothingInNothing
  <2>2. 1 .. 0 = {}
    OBVIOUS
  <2>3. Sequence(gpus') /\ 1 .. Len(gpus') = {}
    BY Zenon, <2>1, <2>2, EmptyIsSequence
  <2> QED
    BY Zenon, <1>2, <2>1, <2>3 DEF InfoInv
<1>4. ResultInv'
  BY Zenon, <1>2 DEF ResultInv, OutTrue
<1> QED
  BY Zenon, <1>2, <1>3, <1>4 DEF CallsInv

LEMMA FailsStep ==
  ASSUME CallsInv, CallFails
  PROVE  CallsInv'
<1>1. Fail("rpc") /\ UNCHANGED <<enumeration, deviceHandles, replies, wsl>> /\ "rpc" # "none"
  BY Zenon DEF CallFails
<1> QED
  BY Zenon, <1>1, RepliesKept, Failed

-----------------------------------------------------------------------------
(* What is left of a plan, and the field that its first call fills. *)
Steps(plan, w) ==
  LET f == FieldOf(Head(plan)) IN
  /\ plan # <<>> /\ Head(plan) \in DriverProcs /\ Head(plan) # "driver_get_device_count"
  /\ f \in Fields \cup {"none"} /\ f \notin Filled(plan)
  /\ Head(plan) = "driver_get_device" => f = "none" /\ Filled(plan) = {}
  /\ Head(plan) # "driver_get_device" => Head(plan) \in HandleProcs \ {"driver_get_device_mig_mode"}
  /\ Tail(plan) # <<>> =>
       /\ Tail(plan) \in DevicePlans(w) /\ Head(Tail(plan)) \in HandleProcs
       /\ Filled(Tail(plan)) = Filled(plan) \cup ({f} \cap Fields)
  /\ Tail(plan) = <<>> => f # "none" /\ (\A e \in Fields : e \in Filled(plan) \cup {f} \/ (e = "node" /\ w))

(* The calls for a device one after the other: the first of a plan and the *)
(* first of what follows it.                                               *)
Follows(plan, w) ==
  LET p == Head(plan)
      q == Head(Tail(plan)) IN
  \/ /\ Tail(plan) # <<>> /\ Tail(plan) \in DevicePlans(w)
     /\ \/ p = "driver_get_device" /\ q = "driver_get_device_model"
        \/ p = "driver_get_device_model" /\ q = "driver_get_device_minor" /\ Len(Tail(plan)) # 1
        \/ p = "driver_get_device_minor" /\ Len(plan) # 1 /\ q = "driver_get_device_busid"
        \/ p = "driver_get_device_busid" /\ q = "driver_get_device_uuid"
        \/ p = "driver_get_device_uuid" /\ q = "driver_get_device_minor" /\ Len(Tail(plan)) = 1
  \/ /\ Tail(plan) = <<>>
     /\ \/ p = "driver_get_device_uuid" /\ w
        \/ p = "driver_get_device_minor" /\ Len(plan) = 1

LEMMA PlanFollows ==
  ASSUME NEW w \in BOOLEAN, NEW plan \in DevicePlans(w)
  PROVE  plan # <<>> /\ Follows(plan, w)
<1>0. PICK t : t = Tail(plan)
  BY Zenon
<1>1. CASE ~w /\ plan = <<"driver_get_device", "driver_get_device_model", "driver_get_device_minor",
                   "driver_get_device_busid", "driver_get_device_uuid", "driver_get_device_minor">>
  <2>1. plan # <<>> /\ Head(plan) = "driver_get_device" /\ Len(plan) # 1
    BY <1>1
  <2>2. t = <<"driver_get_device_model", "driver_get_device_minor", "driver_get_device_busid",
                       "driver_get_device_uuid", "driver_get_device_minor">>
    BY <1>0, <1>1
  <2>3. t # <<>> /\ Head(t) = "driver_get_device_model" /\ Len(t) # 1
    BY <2>2
  <2>4. t \in DevicePlans(w)
    BY Zenon, <1>1, <2>2 DEF DevicePlans, PlansHere
  <2> QED
    BY Zenon, <1>0, <1>1, <2>1, <2>3, <2>4 DEF Follows
<1>2. CASE ~w /\ plan = <<"driver_get_device_model", "driver_get_device_minor", "driver_get_device_busid",
                   "driver_get_device_uuid", "driver_get_device_minor">>
  <2>1. plan # <<>> /\ Head(plan) = "driver_get_device_model" /\ Len(plan) # 1
    BY <1>2
  <2>2. t = <<"driver_get_device_minor", "driver_get_device_busid",
                       "driver_get_device_uuid", "driver_get_device_minor">>
    BY <1>0, <1>2
  <2>3. t # <<>> /\ Head(t) = "driver_get_device_minor" /\ Len(t) # 1
    BY <2>2
  <2>4. t \in DevicePlans(w)
    BY Zenon, <1>2, <2>2 DEF DevicePlans, PlansHere
  <2> QED
    BY Zenon, <1>0, <1>2, <2>1, <2>3, <2>4 DEF Follows
<1>3. CASE ~w /\ plan = <<"driver_get_device_minor", "driver_get_device_busid",
                   "driver_get_device_uuid", "driver_get_device_minor">>
  <2>1. plan # <<>> /\ Head(plan) = "driver_get_device_minor" /\ Len(plan) # 1
    BY <1>3
  <2>2. t = <<"driver_get_device_busid", "driver_get_device_uuid", "driver_get_device_minor">>
    BY <1>0, <1>3
  <2>3. t # <<>> /\ Head(t) = "driver_get_device_busid" /\ Len(t) # 1
    BY <2>2
  <2>4. t \in DevicePlans(w)
    BY Zenon, <1>3, <2>2 DEF DevicePlans, PlansHere
  <2> QED
    BY Zenon, <1>0, <1>3, <2>1, <2>3, <2>4 DEF Follows
<1>4. CASE ~w /\ plan = <<"driver_get_device_busid", "driver_get_device_uuid", "driver_get_device_minor">>
  <2>1. plan # <<>> /\ Head(plan) = "driver_get_device_busid" /\ Len(plan) # 1
    BY <1>4
  <2>2. t = <<"driver_get_device_uuid", "driver_get_device_minor">>
    BY <1>0, <1>4
  <2>3. t # <<>> /\ Head(t) = "driver_get_device_uuid" /\ Len(t) # 1
    BY <2>2
  <2>4. t \in DevicePlans(w)
    BY Zenon, <1>4, <2>2 DEF DevicePlans, PlansHere
  <2> QED
    BY Zenon, <1>0, <1>4, <2>1, <2>3, <2>4 DEF Follows
<1>5. CASE ~w /\ plan = <<"driver_get_device_uuid", "driver_get_device_minor">>
  <2>1. plan # <<>> /\ Head(plan) = "driver_get_device_uuid" /\ Len(plan) # 1
    BY <1>5
  <2>2. t = <<"driver_get_device_minor">>
    BY <1>0, <1>5
  <2>3. t # <<>> /\ Head(t) = "driver_get_device_minor" /\ Len(t) = 1
    BY <2>2
  <2>4. t \in DevicePlans(w)
    BY Zenon, <1>5, <2>2 DEF DevicePlans, PlansHere
  <2> QED
    BY Zenon, <1>0, <1>5, <2>1, <2>3, <2>4 DEF Follows
<1>6. CASE ~w /\ plan = <<"driver_get_device_minor">>
  <2>1. plan # <<>> /\ Head(plan) = "driver_get_device_minor" /\ Len(plan) = 1
    BY <1>6
  <2>2. Tail(plan) = <<>>
    BY <1>6
  <2> QED
    BY <1>6, <2>1, <2>2 DEF Follows
<1>7. CASE w /\ plan = <<"driver_get_device", "driver_get_device_model", "driver_get_device_minor",
                   "driver_get_device_busid", "driver_get_device_uuid">>
  <2>1. plan # <<>> /\ Head(plan) = "driver_get_device" /\ Len(plan) # 1
    BY <1>7
  <2>2. t = <<"driver_get_device_model", "driver_get_device_minor",
                       "driver_get_device_busid", "driver_get_device_uuid">>
    BY <1>0, <1>7
  <2>3. t # <<>> /\ Head(t) = "driver_get_device_model" /\ Len(t) # 1
    BY <2>2
  <2>4. t \in DevicePlans(w)
    BY Zenon, <1>7, <2>2 DEF DevicePlans, PlansOnWsl
  <2> QED
    BY Zenon, <1>0, <1>7, <2>1, <2>3, <2>4 DEF Follows
<1>8. CASE w /\ plan = <<"driver_get_device_model", "driver_get_device_minor",
                   "driver_get_device_busid", "driver_get_device_uuid">>
  <2>1. plan # <<>> /\ Head(plan) = "driver_get_device_model" /\ Len(plan) # 1
    BY <1>8
  <2>2. t = <<"driver_get_device_minor", "driver_get_device_busid", "driver_get_device_uuid">>
    BY <1>0, <1>8
  <2>3. t # <<>> /\ Head(t) = "driver_get_device_minor" /\ Len(t) # 1
    BY <2>2
  <2>4. t \in DevicePlans(w)
    BY Zenon, <1>8, <2>2 DEF DevicePlans, PlansOnWsl
  <2> QED
    BY Zenon, <1>0, <1>8, <2>1, <2>3, <2>4 DEF Follows
<1>9. CASE w /\ plan = <<"driver_get_device_minor", "driver_get_device_busid", "driver_get_device_uuid">>
  <2>1. plan # <<>> /\ Head(plan) = "driver_get_device_minor" /\ Len(plan) # 1
    BY <1>9
  <2>2. t = <<"driver_get_device_busid", "driver_get_device_uuid">>
    BY <1>0, <1>9
  <2>3. t # <<>> /\ Head(t) = "driver_get_device_busid" /\ Len(t) # 1
    BY <2>2
  <2>4. t \in DevicePlans(w)
    BY Zenon, <1>9, <2>2 DEF DevicePlans, PlansOnWsl
  <2> QED
    BY Zenon, <1>0, <1>9, <2>1, <2>3, <2>4 DEF Follows
<1>10. CASE w /\ plan = <<"driver_get_device_busid", "driver_get_device_uuid">>
  <2>1. plan # <<>> /\ Head(plan) = "driver_get_device_busid" /\ Len(plan) # 1
    BY <1>10
  <2>2. t = <<"driver_get_device_uuid">>
    BY <1>0, <1>10
  <2>3. t # <<>> /\ Head(t) = "driver_get_device_uuid" /\ Len(t) = 1
    BY <2>2
  <2>4. t \in DevicePlans(w)
    BY Zenon, <1>10, <2>2 DEF DevicePlans, PlansOnWsl
  <2> QED
    BY Zenon, <1>0, <1>10, <2>1, <2>3, <2>4 DEF Follows
<1>11. CASE w /\ plan = <<"driver_get_device_uuid">>
  <2>1. plan # <<>> /\ Head(plan) = "driver_get_device_uuid" /\ Len(plan) = 1
    BY <1>11
  <2>2. Tail(plan) = <<>>
    BY <1>11
  <2> QED
    BY <1>11, <2>1, <2>2 DEF Follows
<1> QED
  BY Zenon, <1>1, <1>2, <1>3, <1>4, <1>5, <1>6, <1>7, <1>8, <1>9, <1>10, <1>11 DEF DevicePlans, PlansHere, PlansOnWsl

LEMMA PlanOfDevice ==
  ASSUME NEW w \in BOOLEAN, client.plan \in DevicePlans(w)
  PROVE  Steps(client.plan, w)
<1> DEFINE plan == client.plan
           p == Head(plan)
           q == Head(Tail(plan))
<1>1. plan # <<>> /\ Follows(plan, w)
  BY Zenon, PlanFollows
<1>2. CASE /\ Tail(plan) # <<>> /\ Tail(plan) \in DevicePlans(w)
           /\ p = "driver_get_device" /\ q = "driver_get_device_model"
  <2>1. FieldOf(p) = "none"
    BY Zenon, <1>2 DEF FieldOf
  <2>2. Filled(plan) = {}
    BY Zenon, <1>2 DEF Filled
  <2>3. Filled(Tail(plan)) = {}
    BY Zenon, <1>2 DEF Filled
  <2> QED
    BY <1>1, <1>2, <2>1, <2>2, <2>3 DEF Steps, DriverProcs, HandleProcs, Fields
<1>3. CASE /\ Tail(plan) # <<>> /\ Tail(plan) \in DevicePlans(w)
           /\ p = "driver_get_device_model" /\ q = "driver_get_device_minor" /\ Len(Tail(plan)) # 1
  <2>1. FieldOf(p) = "model"
    BY Zenon, <1>3 DEF FieldOf
  <2>2. Filled(plan) = {}
    BY Zenon, <1>3 DEF Filled
  <2>3. Filled(Tail(plan)) = {"model"}
    BY Zenon, <1>3 DEF Filled
  <2> QED
    BY Zenon, <1>1, <1>3, <2>1, <2>2, <2>3 DEF Steps, DriverProcs, HandleProcs, Fields
<1>4. CASE /\ Tail(plan) # <<>> /\ Tail(plan) \in DevicePlans(w)
           /\ p = "driver_get_device_minor" /\ Len(plan) # 1 /\ q = "driver_get_device_busid"
  <2>1. FieldOf(p) = "none"
    BY Zenon, <1>4 DEF FieldOf
  <2>2. Filled(plan) = {"model"}
    BY Zenon, <1>4 DEF Filled
  <2>3. Filled(Tail(plan)) = {"model"}
    BY Zenon, <1>4 DEF Filled
  <2> QED
    BY <1>1, <1>4, <2>1, <2>2, <2>3 DEF Steps, DriverProcs, HandleProcs, Fields
<1>5. CASE /\ Tail(plan) # <<>> /\ Tail(plan) \in DevicePlans(w)
           /\ p = "driver_get_device_busid" /\ q = "driver_get_device_uuid"
  <2>1. FieldOf(p) = "busid"
    BY Zenon, <1>5 DEF FieldOf
  <2>2. Filled(plan) = {"model"}
    BY Zenon, <1>5 DEF Filled
  <2>3. Filled(Tail(plan)) = {"model", "busid"}
    BY Zenon, <1>5 DEF Filled
  <2> QED
    BY Zenon, <1>1, <1>5, <2>1, <2>2, <2>3 DEF Steps, DriverProcs, HandleProcs, Fields
<1>6. CASE /\ Tail(plan) # <<>> /\ Tail(plan) \in DevicePlans(w)
           /\ p = "driver_get_device_uuid" /\ q = "driver_get_device_minor" /\ Len(Tail(plan)) = 1
  <2>1. FieldOf(p) = "uuid"
    BY Zenon, <1>6 DEF FieldOf
  <2>2. Filled(plan) = {"model", "busid"}
    BY Zenon, <1>6 DEF Filled
  <2>3. Filled(Tail(plan)) = {"model", "busid", "uuid"}
    BY Zenon, <1>6 DEF Filled
  <2> QED
    BY Zenon, <1>1, <1>6, <2>1, <2>2, <2>3 DEF Steps, DriverProcs, HandleProcs, Fields
<1>7. CASE Tail(plan) = <<>> /\ p = "driver_get_device_uuid" /\ w
  <2>1. FieldOf(p) = "uuid"
    BY Zenon, <1>7 DEF FieldOf
  <2>2. Filled(plan) = {"model", "busid"}
    BY Zenon, <1>7 DEF Filled
  <2> QED
    BY Zenon, <1>1, <1>7, <2>1, <2>2 DEF Steps, DriverProcs, HandleProcs, Fields
<1>8. CASE Tail(plan) = <<>> /\ p = "driver_get_device_minor" /\ Len(plan) = 1
  <2>1. FieldOf(p) = "node"
    BY Zenon, <1>8 DEF FieldOf
  <2>2. Filled(plan) = {"model", "busid", "uuid"}
    BY Zenon, <1>8 DEF Filled
  <2> QED
    BY <1>1, <1>8, <2>1, <2>2 DEF Steps, DriverProcs, HandleProcs, Fields
<1> QED
  BY Zenon, <1>1, <1>2, <1>3, <1>4, <1>5, <1>6, <1>7, <1>8 DEF Follows

-----------------------------------------------------------------------------
(* A field of an entry is filled. *)
Writes(gs, n, f, v) == [gs EXCEPT ![n][f] = v]

Written(gs, g, n, F, d) ==
  /\ Sequence(g) /\ Len(g) = Len(gs) /\ \A k \in 1 .. Len(gs) : k # n => g[k] = gs[k]
  /\ GpuRecord(g[n]) /\ OneDevice(g[n]) /\ Entry(g, n, F, d)
  /\ StringsIn(g) = StringsIn(gs) + 1

LEMMA FieldSet ==
  ASSUME NEW gs, Sequence(gs), NEW n \in 1 .. Len(gs), GpuRecord(gs[n]),
         NEW F, NEW d, Entry(gs, n, F, d), NEW f \in Fields, f \notin F, NEW v, v # Null, v[2] = d
  PROVE  Written(gs, Writes(gs, n, f, v), n, F \cup {f}, d)
<1>0. PICK g : g = Writes(gs, n, f, v)
  BY Zenon
<1> DEFINE w == [gs[n] EXCEPT ![f] = v]
<1>1. g = [gs EXCEPT ![n] = w]
  BY Zenon, <1>0 DEF Writes
<1>2. GpuRecord(w) /\ w[f] = v /\ \A e \in Fields \ {f} : w[e] = gs[n][e]
  BY Zenon DEF GpuRecord
<1> HIDE DEF w
<1>3. PICK S : gs \in Seq(S)
  BY Zenon DEF Sequence
<1>4. gs \in Seq(S \cup {w})
  BY <1>3
<1>5. g \in Seq(S \cup {w}) /\ Len(g) = Len(gs) /\ DOMAIN gs = 1 .. Len(gs)
  BY <1>1, <1>4
<1>6. g[n] = w /\ \A k \in 1 .. Len(gs) : k # n => g[k] = gs[k]
  BY Zenon, <1>1, <1>5
<1>7. Sequence(g)
  BY Zenon, <1>5 DEF Sequence
<1>8. Entry(g, n, F \cup {f}, d)
  <2> SUFFICES ASSUME NEW e \in Fields
               PROVE  (g[n][e] # Null <=> e \in F \cup {f}) /\ (g[n][e] # Null => g[n][e][2] = d)
    BY Zenon DEF Entry
  <2>1. CASE e = f
    <3>1. g[n][e] = v
      BY Zenon, <1>2, <1>6, <2>1
    <3> QED
      BY Zenon, <2>1, <3>1
  <2>2. CASE e # f
    <3>1. g[n][e] = gs[n][e]
      BY Zenon, <1>2, <1>6, <2>2
    <3> QED
      BY Zenon, <2>2, <3>1 DEF Entry
  <2> QED
    BY Zenon, <2>1, <2>2
<1>9. OneDevice(g[n])
  BY Zenon, <1>8 DEF OneDevice, Entry
<1>10. StringsOfInfo(g) = StringsOfInfo(gs) \cup {<<n, f>>} /\ <<n, f>> \notin StringsOfInfo(gs)
  <2>1. DOMAIN g = DOMAIN gs /\ n \in DOMAIN gs
    BY <1>5
  <2>2. gs[n][f] = Null /\ g[n][f] # Null
    BY Zenon, <1>2, <1>6 DEF Entry
  <2>3. \A k \in DOMAIN gs, e \in Fields : <<k, e>> # <<n, f>> => g[k][e] = gs[k][e]
    <3> SUFFICES ASSUME NEW k \in DOMAIN gs, NEW e \in Fields, <<k, e>> # <<n, f>>
                 PROVE  g[k][e] = gs[k][e]
      OBVIOUS
    <3>1. k # n \/ e # f
      OBVIOUS
    <3> QED
      BY Zenon, <1>2, <1>5, <1>6, <3>1
  <2> QED
    BY SMT, <2>1, <2>2, <2>3 DEF StringsOfInfo
<1>11. Cardinality(StringsOfInfo(g)) = Cardinality(StringsOfInfo(gs)) + 1
  BY Zenon, <1>10, FS_AddElement, StringsAreCounted
<1> QED
  BY Zenon, <1>0, <1>2, <1>5, <1>6, <1>7, <1>8, <1>9, <1>11, StringsAreCounted DEF Written

(* Entries as they come. *)
LEMMA EntriesMade ==
  ASSUME NEW v \in Nat, NEW gs, gs = [k \in 1 .. v |-> NoGpu]
  PROVE  /\ Sequence(gs) /\ Len(gs) = v /\ StringsIn(gs) = 0
         /\ \A k \in 1 .. v : /\ gs[k] = NoGpu /\ GpuRecord(gs[k]) /\ OneDevice(gs[k])
                              /\ \A d : Entry(gs, k, {}, d)
<1>1. gs \in Seq({NoGpu}) /\ Len(gs) = v /\ DOMAIN gs = 1 .. v
  OBVIOUS
<1>2. GpuRecord(NoGpu) /\ \A f \in Fields : NoGpu[f] = Null
  BY DEF NoGpu, Fields, GpuRecord
<1>3. \A k \in 1 .. v : gs[k] = NoGpu
  BY Zenon
<1>4. StringsOfInfo(gs) = {}
  BY SMT, <1>1, <1>2, <1>3 DEF StringsOfInfo
<1>5. Sequence(gs)
  BY Zenon, <1>1 DEF Sequence
<1>6. StringsIn(gs) = 0
  BY Zenon, <1>4, <1>5, FS_EmptySet, StringsAreCounted
<1>7. \A k \in 1 .. v : OneDevice(gs[k]) /\ \A d : Entry(gs, k, {}, d)
  BY Zenon, <1>2, <1>3 DEF OneDevice, Entry
<1> QED
  BY Zenon, <1>1, <1>2, <1>3, <1>5, <1>6, <1>7

-----------------------------------------------------------------------------
(* The calls for a device without and with the last one. *)
LEMMA SixCalls ==
  ASSUME NEW a, NEW b, NEW c, NEW d, NEW e, NEW f
  PROVE  <<a, b, c, d, e>> \o <<f>> = <<a, b, c, d, e, f>>
<1> DEFINE S == {a, b, c, d, e, f}
<1>1. PICK s : s = <<a, b, c, d, e>>
  BY Zenon
<1>2. PICK t : t = <<f>>
  BY Zenon
<1>3. PICK u : u = <<a, b, c, d, e, f>>
  BY Zenon
<1>4. s \in Seq(S) /\ Len(s) = 5 /\ s[1] = a /\ s[2] = b /\ s[3] = c /\ s[4] = d /\ s[5] = e
  BY <1>1
<1>5. t \in Seq(S) /\ Len(t) = 1 /\ t[1] = f
  BY <1>2
<1>6. u \in Seq(S) /\ Len(u) = 6 /\ u[1] = a /\ u[2] = b /\ u[3] = c /\ u[4] = d /\ u[5] = e /\ u[6] = f
  BY <1>3
<1> HIDE DEF S
<1>7. /\ s \o t \in Seq(S) /\ Len(s \o t) = Len(s) + Len(t)
      /\ \A i \in 1 .. Len(s) + Len(t) : (s \o t)[i] = IF i <= Len(s) THEN s[i] ELSE t[i - Len(s)]
  BY Zenon, <1>4, <1>5, Concatenation
<1>8. Len(s \o t) = Len(u)
  BY <1>4, <1>5, <1>6, <1>7
<1>9. \A i \in 1 .. Len(s \o t) : (s \o t)[i] = u[i]
  BY <1>4, <1>5, <1>6, <1>7
<1>10. s \o t = u
  BY Zenon, <1>6, <1>7, <1>8, <1>9, SameSequence
<1> QED
  BY Zenon, <1>1, <1>2, <1>3, <1>10

(* The first device of a plan is asked for. *)
LEMMA PlanOfAll ==
  /\ init_nvc_device \in DevicePlans(wsl) /\ init_nvc_device # <<>>
  /\ Head(init_nvc_device) = "driver_get_device" /\ Filled(init_nvc_device) = {}
<1> DEFINE first == <<"driver_get_device", "driver_get_device_model", "driver_get_device_minor",
                      "driver_get_device_busid", "driver_get_device_uuid">>
<1>2. first \o <<>> = first
  OBVIOUS
<1>3. first \o <<"driver_get_device_minor">> =
        <<"driver_get_device", "driver_get_device_model", "driver_get_device_minor",
          "driver_get_device_busid", "driver_get_device_uuid", "driver_get_device_minor">>
  BY Zenon, SixCalls
<1>4. init_nvc_device \in DevicePlans(wsl)
  BY Zenon, <1>2, <1>3 DEF init_nvc_device, DevicePlans, PlansHere, PlansOnWsl
<1>5. Head(init_nvc_device) = "driver_get_device" /\ init_nvc_device # <<>>
  <2>1. Head(first) = "driver_get_device" /\ first # <<>>
    OBVIOUS
  <2>2. LET all == <<"driver_get_device", "driver_get_device_model", "driver_get_device_minor",
                     "driver_get_device_busid", "driver_get_device_uuid", "driver_get_device_minor">>
        IN  Head(all) = "driver_get_device" /\ all # <<>>
    OBVIOUS
  <2> QED
    BY Zenon, <1>2, <1>3, <2>1, <2>2 DEF init_nvc_device
<1>6. Filled(init_nvc_device) = {}
  BY Zenon, <1>5 DEF Filled
<1> QED
  BY Zenon, <1>4, <1>5, <1>6

(* The number of devices came. *)
LEMMA CountGot ==
  ASSUME CallsInv, FewerReplies, UNCHANGED <<enumeration, deviceHandles, wsl>>,
         Waiting, client.op = "info", client.plan = <<"driver_get_device_count">>, client.i = 0, gpus = <<>>,
         NEW v \in Nat, InfoGot(v)
  PROVE  CallsInv'
<1> DEFINE p == Head(client.plan)
           next == [client EXCEPT !.plan = Tail(@), !.h = IF p = "driver_get_device" THEN v ELSE @]
           c == [next EXCEPT !.plan = init_nvc_device]
<1>1. p = "driver_get_device_count"
  OBVIOUS
<1>2. /\ gpus' = [k \in 1 .. v |-> NoGpu] /\ UNCHANGED strings
      /\ IF v = 0 THEN Return(0, "none", Null) ELSE Call(c)
  BY Zenon, <1>1 DEF InfoGot
<1>3. /\ Sequence(gpus') /\ Len(gpus') = v /\ StringsIn(gpus') = 0
      /\ \A k \in 1 .. v : /\ gpus'[k] = NoGpu /\ GpuRecord(gpus'[k]) /\ OneDevice(gpus'[k])
                           /\ \A d : Entry(gpus', k, {}, d)
  BY Zenon, <1>2, EntriesMade
<1>4. strings' = StringsIn(gpus')
  BY Zenon, <1>2, <1>3, NothingInNothing DEF CallsInv, InfoInv
<1>5. 0 # -1 /\ 0 \in Nat
  OBVIOUS
<1>6. CASE v = 0
  <2>1. /\ CallsTyped' /\ MessagesInv' /\ CurrentInv' /\ ~Waiting'
        /\ client'.rv = 0 /\ client'.out = Null
    BY Zenon, <1>2, <1>6, Returned
  <2>2. ResultInv'
    BY Zenon, <1>5, <2>1 DEF ResultInv, OutTrue
  <2>3. 1 .. 0 = {}
    OBVIOUS
  <2>4. InfoInv'
    BY Zenon, <1>3, <1>4, <1>6, <2>1, <2>3 DEF InfoInv
  <2> QED
    BY Zenon, <2>1, <2>2, <2>4 DEF CallsInv
<1>7. CASE v # 0
  <2>1. Record(client) /\ client.j \in Nat /\ client.i \in Nat
    BY Zenon DEF CallsInv, CallsTyped
  <2>2. Record(c)
    BY Zenon, <2>1 DEF Record
  <2>3. /\ c.op = "info" /\ c.plan = init_nvc_device /\ c.i = 0 /\ c.j = client.j
        /\ c.rv = client.rv /\ c.err = client.err /\ c.out = client.out
    BY Zenon, <2>1 DEF Record, ClientFields
  <2> HIDE DEF c
  <2>4. /\ c.plan # <<>> /\ Head(c.plan) = "driver_get_device"
        /\ Head(c.plan) \in DriverProcs \cup NvcgoProcs /\ ~TakesHandle(Head(c.plan))
    BY Zenon, <2>3, PlanOfAll DEF DriverProcs, TakesHandle, HandleProcs
  <2>5. HandleReady(c, deviceHandles, requests[Program(Head(c.plan))])
    BY Zenon, <2>4 DEF HandleReady, TakesHandle
  <2>6. Call(c)
    BY Zenon, <1>2, <1>7 DEF c
  <2>7. CallsTyped' /\ MessagesInv' /\ CurrentInv' /\ Waiting' /\ SameOperation(client', c)
    BY Zenon, <1>5, <2>1, <2>2, <2>3, <2>4, <2>5, <2>6, CallMade
  <2>8. /\ client'.op = "info" /\ client'.plan = init_nvc_device /\ client'.i = 0
        /\ client'.rv = client.rv /\ client'.err = client.err /\ client'.out = client.out
    BY Zenon, <2>3, <2>7 DEF SameOperation
  <2>9. ResultInv'
    BY Zenon, <2>8 DEF CallsInv, ResultInv
  <2>10. /\ 0 < v /\ 1 .. 0 = {} /\ 0 + 1 = 1 /\ 1 \in 1 .. v
         /\ \A k \in 0 + 2 .. v : k \in 1 .. v
    BY <1>7
  <2>11. InfoInv'
    <3>1. client'.plan \in DevicePlans(wsl') /\ Filled(client'.plan) = {}
      BY Zenon, <2>8, PlanOfAll
    <3>2. client'.i < Len(gpus') /\ Entry(gpus', client'.i + 1, {}, client'.of)
      <4>1. Entry(gpus', 1, {}, client'.of)
        BY Zenon, <1>3, <2>10
      <4>2. client'.i + 1 = 1 /\ client'.i < Len(gpus')
        BY Zenon, <1>3, <2>8, <2>10
      <4> QED
        BY Zenon, <4>1, <4>2
    <3>3. /\ \A k \in 1 .. client'.i : Complete(wsl', gpus'[k])
          /\ \A k \in client'.i + 2 .. Len(gpus') : gpus'[k] = NoGpu
      BY Zenon, <1>3, <2>8, <2>10
    <3> QED
      BY Zenon, <1>3, <1>4, <2>7, <2>8, <3>1, <3>2, <3>3 DEF InfoInv
  <2> QED
    BY Zenon, <2>7, <2>9, <2>11 DEF CallsInv
<1> QED
  BY Zenon, <1>6, <1>7

(* The information structure while the entry after the first n - 1 has the *)
(* fields F of device d.                                                   *)
Reading(gs, w, n, F, d) ==
  /\ Sequence(gs) /\ n \in 1 .. Len(gs)
  /\ \A k \in 1 .. Len(gs) : GpuRecord(gs[k]) /\ OneDevice(gs[k])
  /\ \A k \in 1 .. n - 1 : Complete(w, gs[k])
  /\ \A k \in n + 1 .. Len(gs) : gs[k] = NoGpu
  /\ Entry(gs, n, F, d)

(* A call for a device was answered: what it leaves in the entry. *)
Fills(plan, f, n, v) ==
  /\ f = FieldOf(Head(plan)) /\ n = client.i + 1
  /\ Head(plan) # "driver_get_device" => v = <<Head(plan), client.of>>
  /\ IF f = "none" THEN UNCHANGED <<gpus, strings>>
     ELSE gpus' = [gpus EXCEPT ![client.i + 1][f] = v] /\ strings' = strings + 1

LEMMA FieldGot ==
  ASSUME CallsInv, NEW plan, NEW f, NEW n, NEW v, Fills(plan, f, n, v),
         Reading(gpus, wsl, n, Filled(plan), client.of), Steps(plan, wsl)
  PROVE  /\ Reading(gpus', wsl, n, Filled(plan) \cup ({f} \cap Fields), client.of)
         /\ strings' = StringsIn(gpus') /\ Len(gpus') = Len(gpus)
<1>1. strings = StringsIn(gpus)
  BY Zenon DEF CallsInv, InfoInv
<1>2. CASE f = "none"
  <2>1. {f} \cap Fields = {}
    BY Zenon, <1>2 DEF Fields
  <2>2. Filled(plan) \cup ({f} \cap Fields) = Filled(plan)
    BY Zenon, <2>1
  <2> QED
    BY Zenon, <1>1, <1>2, <2>2 DEF Fills
<1>3. CASE f # "none"
  <2>1. f \in Fields /\ f \notin Filled(plan) /\ Head(plan) # "driver_get_device"
    BY Zenon, <1>3 DEF Steps, Fills
  <2>2. v # Null /\ v[2] = client.of
    BY <2>1 DEF Null, Fills
  <2>3. gpus' = Writes(gpus, n, f, v) /\ strings' = strings + 1
    BY Zenon, <1>3 DEF Writes, Fills
  <2>4. /\ Sequence(gpus) /\ n \in 1 .. Len(gpus) /\ GpuRecord(gpus[n])
        /\ Entry(gpus, n, Filled(plan), client.of)
    BY Zenon DEF Reading
  <2>5. /\ Sequence(gpus') /\ Len(gpus') = Len(gpus) /\ \A k \in 1 .. Len(gpus) : k # n => gpus'[k] = gpus[k]
        /\ GpuRecord(gpus'[n]) /\ OneDevice(gpus'[n])
        /\ Entry(gpus', n, Filled(plan) \cup {f}, client.of)
        /\ StringsIn(gpus') = StringsIn(gpus) + 1
    <3>1. Written(gpus, Writes(gpus, n, f, v), n, Filled(plan) \cup {f}, client.of)
      BY Zenon, <2>1, <2>2, <2>4, FieldSet
    <3> QED
      BY Zenon, <2>3, <3>1 DEF Written
  <2>6. Filled(plan) \cup {f} = Filled(plan) \cup ({f} \cap Fields)
    BY Zenon, <2>1
  <2>7. Len(gpus) \in Nat
    BY Zenon, <2>4, SequenceFacts
  <2>8. /\ \A k \in 1 .. n - 1 : k \in 1 .. Len(gpus) /\ k # n
        /\ \A k \in n + 1 .. Len(gpus) : k \in 1 .. Len(gpus) /\ k # n
    BY <2>4, <2>7
  <2>9. \A k \in 1 .. Len(gpus') : GpuRecord(gpus'[k]) /\ OneDevice(gpus'[k])
    <3> SUFFICES ASSUME NEW k \in 1 .. Len(gpus)
                 PROVE  GpuRecord(gpus'[k]) /\ OneDevice(gpus'[k])
      BY Zenon, <2>5
    <3>1. CASE k = n
      BY Zenon, <2>5, <3>1
    <3>2. CASE k # n
      <4>1. gpus'[k] = gpus[k]
        BY Zenon, <2>5, <3>2
      <4> QED
        BY Zenon, <4>1 DEF Reading
    <3> QED
      BY Zenon, <3>1, <3>2
  <2>10. /\ \A k \in 1 .. n - 1 : Complete(wsl, gpus'[k])
         /\ \A k \in n + 1 .. Len(gpus') : gpus'[k] = NoGpu
    BY Zenon, <2>5, <2>8 DEF Reading
  <2> QED
    BY Zenon, <1>1, <2>3, <2>4, <2>5, <2>6, <2>9, <2>10 DEF Reading
<1> QED
  BY Zenon, <1>2, <1>3

(* The invariant of the information structure while a device is read. *)
LEMMA ReadingKeepsInfo ==
  ASSUME NEW n, n - 1 = client'.i, client'.i \in Nat, Waiting', client'.op = "info", client'.plan \in DevicePlans(wsl'),
         Reading(gpus', wsl', n, Filled(client'.plan), client'.of), strings' = StringsIn(gpus'), n \in Nat
  PROVE  InfoInv'
<1>1. Len(gpus') \in Nat
  BY Zenon, SequenceFacts DEF Reading
<1>2. n \in 1 .. Len(gpus')
  BY Zenon DEF Reading
<1>3. client'.i < Len(gpus') /\ n = client'.i + 1 /\ n + 1 = client'.i + 2
  BY <1>1, <1>2
<1> QED
  BY Zenon, <1>3 DEF InfoInv, Reading

(* While a device is read, what the information structure holds. *)
LEMMA ReadingNow ==
  ASSUME CallsInv, Waiting, client.op = "info", client.plan \in DevicePlans(wsl)
  PROVE  /\ Steps(client.plan, wsl) /\ client.i + 1 \in Nat
         /\ Reading(gpus, wsl, client.i + 1, Filled(client.plan), client.of)
<1>1. Steps(client.plan, wsl)
  BY Zenon, PlanOfDevice DEF CallsInv, CallsTyped
<1>2. client.plan # <<"driver_get_device_count">>
  <2>1. Head(<<"driver_get_device_count">>) = "driver_get_device_count"
    OBVIOUS
  <2> QED
    BY Zenon, <1>1, <2>1 DEF Steps
<1>3. /\ Sequence(gpus) /\ \A k \in 1 .. Len(gpus) : GpuRecord(gpus[k]) /\ OneDevice(gpus[k])
      /\ client.i < Len(gpus) /\ client.i \in Nat
      /\ \A k \in 1 .. client.i : Complete(wsl, gpus[k])
      /\ \A k \in client.i + 2 .. Len(gpus) : gpus[k] = NoGpu
      /\ Entry(gpus, client.i + 1, Filled(client.plan), client.of)
  BY Zenon, <1>2 DEF CallsInv, CallsTyped, InfoInv
<1>4. Len(gpus) \in Nat
  BY Zenon, <1>3, SequenceFacts
<1>5. PICK n \in Nat : n = client.i + 1
  BY <1>3
<1>6. n \in 1 .. Len(gpus) /\ n - 1 = client.i /\ n + 1 = client.i + 2
  BY <1>3, <1>4, <1>5
<1>7. Reading(gpus, wsl, n, Filled(client.plan), client.of)
  BY Zenon, <1>3, <1>5, <1>6 DEF Reading
<1> QED
  BY Zenon, <1>1, <1>5, <1>7

(* An entry that was read to its end, and one that was not begun. *)
LEMMA EntryDone ==
  ASSUME NEW gs, NEW w, NEW n, NEW F, NEW d, Reading(gs, w, n, F, d), n \in Nat,
         \A e \in Fields : e \in F \/ (e = "node" /\ w)
  PROVE  /\ \A k \in 1 .. n : Complete(w, gs[k])
         /\ n = Len(gs) => \A k \in 1 .. Len(gs) : Complete(w, gs[k])
         /\ n < Len(gs) => \A any : Reading(gs, w, n + 1, {}, any)
<1>1. Complete(w, gs[n])
  BY Zenon DEF Reading, Entry, Complete
<1>2. \A k \in 1 .. n : k \in 1 .. n - 1 \/ k = n
  OBVIOUS
<1>3. \A k \in 1 .. n : Complete(w, gs[k])
  BY Zenon, <1>1, <1>2 DEF Reading
<1>4. ASSUME n < Len(gs), NEW any
      PROVE  Reading(gs, w, n + 1, {}, any)
  <2>1. Len(gs) \in Nat
    BY Zenon, SequenceFacts DEF Reading
  <2>2. /\ n + 1 \in 1 .. Len(gs) /\ n + 1 \in n + 1 .. Len(gs) /\ (n + 1) - 1 = n
        /\ \A k \in (n + 1) + 1 .. Len(gs) : k \in n + 1 .. Len(gs)
    BY <1>4, <2>1
  <2>3. gs[n + 1] = NoGpu
    BY Zenon, <2>2 DEF Reading
  <2>4. \A f \in Fields : NoGpu[f] = Null
    BY DEF NoGpu, Fields
  <2>5. Entry(gs, n + 1, {}, any)
    BY Zenon, <2>3, <2>4 DEF Entry
  <2> QED
    BY Zenon, <1>3, <2>2, <2>5 DEF Reading
<1> QED
  BY Zenon, <1>3, <1>4

(* An answer about a device came. *)
LEMMA DeviceGot ==
  ASSUME CallsInv, FewerReplies, UNCHANGED <<enumeration, deviceHandles, wsl>>,
         Waiting, client.op = "info", client.plan \in DevicePlans(wsl), requests[Source] = <<>>,
         NEW v, Truthful(client, deviceHandles, Head(client.plan), v), InfoGot(v)
  PROVE  CallsInv'
<1> DEFINE plan == client.plan
           p == Head(client.plan)
           f == FieldOf(p)
           next == [client EXCEPT !.plan = Tail(@), !.h = IF p = "driver_get_device" THEN v ELSE @]
           again == [next EXCEPT !.plan = init_nvc_device, !.i = @ + 1]
           F == Filled(plan) \cup ({f} \cap Fields)
<1>1. PICK n \in Nat : n = client.i + 1
  BY Zenon, ReadingNow
<1>2. Steps(plan, wsl) /\ Reading(gpus, wsl, n, Filled(plan), client.of)
  BY Zenon, <1>1, ReadingNow
<1>3. p # "driver_get_device_count" /\ p \in DriverProcs
  BY Zenon, <1>2 DEF Steps
<1>4. /\ IF f = "none" THEN UNCHANGED <<gpus, strings>>
         ELSE gpus' = [gpus EXCEPT ![client.i + 1][f] = v] /\ strings' = strings + 1
      /\ IF next.plan # <<>> THEN Call(next)
         ELSE IF client.i + 1 < Len(gpus) THEN Call(again) ELSE Return(0, "none", Null)
  BY Zenon, <1>3 DEF InfoGot
<1>5. p # "driver_get_device" => v = <<p, client.of>>
  BY Zenon, <1>2 DEF Steps, Truthful
<1>6. Reading(gpus', wsl, n, F, client.of) /\ strings' = StringsIn(gpus') /\ Len(gpus') = Len(gpus)
  <2>1. Fills(plan, f, n, v)
    BY Zenon, <1>1, <1>4, <1>5 DEF Fills
  <2> HIDE DEF f
  <2> QED
    BY Zenon, <1>2, <2>1, FieldGot
<1>7. Record(client) /\ client.i \in Nat /\ client.j \in Nat
  BY Zenon DEF CallsInv, CallsTyped
<1>8. /\ Record(next) /\ next.op = "info" /\ next.plan = Tail(plan) /\ next.i = client.i /\ next.j = client.j
      /\ next.h = IF p = "driver_get_device" THEN v ELSE client.h
      /\ next.rv = client.rv /\ next.err = client.err /\ next.out = client.out
  BY Zenon, <1>7 DEF Record, ClientFields
<1>9. Source = "driver"
  BY Zenon, <1>3, Procedures DEF Source
<1> HIDE DEF next
<1>10. CASE Tail(plan) # <<>>
  <2>1. Call(next)
    BY Zenon, <1>4, <1>8, <1>10
  <2>2. /\ Tail(plan) \in DevicePlans(wsl) /\ Head(Tail(plan)) \in HandleProcs /\ Filled(Tail(plan)) = F
    BY Zenon, <1>2, <1>10 DEF Steps
  <2>3. next.h \in Handles /\ deviceHandles[next.h] # Null /\ (p # "driver_get_device" => deviceHandles[next.h] = client.of)
    <3>1. CASE p = "driver_get_device"
      BY Zenon, <1>8, <3>1 DEF Truthful, DeviceHandles, Handles
    <3>2. CASE p # "driver_get_device"
      <4>1. TakesHandle(p)
        BY Zenon, <1>2, <3>2 DEF Steps, TakesHandle
      <4>2. client.h \in Handles /\ client.of # Null /\ deviceHandles[client.h] = client.of
        BY Zenon, <4>1 DEF CallsInv, CurrentInv, Current
      <4> QED
        BY Zenon, <1>8, <3>2, <4>2
    <3> QED
      BY Zenon, <3>1, <3>2
  <2>4. /\ Head(next.plan) \in DriverProcs /\ Head(next.plan) # "driver_get_device_mig_device"
        /\ Program(Head(next.plan)) = "driver"
    BY Zenon, <1>8, <2>2, Procedures DEF DriverProcs, HandleProcs
  <2>5. HandleReady(next, deviceHandles, requests[Program(Head(next.plan))])
    BY Zenon, <1>9, <2>3, <2>4 DEF HandleReady
  <2>6. /\ CallsTyped' /\ MessagesInv' /\ CurrentInv' /\ Waiting' /\ SameOperation(client', next)
        /\ client'.of = deviceHandles[next.h]
    BY Zenon, <1>7, <1>8, <1>10, <2>1, <2>3, <2>4, <2>5, CallMade
  <2>7. /\ client'.op = "info" /\ client'.plan = Tail(plan) /\ client'.i = client.i
        /\ client'.rv = client.rv /\ client'.err = client.err /\ client'.out = client.out
    BY Zenon, <1>8, <2>6 DEF SameOperation
  <2>8. Reading(gpus', wsl', n, Filled(client'.plan), client'.of)
    <3>1. CASE p = "driver_get_device"
      <4>1. F = {}
        BY Zenon, <1>2, <3>1 DEF Steps, Fields
      <4>2. Entry(gpus', n, {}, client'.of)
        BY Zenon, <1>6, <4>1 DEF Reading, Entry
      <4> QED
        BY Zenon, <1>6, <2>2, <2>7, <4>1, <4>2 DEF Reading
    <3>2. CASE p # "driver_get_device"
      BY Zenon, <1>6, <2>2, <2>3, <2>6, <2>7, <3>2
    <3> QED
      BY Zenon, <3>1, <3>2
  <2>9. n - 1 = client'.i /\ client'.i \in Nat
    BY <1>1, <1>7, <2>7
  <2>10. InfoInv'
    BY Zenon, <1>6, <2>2, <2>6, <2>7, <2>8, <2>9, ReadingKeepsInfo
  <2>11. ResultInv'
    BY Zenon, <2>7 DEF CallsInv, ResultInv
  <2> QED
    BY Zenon, <2>6, <2>10, <2>11 DEF CallsInv
<1>11. CASE Tail(plan) = <<>>
  <2>1. \A e \in Fields : e \in F \/ (e = "node" /\ wsl)
    BY Zenon, <1>2, <1>11 DEF Steps
  <2>2. /\ n = Len(gpus') => \A k \in 1 .. Len(gpus') : Complete(wsl, gpus'[k])
        /\ n < Len(gpus') => \A any : Reading(gpus', wsl, n + 1, {}, any)
    BY Zenon, <1>6, <2>1, EntryDone
  <2>3. Len(gpus') \in Nat /\ n \in 1 .. Len(gpus')
    BY Zenon, <1>6, SequenceFacts DEF Reading
  <2>4. CASE n < Len(gpus')
    <3>1. Call(again)
      BY Zenon, <1>1, <1>4, <1>6, <1>8, <1>11, <2>4
    <3>2. /\ Record(again) /\ again.op = "info" /\ again.plan = init_nvc_device /\ again.i = n /\ again.j = client.j
          /\ again.rv = client.rv /\ again.err = client.err /\ again.out = client.out
      BY Zenon, <1>1, <1>8 DEF Record, ClientFields
    <3> HIDE DEF again
    <3>3. /\ again.plan # <<>> /\ Head(again.plan) \in DriverProcs \cup NvcgoProcs
          /\ ~TakesHandle(Head(again.plan)) /\ Head(again.plan) # "driver_get_device_mig_device"
      BY Zenon, <3>2, PlanOfAll DEF DriverProcs, TakesHandle, HandleProcs
    <3>4. HandleReady(again, deviceHandles, requests[Program(Head(again.plan))])
      BY Zenon, <3>3 DEF HandleReady
    <3>5. CallsTyped' /\ MessagesInv' /\ CurrentInv' /\ Waiting' /\ SameOperation(client', again)
      BY Zenon, <1>7, <3>1, <3>2, <3>3, <3>4, CallMade
    <3>6. /\ client'.op = "info" /\ client'.plan = init_nvc_device /\ client'.i = n
          /\ client'.rv = client.rv /\ client'.err = client.err /\ client'.out = client.out
      BY Zenon, <3>2, <3>5 DEF SameOperation
    <3>7. Reading(gpus', wsl', n + 1, Filled(client'.plan), client'.of)
      BY Zenon, <2>2, <2>4, <3>6, PlanOfAll
    <3>8. (n + 1) - 1 = client'.i /\ client'.i \in Nat /\ n + 1 \in Nat
      BY <3>6
    <3>9. InfoInv'
      BY Zenon, <1>6, <3>5, <3>6, <3>7, <3>8, PlanOfAll, ReadingKeepsInfo
    <3>10. ResultInv'
      BY Zenon, <3>6 DEF CallsInv, ResultInv
    <3> QED
      BY Zenon, <3>5, <3>9, <3>10 DEF CallsInv
  <2>5. CASE ~(n < Len(gpus'))
    <3>1. n = Len(gpus')
      BY <2>3, <2>5
    <3>2. Return(0, "none", Null)
      BY Zenon, <1>1, <1>4, <1>6, <1>8, <1>11, <2>5
    <3>3. /\ CallsTyped' /\ MessagesInv' /\ CurrentInv' /\ ~Waiting'
          /\ client'.rv = 0 /\ client'.out = Null
      BY Zenon, <3>2, Returned
    <3>4. InfoInv'
      BY Zenon, <1>6, <2>2, <3>1, <3>3 DEF InfoInv, Reading
    <3>5. 0 # -1
      OBVIOUS
    <3>6. ResultInv'
      BY Zenon, <3>3, <3>5 DEF ResultInv, OutTrue
    <3> QED
      BY Zenon, <3>3, <3>4, <3>6 DEF CallsInv
  <2> QED
    BY Zenon, <2>4, <2>5
<1> QED
  BY Zenon, <1>10, <1>11

-----------------------------------------------------------------------------
(* What is left of the plan of a getter. *)
QuerySteps(q, plan) ==
  LET p == Head(plan)
      t == Tail(plan) IN
  /\ plan # <<>>
  /\ Len(plan) > 1 =>
       /\ p \in {"driver_get_device", "driver_get_device_mig_device"} /\ t # <<>> /\ t \in QueryPlans(q)
       /\ TakesHandle(Head(t)) /\ Head(t) \in DriverProcs
       /\ Head(t) = "driver_get_device_mig_device" => p = "driver_get_device"
  /\ ~(Len(plan) > 1) => p = ProcOf(q)

LEMMA PlanOfGetter ==
  ASSUME NEW q \in Getters, NEW plan \in QueryPlans(q)
  PROVE  QuerySteps(q, plan)
<1>0. PICK t : t = Tail(plan)
  BY Zenon
<1> DEFINE ids == {"driver_get_device_gpu_instance_id", "driver_get_device_compute_instance_id"}
<1>1. ASSUME NEW a, NEW b, plan = <<a, b>>, a \in {"driver_get_device", "driver_get_device_mig_device"},
             <<b>> \in QueryPlans(q), b \in HandleProcs
      PROVE  QuerySteps(q, plan)
  <2>1. plan # <<>> /\ Head(plan) = a /\ Len(plan) > 1
    BY <1>1
  <2>2. t = <<b>>
    BY <1>0, <1>1
  <2>3. t # <<>> /\ Head(t) = b
    BY <2>2
  <2>4. TakesHandle(b) /\ b \in DriverProcs /\ b # "driver_get_device_mig_device"
    BY Zenon, <1>1 DEF TakesHandle, DriverProcs, HandleProcs
  <2> QED
    BY Zenon, <1>0, <1>1, <2>1, <2>2, <2>3, <2>4 DEF QuerySteps
<1>2. ASSUME plan = <<ProcOf(q)>>
      PROVE  QuerySteps(q, plan)
  <2>1. plan # <<>> /\ Head(plan) = ProcOf(q) /\ ~(Len(plan) > 1)
    BY <1>2
  <2> QED
    BY Zenon, <2>1 DEF QuerySteps
<1>3. CASE q \in ids
  <2>1. QueryPlans(q) = {<<"driver_get_device", "driver_get_device_mig_device", q>>,
                         <<"driver_get_device_mig_device", q>>, <<q>>}
    BY Zenon, <1>3 DEF QueryPlans
  <2>2. ProcOf(q) = q /\ q \in HandleProcs
    BY Zenon, <1>3 DEF ProcOf, HandleProcs
  <2>3. CASE plan = <<"driver_get_device", "driver_get_device_mig_device", q>>
    <3>1. plan # <<>> /\ Head(plan) = "driver_get_device" /\ Len(plan) > 1
      BY <2>3
    <3>2. t = <<"driver_get_device_mig_device", q>>
      BY <1>0, <2>3
    <3>3. t # <<>> /\ Head(t) = "driver_get_device_mig_device"
      BY <3>2
    <3>4. TakesHandle("driver_get_device_mig_device") /\ "driver_get_device_mig_device" \in DriverProcs
      BY Zenon DEF TakesHandle, DriverProcs
    <3> QED
      BY Zenon, <1>0, <2>1, <3>1, <3>2, <3>3, <3>4 DEF QuerySteps
  <2>4. CASE plan = <<"driver_get_device_mig_device", q>>
    BY Zenon, <1>1, <2>1, <2>2, <2>4
  <2>5. CASE plan = <<q>>
    BY Zenon, <1>2, <2>2, <2>5
  <2> QED
    BY Zenon, <2>1, <2>3, <2>4, <2>5
<1>4. CASE q \notin ids /\ ProcOf(q) \in HandleProcs
  <2>1. QueryPlans(q) = {<<"driver_get_device", ProcOf(q)>>, <<ProcOf(q)>>}
    BY Zenon, <1>4 DEF QueryPlans
  <2> QED
    BY Zenon, <1>1, <1>2, <1>4, <2>1
<1>5. CASE q \notin ids /\ ProcOf(q) \notin HandleProcs
  <2>1. QueryPlans(q) = {<<q>>}
    BY Zenon, <1>5 DEF QueryPlans
  <2>2. ProcOf(q) = q
    BY Zenon, <1>5 DEF ProcOf, HandleProcs
  <2> QED
    BY Zenon, <1>2, <2>1, <2>2
<1> QED
  BY Zenon, <1>3, <1>4, <1>5

(* The procedure behind a getter other than those of the MIG mode. *)
LEMMA ProcOfGetter ==
  ASSUME NEW q \in Getters
  PROVE  /\ q \in {"mig_enabled", "mig_capable"} => ProcOf(q) = "driver_get_device_mig_mode"
         /\ q \notin {"mig_enabled", "mig_capable"} =>
              /\ ProcOf(q) = q
              /\ \/ q = "driver_get_cuda_version" \/ q = "driver_get_rm_version" \/ q \in NvcgoProcs
                 \/ q \in HandleProcs \ {"driver_get_device_mig_mode"}
BY DEF ProcOf, Getters, NvcgoProcs, HandleProcs

(* What the last call of a getter hands out is true. *)
LEMMA ResultIsTrue ==
  ASSUME NEW q \in Getters, q \notin {"mig_enabled", "mig_capable"}, NEW c, NEW handles, NEW v,
         Truthful(c, handles, q, v)
  PROVE  OutTrue(<<q, c.of, v>>)
<1>1. PICK o : o = <<q, c.of, v>>
  BY Zenon
<1>2. o[1] = q /\ o[2] = c.of /\ o[3] = v
  BY <1>1
<1>3. q # "mig_enabled" /\ q # "mig_capable"
  BY Zenon
<1>4. CASE q = "driver_get_cuda_version"
  <2>1. Program(q) = "driver" /\ v \in {<<9, 2>>, <<11, 4>>}
    BY Zenon, <1>4, Procedures DEF DriverProcs, Truthful
  <2>2. OutTrue(o)
    BY Zenon, <1>2, <1>4, <2>1 DEF OutTrue
  <2> QED
    BY Zenon, <1>1, <2>2
<1>5. CASE q = "driver_get_rm_version"
  <2>1. Program(q) = "driver" /\ v = <<"rm">>
    BY Zenon, <1>5, Procedures DEF DriverProcs, Truthful
  <2>2. OutTrue(o)
    BY Zenon, <1>2, <1>5, <2>1 DEF OutTrue
  <2> QED
    BY Zenon, <1>1, <2>2
<1>6. CASE q \in NvcgoProcs
  <2>1. Program(q) = "nvcgo" /\ v = <<q>> /\ q # "driver_get_cuda_version" /\ q # "driver_get_rm_version"
    BY Zenon, <1>6, Procedures DEF DriverProcs, Truthful
  <2>2. OutTrue(o)
    BY Zenon, <1>2, <1>3, <2>1 DEF OutTrue
  <2> QED
    BY Zenon, <1>1, <2>2
<1>7. CASE q \in HandleProcs \ {"driver_get_device_mig_mode"}
  <2>1. /\ Program(q) = "driver" /\ v = <<q, c.of>>
        /\ q # "driver_get_cuda_version" /\ q # "driver_get_rm_version"
    BY Zenon, <1>7, Procedures DEF DriverProcs, HandleProcs, Truthful
  <2>2. OutTrue(o)
    BY Zenon, <1>2, <1>3, <2>1 DEF OutTrue
  <2> QED
    BY Zenon, <1>1, <2>2
<1> QED
  BY Zenon, <1>4, <1>5, <1>6, <1>7, ProcOfGetter

(* A getter returns. *)
LEMMA GetterReturned ==
  ASSUME CallsInv, FewerReplies, UNCHANGED <<enumeration, deviceHandles, wsl, gpus, strings>>,
         gpus = <<>>, NEW rv, NEW out, Return(rv, "none", out), OutTrue(out),
         rv = -1 => client.op \in {"mig_enabled", "mig_capable"}
  PROVE  CallsInv'
<1>1. /\ CallsTyped' /\ MessagesInv' /\ CurrentInv' /\ ~Waiting'
      /\ client'.op = client.op /\ client'.rv = rv /\ client'.out = out
  BY Zenon, Returned
<1>2. 1 .. 0 = {}
  OBVIOUS
<1>3. InfoInv'
  BY Zenon, <1>1, <1>2, EmptyIsSequence DEF CallsInv, InfoInv
<1>4. ResultInv'
  BY Zenon, <1>1 DEF ResultInv
<1> QED
  BY Zenon, <1>1, <1>3, <1>4 DEF CallsInv

(* The two getters of the MIG mode. *)
LEMMA ModeGot ==
  ASSUME NEW v, client.op \in {"mig_enabled", "mig_capable"},
         Truthful(client, deviceHandles, "driver_get_device_mig_mode", v),
         \/ client.op = "mig_enabled" /\ driver_get_device_mig_enabled(v)
         \/ client.op = "mig_capable" /\ driver_get_device_mig_capable(v)
  PROVE  \E rv, out : Return(rv, "none", out) /\ OutTrue(out)
<1>1. \E rv, out : /\ Return(rv, "none", out)
                   /\ \/ out = Null
                      \/ \E b : /\ out = <<client.op, client.of, b>>
                                /\ client.op = "mig_enabled" /\ b => client.of \in MigDevices
  <2>1. CASE client.op = "mig_enabled"
    <3>1. driver_get_device_mig_enabled(v) /\ (v[1] = "ok" /\ v[2] = 1 => client.of \in MigDevices)
      BY Zenon, <2>1 DEF Truthful
    <3>2. CASE v[1] = "ok"
      <4>1. Return(0, "none", <<client.op, client.of, v[2] = 1>>)
        BY <3>1, <3>2 DEF driver_get_device_mig_enabled
      <4> QED
        BY Zenon, <3>1, <3>2, <4>1
    <3>3. CASE v[1] \in {"function_not_found", "not_supported"}
      <4>1. Return(0, "none", <<client.op, client.of, FALSE>>)
        BY <3>1, <3>3 DEF driver_get_device_mig_enabled
      <4> QED
        BY Zenon, <4>1
    <3>4. CASE v[1] # "ok" /\ v[1] \notin {"function_not_found", "not_supported"}
      <4>1. Return(-1, "none", Null)
        BY <3>1, <3>4 DEF driver_get_device_mig_enabled
      <4> QED
        BY Zenon, <4>1
    <3> QED
      BY Zenon, <3>2, <3>3, <3>4
  <2>2. CASE client.op = "mig_capable"
    <3>1. driver_get_device_mig_capable(v) /\ client.op # "mig_enabled"
      BY Zenon, <2>2
    <3>2. CASE v[1] = "ok"
      <4>1. Return(0, "none", <<client.op, client.of, TRUE>>)
        BY <3>1, <3>2 DEF driver_get_device_mig_capable
      <4> QED
        BY Zenon, <3>1, <4>1
    <3>3. CASE v[1] \in {"function_not_found", "not_supported"}
      <4>1. Return(0, "none", <<client.op, client.of, FALSE>>)
        BY <3>1, <3>3 DEF driver_get_device_mig_capable
      <4> QED
        BY Zenon, <3>1, <4>1
    <3>4. CASE v[1] # "ok" /\ v[1] \notin {"function_not_found", "not_supported"}
      <4>1. Return(-1, "none", Null)
        BY <3>1, <3>4 DEF driver_get_device_mig_capable
      <4> QED
        BY Zenon, <4>1
    <3> QED
      BY Zenon, <3>2, <3>3, <3>4
  <2> QED
    BY Zenon, <2>1, <2>2
<1>2. ASSUME NEW b, client.op = "mig_enabled" /\ b => client.of \in MigDevices
      PROVE  OutTrue(<<client.op, client.of, b>>)
  <2>1. PICK o : o = <<client.op, client.of, b>>
    BY Zenon
  <2>2. o[1] = client.op /\ o[2] = client.of /\ o[3] = b
    BY <2>1
  <2>0. Program(client.op) = "driver"
    BY DEF Program, NvcgoArms
  <2>3. CASE client.op = "mig_enabled"
    <3>1. o[3] => o[2] \in MigDevices
      BY Zenon, <1>2, <2>2, <2>3
    <3>2. OutTrue(o)
      BY Zenon, <2>0, <2>2, <2>3, <3>1 DEF OutTrue
    <3> QED
      BY Zenon, <2>1, <3>2
  <2>4. CASE client.op = "mig_capable"
    <3>1. OutTrue(o)
      BY Zenon, <2>0, <2>2, <2>4 DEF OutTrue
    <3> QED
      BY Zenon, <2>1, <3>1
  <2> QED
    BY Zenon, <2>3, <2>4
<1>3. OutTrue(Null)
  BY Zenon DEF OutTrue
<1> QED
  BY Zenon, <1>1, <1>2, <1>3

(* An answer to a getter came. *)
LEMMA GetterGot ==
  ASSUME CallsInv, FewerReplies, UNCHANGED <<enumeration, deviceHandles, wsl>>,
         Waiting, client.op # "info", requests[Source] = <<>>,
         NEW v, Truthful(client, deviceHandles, Head(client.plan), v), QueryGot(v)
  PROVE  CallsInv'
<1> DEFINE plan == client.plan
           p == Head(plan)
           next == [client EXCEPT !.plan = Tail(@), !.h = v]
<1>1. gpus = <<>> /\ client.op \in Getters /\ plan \in QueryPlans(client.op)
  BY Zenon DEF CallsInv, InfoInv
<1>2. QuerySteps(client.op, plan)
  BY Zenon, <1>1, PlanOfGetter
<1>3. UNCHANGED <<gpus, strings>>
  BY Zenon DEF QueryGot
<1>4. CASE Len(plan) > 1 /\ v = Null
  <2>1. Return(0, "none", Null)
    BY Zenon, <1>4 DEF QueryGot
  <2>2. OutTrue(Null) /\ 0 # -1
    BY DEF OutTrue
  <2> QED
    BY Zenon, <1>1, <1>3, <2>1, <2>2, GetterReturned
<1>5. CASE Len(plan) > 1 /\ v # Null
  <2>1. Call(next)
    BY Zenon, <1>5 DEF QueryGot
  <2>2. /\ p \in {"driver_get_device", "driver_get_device_mig_device"} /\ Tail(plan) # <<>>
        /\ Tail(plan) \in QueryPlans(client.op) /\ TakesHandle(Head(Tail(plan))) /\ Head(Tail(plan)) \in DriverProcs
        /\ Head(Tail(plan)) = "driver_get_device_mig_device" => p = "driver_get_device"
    BY Zenon, <1>2, <1>5 DEF QuerySteps
  <2>3. Record(client) /\ client.i \in Nat /\ client.j \in Nat
    BY Zenon DEF CallsInv, CallsTyped
  <2>4. /\ Record(next) /\ next.op = client.op /\ next.plan = Tail(plan) /\ next.h = v
        /\ next.i = client.i /\ next.j = client.j
        /\ next.rv = client.rv /\ next.err = client.err /\ next.out = client.out
    BY Zenon, <2>3 DEF Record, ClientFields
  <2> HIDE DEF next
  <2>5. v \in Handles /\ deviceHandles[v] # Null /\ (p = "driver_get_device" => v \in DeviceHandles)
    BY Zenon, <1>5, <2>2 DEF Truthful, DeviceHandles, Handles
  <2>6. Source = "driver" /\ Program(Head(next.plan)) = "driver"
    <3>1. p \in DriverProcs
      BY Zenon, <2>2 DEF DriverProcs
    <3> QED
      BY Zenon, <2>2, <2>4, <3>1, Procedures DEF Source
  <2>7. HandleReady(next, deviceHandles, requests[Program(Head(next.plan))])
    BY Zenon, <2>2, <2>4, <2>5, <2>6 DEF HandleReady
  <2>8. CallsTyped' /\ MessagesInv' /\ CurrentInv' /\ Waiting' /\ SameOperation(client', next)
    BY Zenon, <2>1, <2>2, <2>3, <2>4, <2>7, CallMade
  <2>9. /\ client'.op = client.op /\ client'.plan = Tail(plan)
        /\ client'.rv = client.rv /\ client'.err = client.err /\ client'.out = client.out
    BY Zenon, <2>4, <2>8 DEF SameOperation
  <2>10. 1 .. 0 = {}
    OBVIOUS
  <2>11. InfoInv'
    BY Zenon, <1>1, <1>3, <2>2, <2>8, <2>9, <2>10, EmptyIsSequence DEF CallsInv, InfoInv
  <2>12. ResultInv'
    BY Zenon, <2>9 DEF CallsInv, ResultInv
  <2> QED
    BY Zenon, <2>8, <2>11, <2>12 DEF CallsInv
<1>6. CASE ~(Len(plan) > 1)
  <2>1. p = ProcOf(client.op)
    BY Zenon, <1>2, <1>6 DEF QuerySteps
  <2>2. CASE client.op \in {"mig_enabled", "mig_capable"}
    <3>1. p = "driver_get_device_mig_mode"
      BY Zenon, <1>1, <2>1, <2>2, ProcOfGetter
    <3>2. \/ client.op = "mig_enabled" /\ driver_get_device_mig_enabled(v)
          \/ client.op = "mig_capable" /\ driver_get_device_mig_capable(v)
      BY Zenon, <1>6, <2>2 DEF QueryGot
    <3>3. \E rv, out : Return(rv, "none", out) /\ OutTrue(out)
      <4>1. Truthful(client, deviceHandles, "driver_get_device_mig_mode", v)
        BY Zenon, <3>1
      <4> QED
        BY SMT, <2>2, <3>2, <4>1, ModeGot
    <3> QED
      BY Zenon, <1>1, <1>3, <2>2, <3>3, GetterReturned
  <2>3. CASE client.op \notin {"mig_enabled", "mig_capable"}
    <3>1. p = client.op
      BY Zenon, <1>1, <2>1, <2>3, ProcOfGetter
    <3>2. Return(0, "none", <<client.op, client.of, v>>)
      BY Zenon, <1>6, <2>3 DEF QueryGot
    <3>3. OutTrue(<<client.op, client.of, v>>)
      BY Zenon, <1>1, <2>3, <3>1, ResultIsTrue
    <3>4. 0 # -1
      OBVIOUS
    <3> QED
      BY Zenon, <1>1, <1>3, <3>2, <3>3, <3>4, GetterReturned
  <2> QED
    BY Zenon, <2>2, <2>3
<1> QED
  BY Zenon, <1>4, <1>5, <1>6

(* The answer to the call that waits comes. *)
LEMMA ReceiveStep ==
  ASSUME CallsInv, Receive
  PROVE  CallsInv'
<1> DEFINE r == Head(replies[Source])
           p == Head(client.plan)
<1>1. /\ Waiting /\ replies[Source] # <<>> /\ r.xid = client.xid
      /\ replies' = [replies EXCEPT ![Source] = Tail(@)]
      /\ UNCHANGED <<enumeration, deviceHandles, wsl>>
      /\ IF r.stat # "ok" THEN Fail("rpc")
         ELSE IF r.res.errcode # "ok" THEN \E e \in error_from_xdr(r.res.errcode) : Fail(e)
         ELSE \/ IF client.op = "info" THEN InfoGot(r.res.val) ELSE QueryGot(r.res.val)
              \/ (Arms[p] \in {"string", "pair"} \/ FieldOf(p) = "node") /\ Fail("nomem")
  BY Zenon DEF Receive, Matches
<1>2. Source \in Services
  BY Zenon DEF Source, Program, Services
<1>3. FewerReplies
  BY <1>1, <1>2, AnswerRead DEF FewerReplies
<1>4. r = replies[Source][1] /\ 1 \in 1 .. Len(replies[Source])
  <2>1. Sequence(replies[Source])
    BY Zenon, <1>2 DEF CallsInv, CallsTyped
  <2>2. Len(replies[Source]) \in Nat /\ Len(replies[Source]) # 0 /\ r = replies[Source][1]
    BY <1>1, <2>1, SequenceFacts
  <2> QED
    BY <2>2
<1>5. /\ ReplyOk(r) /\ requests[Source] = <<>>
      /\ Successful(r) => Truthful(client, deviceHandles, p, r.res.val)
  BY Zenon, <1>1, <1>2, <1>4 DEF CallsInv, CurrentInv, Current, MessagesInv
<1> HIDE DEF r
<1>6. CASE \E e : e # "none" /\ Fail(e)
  BY Zenon, <1>1, <1>3, <1>6, Failed
<1>7. CASE r.stat # "ok"
  <2>1. Fail("rpc") /\ "rpc" # "none"
    BY Zenon, <1>1, <1>7
  <2> QED
    BY Zenon, <1>6, <2>1
<1>8. CASE r.stat = "ok" /\ r.res.errcode # "ok"
  <2>1. \E e \in {r.res.errcode, "nomem"} : Fail(e)
    BY Zenon, <1>1, <1>8 DEF error_from_xdr
  <2>2. r.res.errcode # "none" /\ "nomem" # "none"
    BY Zenon, <1>5, <1>8 DEF ReplyOk
  <2> QED
    BY Zenon, <1>6, <2>1, <2>2
<1>9. CASE r.stat = "ok" /\ r.res.errcode = "ok"
  <2>1. \/ Fail("nomem")
        \/ client.op = "info" /\ InfoGot(r.res.val)
        \/ client.op # "info" /\ QueryGot(r.res.val)
    BY Zenon, <1>1, <1>9
  <2>2. Truthful(client, deviceHandles, p, r.res.val)
    BY Zenon, <1>5, <1>9 DEF Successful
  <2>3. CASE Fail("nomem")
    <3>1. "nomem" # "none"
      BY Zenon
    <3> QED
      BY Zenon, <1>6, <2>3, <3>1
  <2>4. CASE client.op # "info" /\ QueryGot(r.res.val)
    BY Zenon, <1>1, <1>3, <1>5, <2>2, <2>4, GetterGot
  <2>5. CASE client.op = "info" /\ InfoGot(r.res.val)
    <3>1. CASE client.plan = <<"driver_get_device_count">> /\ client.i = 0 /\ gpus = <<>>
      <4>1. p = "driver_get_device_count"
        BY <3>1
      <4>2. r.res.val \in Nat
        BY Zenon, <2>2, <4>1 DEF Truthful
      <4> QED
        BY Zenon, <1>1, <1>3, <2>5, <3>1, <4>2, CountGot
    <3>2. CASE client.plan \in DevicePlans(wsl)
      BY Zenon, <1>1, <1>3, <1>5, <2>2, <2>5, <3>2, DeviceGot
    <3> QED
      BY Zenon, <1>1, <2>5, <3>1, <3>2 DEF CallsInv, InfoInv
  <2> QED
    BY Zenon, <2>1, <2>3, <2>4, <2>5
<1> QED
  BY Zenon, <1>7, <1>8, <1>9

-----------------------------------------------------------------------------
LEMMA CallsInvInit == CallsInit => CallsInv
<1> SUFFICES ASSUME CallsInit
             PROVE  CallsInv
  OBVIOUS
<1>1. /\ Sequence(<<>>) /\ Len(<<>>) = 0 /\ 1 .. 0 = {}
  BY EmptyIsSequence
<1>2. /\ requests = [s \in Services |-> <<>>] /\ replies = [s \in Services |-> <<>>]
      /\ deviceHandles = [h \in Handles |-> Null] /\ enumeration \in Seq(Devices) /\ wsl \in BOOLEAN
      /\ gpus = <<>> /\ strings = 0
  BY Zenon, DriverCallsAssumption DEF CallsInit, Services
<1>3. /\ Record(client) /\ client.plan = <<>> /\ client.i = 0 /\ client.j = 0 /\ client.out = Null /\ client.rv = 0
  BY DEF CallsInit, Record, ClientFields
<1>4. 0 \in Nat /\ 0 # -1
  OBVIOUS
<1>5. CallsTyped
  BY Zenon, <1>1, <1>2, <1>3, <1>4 DEF CallsTyped
<1>6. MessagesInv
  BY Zenon, <1>1, <1>2 DEF MessagesInv
<1>7. ~Waiting
  BY Zenon, <1>3 DEF Waiting
<1>8. CurrentInv /\ ResultInv
  BY Zenon, <1>3, <1>4, <1>7 DEF CurrentInv, ResultInv, OutTrue
<1>9. InfoInv
  BY Zenon, <1>1, <1>2, <1>7, NothingInNothing DEF InfoInv
<1> QED
  BY Zenon, <1>5, <1>6, <1>8, <1>9 DEF CallsInv

LEMMA CallsInvNext == CallsInv /\ [CallsNext]_callvars => CallsInv'
<1> SUFFICES ASSUME CallsInv, [CallsNext]_callvars
             PROVE  CallsInv'
  OBVIOUS
<1>1. CASE nvc_device_info_new
  BY Zenon, <1>1, InfoNewStep
<1>2. CASE \E q \in Queries : Query_(q)
  BY Zenon, <1>2, QueryStep
<1>3. CASE FreeInfo
  BY Zenon, <1>3, FreeStep
<1>4. CASE ClientStep
  BY Zenon, <1>4, ReceiveStep, LateStep, FailsStep DEF ClientStep
<1>5. CASE driver_program_1
  BY Zenon, <1>5, DriverStep
<1>6. CASE nvcgo_program_1
  BY Zenon, <1>6, NvcgoStep
<1>7. CASE ServiceDies
  BY Zenon, <1>7, DiesStep
<1>8. CASE EnumerationChanges
  BY Zenon, <1>8, ChangesStep
<1>9. CASE UNCHANGED callvars
  <2>1. UNCHANGED <<enumeration, deviceHandles, requests, replies, client, gpus, strings, wsl>>
    BY Zenon, <1>9 DEF callvars
  <2>2. CallsTyped' /\ MessagesInv'
    BY Zenon, <2>1 DEF CallsInv, CallsTyped, MessagesInv
  <2>3. CurrentInv'
    BY Zenon, <2>1 DEF CallsInv, CurrentInv, Waiting, Source
  <2> QED
    BY Zenon, <2>1, <2>2, <2>3, ClientKept DEF CallsInv
<1> QED
  BY Zenon, <1>1, <1>2, <1>3, <1>4, <1>5, <1>6, <1>7, <1>8, <1>9 DEF CallsNext

LEMMA CallsInvImplies == CallsInv => AnswersAreTrue /\ FailuresAreClean
<1> SUFFICES ASSUME CallsInv
             PROVE  AnswersAreTrue /\ FailuresAreClean
  OBVIOUS
<1>1. FailuresAreClean
  BY Zenon DEF CallsInv, InfoInv, ResultInv, FailuresAreClean
<1>2. DOMAIN NoGpu = Fields
  BY DEF NoGpu, Fields
<1>3. Sequence(gpus) /\ DOMAIN gpus = 1 .. Len(gpus)
  BY Zenon, SequenceFacts DEF CallsInv, InfoInv
<1>4. ASSUME NEW k \in DOMAIN gpus
      PROVE  /\ Cardinality({gpus[k][f][2] : f \in {g \in DOMAIN NoGpu : gpus[k][g] # Null}}) <= 1
             /\ ~Waiting => \A f \in DOMAIN NoGpu : gpus[k][f] # Null \/ (f = "node" /\ wsl)
  <2> DEFINE D == {gpus[k][f][2] : f \in {g \in DOMAIN NoGpu : gpus[k][g] # Null}}
  <2>1. ~Waiting => \A f \in DOMAIN NoGpu : gpus[k][f] # Null \/ (f = "node" /\ wsl)
    BY Zenon, <1>2, <1>3 DEF CallsInv, InfoInv, Complete
  <2>2. \A x, y \in D : x = y
    BY Zenon, <1>2, <1>3 DEF CallsInv, InfoInv, OneDevice
  <2> HIDE DEF D
  <2>3. CASE D = {}
    <3>1. Cardinality(D) = 0
      BY Zenon, <2>3, FS_EmptySet
    <3> QED
      BY <2>1, <3>1 DEF D
  <2>4. CASE D # {}
    <3>0. PICK x : x \in D
      BY Zenon, <2>4
    <3>1. D = {x}
      BY Zenon, <2>2, <3>0
    <3>2. Cardinality(D) = 1
      BY Zenon, <3>1, FS_Singleton
    <3> QED
      BY <2>1, <3>2 DEF D
  <2> QED
    BY Zenon, <2>3, <2>4
<1>5. ASSUME NEW k \in DOMAIN requests["driver"],
             requests["driver"][k].shape # <<>>, requests["driver"][k].shape[1] = "ptr"
      PROVE  requests["driver"][k].args[1] \in Handles /\ deviceHandles[requests["driver"][k].args[1]] # Null
  <2>1. PICK r : r = requests["driver"][k]
    BY Zenon
  <2>2. "driver" \in Services
    BY Zenon DEF Services
  <2>3. k \in 1 .. Len(requests["driver"])
    BY Zenon, <2>2, SequenceFacts DEF CallsInv, CallsTyped
  <2>4. RequestOk(deviceHandles, "driver", r)
    BY Zenon, <2>1, <2>2, <2>3 DEF CallsInv, MessagesInv
  <2>5. r.proc \in DriverProcs /\ r.shape = DriverArguments(r.proc) /\ r.shape # <<>> /\ r.shape[1] = "ptr"
    BY Zenon, <1>5, <2>1, <2>4 DEF RequestOk
  <2>6. r.proc # "driver_get_device"
    BY <2>5, Procedures
  <2>7. r.proc \notin {"driver_get_rm_version", "driver_get_cuda_version", "driver_get_device_count"}
    BY Zenon, <2>5, Procedures
  <2>8. r.proc \in HandleProcs \cup {"driver_get_device_mig_device"}
    BY Zenon, <2>5, <2>6, <2>7 DEF DriverProcs
  <2>9. DeviceHandles \subseteq Handles
    BY Zenon DEF DeviceHandles, Handles
  <2>10. r.args[1] \in Handles /\ deviceHandles[r.args[1]] # Null
    BY Zenon, <2>4, <2>8, <2>9 DEF RequestOk
  <2> QED
    BY Zenon, <2>1, <2>10
<1>6. OutTrue(client.out)
  BY Zenon DEF CallsInv, ResultInv
<1> QED
  BY Zenon, <1>1, <1>4, <1>5, <1>6 DEF AnswersAreTrue, OutTrue

(* For any devices, any changes of their enumeration and answers that come *)
(* at any time or never, a getter hands out what is true of the device     *)
(* behind the handle it was given, every pointer that is sent was filled   *)
(* by the service, and nvc_device_info_new reports each entry from one     *)
(* device.                                                                 *)
THEOREM AnswersTrue == CallsSpec => []AnswersAreTrue
<1>1. CallsInit => CallsInv
  BY CallsInvInit
<1>2. CallsInv /\ [CallsNext]_callvars => CallsInv'
  BY CallsInvNext
<1>3. CallsInv => AnswersAreTrue
  BY CallsInvImplies
<1> QED
  BY <1>1, <1>2, <1>3, PTL DEF CallsSpec

(* However an operation of the client ends, its error has a reason, except *)
(* that of the getters of the MIG mode, and nvc_device_info_free has freed *)
(* every string the caller cannot reach.                                   *)
THEOREM FailuresClean == CallsSpec => []FailuresAreClean
<1>1. CallsInit => CallsInv
  BY CallsInvInit
<1>2. CallsInv /\ [CallsNext]_callvars => CallsInv'
  BY CallsInvNext
<1>3. CallsInv => FailuresAreClean
  BY CallsInvImplies
<1> QED
  BY <1>1, <1>2, <1>3, PTL DEF CallsSpec
=============================================================================
