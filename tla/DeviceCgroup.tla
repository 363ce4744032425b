---------------------------- MODULE DeviceCgroup ----------------------------
(***************************************************************************)
(* Allowing devices in the cgroup of a container. The library looks up the *)
(* version and the path of the cgroup when a container is created and then *)
(* asks for one device after another (nvc_container.c, cgroup.c); the      *)
(* nvcgo service executes the requests one at a time, with its effective   *)
(* capabilities raised (cgroup.c), by writing to devices.allow (v1.go) or  *)
(* by rewriting the eBPF device filters of the cgroup (v2.go, ebpf.go).    *)
(***************************************************************************)
EXTENDS Integers, Sequences

CONSTANTS
  Devices,            \* <<major, minor>> of the devices that exist
  Wanted,             \* those the library asks for
  FilterChoices,      \* filters attached when the container was created
  EntryChoices,       \* controllers listed in /proc/<pid>/cgroup
  MaxRequests,        \* bound on the requests of the library
  MaxReplaced         \* bound on filters replaced behind our back

Request == [type : {"c", "b"}, access : {{"r"}, {"w"}, {"r", "w"}, {"m"}}, dev : Devices]

(* A filter accepts what its own instructions do, and the devices for      *)
(* which a block was put before them; some we may not read.                *)
Filter == [id : Nat, added : SUBSET Devices, base : SUBSET Request, hidden : BOOLEAN]

ASSUME DeviceCgroupAssumption ==
  /\ Wanted \subseteq Devices
  /\ \A fs \in FilterChoices : fs \in Seq(Filter) /\ \A i \in 1 .. Len(fs) : fs[i].id = i /\ fs[i].added = {}
  /\ EntryChoices \subseteq SUBSET {"devices", "unified"}
  /\ MaxRequests \in Nat /\ MaxReplaced \in Nat

VARIABLES
  entries,   \* controllers the cgroup file of the process lists
  filters,   \* attached eBPF programs, in order
  lastid,    \* number of the program loaded last
  list,      \* devices in the list of the v1 controller
  cnt,       \* container: how far it is set up, and its cgroup version
  client,    \* request the library waits for, and its result
  svc,       \* the nvcgo service: request, program counter, locals, capabilities
  limit,     \* RLIMIT_MEMLOCK of the service
  nreq, nrep,                          \* counters
  runtime, granted, requested, clean   \* history: filters at first, devices, no failure

vars == <<entries, filters, lastid, list, cnt, client, svc, limit, nreq, nrep, runtime, granted, requested, clean>>

-----------------------------------------------------------------------------
(* appendDevice: the block of an allow rule for a character device with    *)
(* access "rw" accepts when one of the two is asked for.                   *)
\* variant: the minor number is not compared
Matches_AnyMinor(d, q) == q.type = "c" /\ q.access \cap {"r", "w"} # {} /\ q.dev[1] = d[1]

Matches(d, q) == q.type = "c" /\ q.access \cap {"r", "w"} # {} /\ q.dev = d

(* A program loads its registers again after the blocks put before it, so  *)
(* that the first block that matches decides, and the old program if none  *)
(* does. Every attached program has to accept.                             *)
Accepts(f, q) == (\E d \in f.added : Matches(d, q)) \/ q \in f.base

Allowed(q) == \A i \in 1..Len(filters) : Accepts(filters[i], q)
-----------------------------------------------------------------------------
(* The library. *)
At(pc) == svc.pc = pc

Free == [pc |-> "idle", op |-> "none", dev |-> <<>>, caps |-> svc.caps, rv |-> 0,
         ids |-> <<>>, old |-> <<>>, new |-> <<>>, version |-> 0]

(* A request reaches the service once it has ended the one before. *)
Call(op, dev) ==
  /\ client.op = "none" /\ At("idle") /\ nreq < MaxRequests
  /\ nreq' = nreq + 1
  /\ client' = [op |-> op, ret |-> 0]
  /\ svc' = [Free EXCEPT !.pc = "raise", !.op = op, !.dev = dev, !.rv = -1]
  /\ UNCHANGED <<runtime, entries, filters, lastid, list, cnt, limit, nrep, granted, clean>>

get_device_cgroup_version ==
  cnt.stage \in {"none", "failed"} /\ Call("version", <<>>) /\ UNCHANGED requested

find_device_cgroup_path ==
  cnt.stage = "versioned" /\ Call("path", <<>>) /\ UNCHANGED requested

setup_device_cgroup(d) ==
  cnt.stage = "ready" /\ Call("setup", d) /\ requested' = requested \cup {d}

(* nvc_container_new gives up on a failure, and takes any version that is  *)
(* not negative; a device is granted when its request succeeded.           *)
Receives(ret) ==
  /\ client' = [op |-> "none", ret |-> ret]
  /\ cnt' = CASE client.op = "version" ->
                   [stage |-> IF ret < 0 THEN "failed" ELSE "versioned", version |-> ret]
              [] client.op = "path" ->
                   [cnt EXCEPT !.stage = IF ret < 0 THEN "failed" ELSE "ready"]
              [] OTHER -> cnt
  /\ granted' = IF client.op = "setup" /\ ret = 0 THEN granted \cup {svc.dev} ELSE granted

(* The call times out; the service goes on with it. *)
GivesUp ==
  /\ client.op # "none" /\ Receives(-1)
  /\ UNCHANGED <<runtime, entries, filters, lastid, list, svc, limit, nreq, nrep, requested, clean>>
-----------------------------------------------------------------------------
(* The handlers of the service. *)
Goto(pc) == svc' = [svc EXCEPT !.pc = pc]

Fail(rv) == svc' = [svc EXCEPT !.pc = "drop", !.rv = rv] /\ clean' = FALSE

RaiseCaps ==
  /\ At("raise")
  /\ \/ /\ svc' = [svc EXCEPT !.pc = svc.op, !.caps = IF svc.op = "setup" THEN "mount" ELSE "container"]
        /\ UNCHANGED clean
     \/ Fail(-1)
  /\ UNCHANGED <<runtime, entries, filters, lastid, list, cnt, client, limit, nreq, nrep, granted, requested>>

(* GetDeviceCGroupVersion. The comparison with zero is inside the          *)
(* assignment: a failure leaves 1, and the zeroed result is sent.          *)
GetVersion ==
  /\ At("version")
  /\ \/ /\ entries # {}
        /\ svc' = [svc EXCEPT !.pc = "drop", !.rv = 0,
                              !.version = IF "devices" \in entries THEN 1 ELSE 2]
        /\ UNCHANGED clean
     \/ Fail(1)
  /\ UNCHANGED <<runtime, entries, filters, lastid, list, cnt, client, limit, nreq, nrep, granted, requested>>

(* New: there are interfaces for two versions. *)
New(version) == version \in {1, 2}

(* GetDeviceCGroupMountPath and GetDeviceCGroupRootPath read mountinfo and *)
(* cgroup files, and the path is joined.                                   *)
FindPath ==
  /\ At("path")
  /\ \/ /\ New(cnt.version)
        /\ svc' = [svc EXCEPT !.pc = "drop", !.rv = 0] /\ UNCHANGED clean
     \/ Fail(-1)
  /\ UNCHANGED <<runtime, entries, filters, lastid, list, cnt, client, limit, nreq, nrep, granted, requested>>

(* AddDeviceRules of version 1: one line is written to devices.allow. *)
AddDeviceRulesV1 ==
  /\ At("setup") /\ cnt.version # 2
  /\ \/ /\ New(cnt.version) /\ list' = list \cup {svc.dev}
        /\ svc' = [svc EXCEPT !.pc = "drop", !.rv = 0] /\ UNCHANGED clean
     \/ Fail(-1) /\ UNCHANGED list
  /\ UNCHANGED <<runtime, entries, filters, lastid, cnt, client, limit, nreq, nrep, granted, requested>>

(* AddDeviceRules of version 2: the cgroup is opened and asked for the     *)
(* numbers of its filters.                                                 *)
FindAttachedCgroupDeviceFilters ==
  /\ At("setup") /\ cnt.version = 2
  /\ \/ svc' = [svc EXCEPT !.pc = "find", !.ids = filters] /\ UNCHANGED clean
     \/ Fail(-1)
  /\ UNCHANGED <<runtime, entries, filters, lastid, list, cnt, client, limit, nreq, nrep, granted, requested>>

(* Each number is turned into a program; those that may not be read are    *)
(* passed over. One that was replaced meanwhile is gone, or kept by its    *)
(* owner.                                                                  *)
NewProgramFromID ==
  /\ At("find")
  /\ \/ svc.ids = <<>> /\ Goto("load") /\ UNCHANGED clean
     \/ /\ svc.ids # <<>>
        /\ svc' = [svc EXCEPT !.ids = Tail(@),
                              !.old = IF Head(svc.ids).hidden THEN @ ELSE Append(@, Head(svc.ids))]
        /\ UNCHANGED clean
     \/ svc.ids # <<>> /\ Fail(-1)
  /\ UNCHANGED <<runtime, entries, filters, lastid, list, cnt, client, limit, nreq, nrep, granted, requested>>

(* generateNewProgram for each filter found. Without any, the new program  *)
(* is our block and a bare return with no value in R0: the kernel refuses  *)
(* to load it.                                                             *)
\* variant: only the first filter is extended
generateNewProgram_First ==
  /\ At("load") /\ Len(svc.new) < Len(svc.old)
  /\ LET f == svc.old[Len(svc.new) + 1] IN
       svc' = [svc EXCEPT !.new = Append(@, IF @ = <<>> THEN [f EXCEPT !.added = @ \cup {svc.dev}] ELSE f)]
  /\ UNCHANGED <<runtime, entries, filters, lastid, list, cnt, client, limit, nreq, nrep, granted, requested, clean>>

\* variant: the bare program returns zero
generateNewProgram_Denies ==
  /\ At("load")
  /\ IF svc.old = <<>>
       THEN svc' = [svc EXCEPT !.pc = "attach",
                      !.new = <<[id |-> 0, added |-> {svc.dev}, base |-> {}, hidden |-> FALSE]>>]
       ELSE Len(svc.new) < Len(svc.old) /\ UNCHANGED svc
  /\ UNCHANGED <<runtime, entries, filters, lastid, list, cnt, client, limit, nreq, nrep, granted, requested, clean>>

generateNewProgram ==
  /\ At("load")
  /\ \/ /\ Len(svc.new) < Len(svc.old)
        /\ svc' = [svc EXCEPT !.new = Append(svc.new, [svc.old[Len(svc.new) + 1] EXCEPT !.added = @ \cup {svc.dev}])]
        /\ UNCHANGED clean
     \/ (svc.old = <<>> \/ Len(svc.new) < Len(svc.old)) /\ Fail(-1)
  /\ UNCHANGED <<runtime, entries, filters, lastid, list, cnt, client, limit, nreq, nrep, granted, requested>>

(* Setrlimit; its result is ignored. *)
RaiseMemlock ==
  /\ At("load") /\ svc.old # <<>> /\ Len(svc.new) = Len(svc.old)
  /\ limit' \in {limit, "raised"}
  /\ Goto("detach")
  /\ UNCHANGED <<runtime, entries, filters, lastid, list, cnt, client, nreq, nrep, granted, requested, clean>>

(* The filters found are detached one by one, which fails when one is not  *)
(* attached any more.                                                      *)
DetachCgroupDeviceFilter ==
  /\ At("detach")
  /\ \/ /\ svc.old = <<>> /\ Goto("attach")
        /\ UNCHANGED <<filters, clean>>
     \/ /\ svc.old # <<>>
        /\ \E i \in 1..Len(filters) :
             /\ filters[i].id = Head(svc.old).id
             /\ filters' = SubSeq(filters, 1, i - 1) \o SubSeq(filters, i + 1, Len(filters))
        /\ svc' = [svc EXCEPT !.old = Tail(@)] /\ UNCHANGED clean
     \/ svc.old # <<>> /\ Fail(-1) /\ UNCHANGED filters
  /\ UNCHANGED <<runtime, entries, lastid, list, cnt, client, limit, nreq, nrep, granted, requested>>

(* The kernel gives each program a number of its own. *)
NewId == lastid + 1

AttachCgroupDeviceFilter ==
  /\ At("attach")
  /\ \/ /\ svc.new = <<>>
        /\ svc' = [svc EXCEPT !.pc = "drop", !.rv = 0] /\ UNCHANGED <<filters, lastid, clean>>
     \/ /\ svc.new # <<>>
        /\ filters' = Append(filters, [Head(svc.new) EXCEPT !.id = NewId]) /\ lastid' = NewId
        /\ svc' = [svc EXCEPT !.new = Tail(@)] /\ UNCHANGED clean
     \/ svc.new # <<>> /\ Fail(-1) /\ UNCHANGED <<filters, lastid>>
  /\ UNCHANGED <<runtime, entries, list, cnt, client, limit, nreq, nrep, granted, requested>>

(* The capabilities are dropped and the result is sent; a library that     *)
(* gave up does not read it.                                               *)
Reply(rv, caps) ==
  /\ svc' = [Free EXCEPT !.caps = caps, !.rv = rv]
  /\ IF client.op = "none"
       THEN UNCHANGED <<client, cnt, granted>>
       ELSE Receives(IF rv < 0 THEN -1 ELSE IF svc.op = "version" THEN svc.version ELSE 0)

\* variant: failing to drop them is not an error
DropCaps_Silent ==
  /\ At("drop")
  /\ Reply(svc.rv, "none") \/ Reply(svc.rv, svc.caps)
  /\ UNCHANGED <<runtime, entries, filters, lastid, list, limit, nreq, nrep, requested, clean>>

DropCaps ==
  /\ At("drop")
  /\ Reply(svc.rv, "none") \/ Reply(-1, svc.caps)
  /\ UNCHANGED <<runtime, entries, filters, lastid, list, limit, nreq, nrep, requested, clean>>
-----------------------------------------------------------------------------
(* The manager of the cgroup puts a fresh program in the place of one of   *)
(* its own.                                                                *)
ManagerReplaces(i) ==
  /\ nrep < MaxReplaced /\ nrep' = nrep + 1
  /\ filters' = [filters EXCEPT ![i] = [@ EXCEPT !.added = {}, !.id = NewId]] /\ lastid' = NewId
  /\ clean' = FALSE
  /\ UNCHANGED <<runtime, entries, list, cnt, client, svc, limit, nreq, granted, requested>>

CgroupInit ==
  /\ entries \in EntryChoices
  /\ filters \in FilterChoices /\ lastid = Len(filters)
  /\ list = {}
  /\ cnt = [stage |-> "none", version |-> -1]
  /\ client = [op |-> "none", ret |-> 0]
  /\ svc = [pc |-> "idle", op |-> "none", dev |-> <<>>, caps |-> "none", rv |-> 0,
            ids |-> <<>>, old |-> <<>>, new |-> <<>>, version |-> 0]
  /\ limit = "low"
  /\ runtime = filters /\ nreq = 0 /\ nrep = 0 /\ granted = {} /\ requested = {} /\ clean = TRUE

ServiceStep ==
  \/ RaiseCaps \/ GetVersion \/ FindPath \/ AddDeviceRulesV1
  \/ FindAttachedCgroupDeviceFilters \/ NewProgramFromID \/ generateNewProgram \/ RaiseMemlock
  \/ DetachCgroupDeviceFilter \/ AttachCgroupDeviceFilter \/ DropCaps

CgroupNext ==
  \/ get_device_cgroup_version \/ find_device_cgroup_path
  \/ \E d \in Wanted : setup_device_cgroup(d)
  \/ GivesUp \/ ServiceStep
  \/ \E i \in 1..Len(filters) : ManagerReplaces(i)

CgroupSpec == CgroupInit /\ [][CgroupNext]_vars
-----------------------------------------------------------------------------
(* Whatever happens, a failure between two filters and a manager that      *)
(* replaces one included, a request that the filters of the container      *)
(* runtime accept is never refused because of what AddDeviceRules did.     *)
NeverStricter ==
  \A q \in Request :
    (\A i \in 1..Len(runtime) : q \in runtime[i].base) => Allowed(q)

(* A device whose request succeeded stays usable while later requests      *)
(* rewrite the filters, fail half way or are abandoned: every filter that  *)
(* can be read accepts it, or it is in the list of the v1 controller. Only *)
(* the manager of the cgroup takes it away. The version is known by then,  *)
(* although a failure to get it may be reported as success.                *)
GrantedStaysUsable ==
  /\ cnt.stage = "ready" \/ svc.op = "setup" => cnt.version \in {1, 2}
  /\ nrep = 0 => \A d \in granted :
       IF cnt.version = 2
         THEN \A i \in 1..Len(filters), acc \in {{"r"}, {"w"}, {"r", "w"}} :
                ~filters[i].hidden => Accepts(filters[i], [type |-> "c", access |-> acc, dev |-> d])
         ELSE d \in list

(* As long as nothing failed, the rewritten filters accept nothing but     *)
(* what they accepted before and reading and writing the devices           *)
(* requested; each filter is replaced by one, and those that may not be    *)
(* read are still there.                                                   *)
RewriteIsExact ==
  clean /\ At("idle") =>
    /\ \A q \in Request :
         Allowed(q) => \/ \A i \in 1..Len(runtime) : q \in runtime[i].base
                       \/ q.type = "c" /\ "m" \notin q.access /\ q.dev \in requested
    /\ Len(filters) = Len(runtime)
    /\ \A i \in 1..Len(runtime) : runtime[i].hidden =>
         \E j \in 1..Len(filters) : filters[j] = runtime[i]

(* Between requests the service has no effective capability, unless it     *)
(* has answered the last one with an error.                                *)
CapsDroppedOrReported == At("idle") => svc.caps = "none" \/ svc.rv < 0

=============================================================================
