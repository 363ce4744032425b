------------------------------ MODULE Commands ------------------------------
(***************************************************************************)
(* The command line (cli/main.c). The library is chosen by the machine     *)
(* (cli/libnvc.c) and the arguments are parsed. Then, for the commands     *)
(* configure, list and info: capabilities are lowered stage by stage       *)
(* around the calls of the library, devices are selected by name           *)
(* (cli/common.c), and either requirements are checked and the container   *)
(* is given the driver and the devices, or they are listed. A call of the  *)
(* library is one step here; its own steps are in NvcContext, NvcMount,    *)
(* Container, DriverInfo, DeviceCgroup and LdcacheUpdate.                  *)
(***************************************************************************)
EXTENDS Capabilities, Functions

CONSTANTS
  MaxGpus,       \* GPUs of the machine, at most
  Starts,        \* command lines and machines
  CredChoices,   \* credentials the program is started with
  Reqs,          \* requirements
  MAX_REQS       \* nitems(ctx->reqs)

(* Arguments of --require that are for the older library alone. *)
Special == {"csv-mounts=all", "base-only"}

Gpus == 0 .. MaxGpus - 1
None == -1
Driver == -2

(* A token of --device is what it spells: the UUID of a GPU, the UUID      *)
(* behind two more characters, a bus ID, an index of one digit, "all" or   *)
(* something else. The machine has what tells the two versions of the      *)
(* library apart; holds is what a requirement evaluates to for a GPU.      *)
Token == [kind : {"uuid", "xuuid", "busid", "index", "all", "empty", "other"}, gpu : Gpus]
Machine == [release : {"yes", "no", "error"}, family : {"tegra", "other", "error"}, nvml : BOOLEAN]

ASSUME CommandsAssumption ==
  /\ MaxGpus \in Nat /\ MAX_REQS \in Nat /\ CredChoices \subseteq Cred /\ Reqs \cap Special = {}
  /\ \A c \in Starts :
       /\ c.cmd \in {"configure", "list", "info"} /\ c.machine \in Machine /\ c.kmods \in BOOLEAN
       /\ c.ngpus \in 0 .. MaxGpus /\ c.toks \in Seq(Token) /\ c.mig \in {"none", "all", "other"}
       /\ c.owner \in Nat /\ c.reqs \in Seq(Reqs \cup Special)
       /\ c.holds \in [(Reqs \cup Special) \X (Gpus \cup {None}) -> BOOLEAN]
       /\ c.bare \in BOOLEAN /\ (c.bare => c.toks = <<>> /\ c.mig = "none")
       /\ \A r \in Special, g \in Gpus \cup {None} : ~c.holds[r, g]

VARIABLES
  conf,      \* command line, machine, and what the requirements evaluate to
  pc,
  major,     \* libnvc.version()->major; -1 before a library is loaded
  reqs,      \* what ctx->reqs names
  cred,
  svc,       \* the services of the library may be running
  tok,       \* position in the list of devices
  gpu,       \* index of the loop of select_all_gpu_devices
  devices,   \* struct devices: selected GPUs, in order
  mounted,   \* driver and GPUs mounted in the container, in order
  updated,   \* the library cache was updated
  listed,    \* nodes printed, in order
  rv

vars == <<conf, pc, major, reqs, cred, svc, tok, gpu, devices, mounted, updated, listed, rv>>

-----------------------------------------------------------------------------
Goto(l) == pc' = l

Input == <<conf, major, reqs>>
Lib == <<svc, tok, gpu, devices, mounted, updated, listed>>

is_tegra ==
  conf.machine.release = "yes" \/ (conf.machine.release = "no" /\ conf.machine.family = "tegra")

nvml_available == conf.machine.nvml

(* load_libnvc: version 0 is another library, which may be missing, or     *)
(* miss a function.                                                        *)
load_libnvc ==
  /\ pc = "load"
  /\ LET v0 == is_tegra /\ ~nvml_available IN
     \/ v0 /\ major' = 0 /\ Goto("parse")
     \/ v0 /\ Goto("done") /\ UNCHANGED major
     \/ ~v0 /\ major' = 1 /\ Goto("parse")
  /\ UNCHANGED <<conf, reqs, cred, rv, Lib>>

(* A malformed argument, or one for which there is no memory, ends the     *)
(* program.                                                                *)
BadArgument == pc = "parse" /\ Goto("done") /\ UNCHANGED <<Input, cred, rv, Lib>>

(* configure_parser: the older library takes some requirements as options. *)
configure_parser ==
  /\ pc = "parse" /\ conf.cmd = "configure"
  /\ reqs' = Range(conf.reqs) \ (IF major = 0 THEN Special ELSE {})
  /\ Cardinality({i \in DOMAIN conf.reqs : conf.reqs[i] \in reqs'}) <= MAX_REQS
  /\ Goto("permitted")
  /\ UNCHANGED <<conf, major, cred, rv, Lib>>

(* list_parser: without any argument everything is listed. *)
list_parser ==
  /\ pc = "parse" /\ conf.cmd = "list" /\ Goto("permitted")
  /\ UNCHANGED <<Input, cred, rv, Lib>>

(* ctx->devices, token by token. *)
Named == IF conf.cmd = "list" /\ conf.bare THEN <<[kind |-> "all", gpu |-> 0]>> ELSE conf.toks

info_parser ==
  /\ pc = "parse" /\ conf.cmd = "info" /\ Goto("permitted")
  /\ UNCHANGED <<Input, cred, rv, Lib>>
-----------------------------------------------------------------------------
(* list and info change nothing of a process that is not root's. *)
run_as_root == conf.cmd = "configure" \/ cred.uid = 0

(* The first step returns at once when it fails: there is nothing to free. *)
SetPermissions ==
  /\ pc = "permitted"
  /\ LET c == SetInheritable(SetPermitted(cred, pcaps), {}) IN
     \/ /\ run_as_root /\ MaySetPermitted(cred, pcaps) /\ MaySetBounds(c, bcaps)
        /\ cred' = SetBounds(c, bcaps) /\ Goto("init_caps")
     \/ run_as_root /\ Goto("done") /\ UNCHANGED cred
     \/ ~run_as_root /\ Goto("init_caps") /\ UNCHANGED cred
  /\ UNCHANGED <<Input, rv, Lib>>

(* perm_set_capabilities for the effective set of a stage. *)
Stage(from, stage, to) ==
  /\ pc = from
  /\ \/ /\ run_as_root /\ MaySetEffective(cred, ecaps[stage])
        /\ cred' = SetEffective(cred, ecaps[stage]) /\ Goto(to)
     \/ run_as_root /\ Goto("fail") /\ UNCHANGED cred
     \/ ~run_as_root /\ Goto(to) /\ UNCHANGED cred

InitCaps == Stage("init_caps", IF conf.kmods THEN "kmods" ELSE "init", "init") /\ UNCHANGED <<Input, rv, Lib>>

(* nvc_init may leave a service running when it fails. *)
nvc_init ==
  /\ pc = "init"
  /\ \/ svc' = TRUE /\ Goto(IF conf.cmd = "configure" THEN "container_caps" ELSE "info_caps")
     \/ svc' \in BOOLEAN /\ Goto("fail")
  /\ UNCHANGED <<Input, cred, tok, gpu, devices, mounted, updated, listed, rv>>

ContainerCaps == Stage("container_caps", "container", "container") /\ UNCHANGED <<Input, rv, Lib>>

nvc_container_new ==
  /\ pc = "container" /\ pc' \in {"info_caps", "fail"}
  /\ UNCHANGED <<Input, cred, rv, Lib>>

InfoCaps == Stage("info_caps", "info", "info") /\ UNCHANGED <<Input, rv, Lib>>

(* nvc_driver_info_new, nvc_device_info_new and new_devices. Devices are   *)
(* selected only if there are any, and not by the command info.            *)
Information ==
  /\ pc = "info"
  /\ pc' \in {IF conf.cmd = "info" THEN "print" ELSE IF conf.ngpus > 0 THEN "select" ELSE "mig", "fail"}
  /\ UNCHANGED <<Input, cred, rv, Lib>>
-----------------------------------------------------------------------------
(* add_gpu_device; the result may be that the array is full. *)
\* variant: only the last element is compared
already_present_Last(g, gpus) == gpus # <<>> /\ gpus[Len(gpus)] = g

already_present(g, gpus) == g \in Range(gpus)

add_gpu_device(d, g) ==
  IF already_present(g, d.gpus) THEN d
  ELSE IF Len(d.gpus) + 1 > conf.ngpus THEN [d EXCEPT !.exceeds = TRUE]
  ELSE [d EXCEPT !.gpus = Append(@, g)]

(* One turn of the loop over all GPUs, and its end; no GPU has devices for *)
(* the loop over MIG devices.                                              *)
select_all_devices ==
  /\ pc = "select_all"
  /\ \/ /\ gpu < conf.ngpus /\ gpu' = gpu + 1
        /\ devices' = add_gpu_device(devices, gpu)
        /\ Goto(IF devices'.exceeds THEN "fail" ELSE "select_all")
     \/ gpu >= conf.ngpus /\ devices' = [devices EXCEPT !.all = TRUE] /\ Goto("mig") /\ UNCHANGED gpu
  /\ UNCHANGED <<Input, cred, svc, tok, mounted, updated, listed, rv>>

(* The GPU whose UUID is the text two characters after the start of the    *)
(* i-th token. Two characters after an index begins the rest of the list,  *)
(* which is a UUID when one more token is left. After the last token is    *)
(* memory written before any UUID was known to the process.                *)
UuidAt(i) ==
  LET t == Named IN
  IF t[i].kind = "xuuid" THEN t[i].gpu
  ELSE IF t[i].kind = "index" /\ i + 1 = Len(t) /\ t[i + 1].kind = "uuid" THEN t[i + 1].gpu
  ELSE None

Available(g) == g \in 0 .. conf.ngpus - 1

(* select_gpu_device: by UUID, by bus ID, by index. *)
select_gpu_device(i) ==
  IF Available(UuidAt(i)) THEN UuidAt(i)
  ELSE IF Named[i].kind \in {"busid", "index"} /\ Available(Named[i].gpu) THEN Named[i].gpu
  ELSE None

(* One turn of the loop of select_devices. No device has MIG devices.      *)
\* variant: an unknown device is passed over
select_devices_Lenient ==
  /\ pc = "select"
  /\ LET end == tok > Len(Named)
         g   == select_gpu_device(tok) IN
     \/ end /\ Goto("mig") /\ UNCHANGED <<tok, gpu, devices>>
     \/ ~end /\ Named[tok].kind = "all" /\ Goto("select_all") /\ gpu' = 0 /\ UNCHANGED <<tok, devices>>
     \/ /\ ~end /\ Named[tok].kind # "all" /\ tok' = tok + 1 /\ UNCHANGED <<pc, gpu>>
        /\ devices' = IF g = None THEN devices ELSE add_gpu_device(devices, g)
  /\ UNCHANGED <<Input, cred, svc, mounted, updated, listed, rv>>

select_devices ==
  /\ pc = "select"
  /\ LET end   == tok > Len(Named)
         kind  == Named[tok].kind
         g     == select_gpu_device(tok)
         d     == add_gpu_device(devices, g) IN
     \/ end /\ Goto("mig") /\ UNCHANGED <<tok, gpu, devices>>
     \/ ~end /\ kind = "empty" /\ tok' = tok + 1 /\ UNCHANGED <<pc, gpu, devices>>
     \/ ~end /\ kind = "all" /\ Goto("select_all") /\ gpu' = 0 /\ UNCHANGED <<tok, devices>>
     \/ /\ ~end /\ kind \notin {"empty", "all"} /\ g # None
        /\ devices' = d /\ tok' = tok + 1 /\ Goto(IF d.exceeds THEN "fail" ELSE "select") /\ UNCHANGED gpu
     \/ ~end /\ kind \notin {"empty", "all"} /\ g = None /\ Goto("fail") /\ UNCHANGED <<tok, gpu, devices>>
  /\ UNCHANGED <<Input, cred, svc, mounted, updated, listed, rv>>

(* select_mig_config_devices and select_mig_monitor_devices: no device is  *)
(* capable of MIG, so that "all" selects none; anything else is an error.  *)
select_mig_devices ==
  /\ pc = "mig"
  /\ Goto(IF conf.mig = "other" THEN "fail" ELSE IF conf.cmd = "list" THEN "print" ELSE "require")
  /\ UNCHANGED <<Input, cred, rv, Lib>>

(* Requirements are evaluated for each selected GPU, or once without one.  *)
Checked == IF devices.gpus = <<>> THEN {None} ELSE Range(devices.gpus)

\* variant: for the first GPU alone
CheckRequirements_First ==
  /\ pc = "require"
  /\ LET gpus == IF devices.gpus = <<>> THEN {None} ELSE {Head(devices.gpus)} IN
     Goto(IF \A r \in reqs, g \in gpus : conf.holds[r, g] THEN "mount_caps" ELSE "fail")
  /\ UNCHANGED <<Input, cred, rv, Lib>>

CheckRequirements ==
  /\ pc = "require"
  /\ Goto(IF \A r \in reqs, g \in Checked : conf.holds[r, g] THEN "mount_caps" ELSE "fail")
  /\ UNCHANGED <<Input, cred, rv, Lib>>
-----------------------------------------------------------------------------
MountCaps == Stage("mount_caps", "mount", "driver") /\ UNCHANGED <<Input, rv, Lib>>

(* The wrappers of version 0: there are no mounts of devices, all mounts   *)
(* are mounts of the driver; the nodes of the driver are not told.         *)
HasDeviceMounts == major = 1
DriverNodes == IF major = 1 THEN <<Driver>> ELSE <<>>

(* A mount creates files for the owner, which raises effective             *)
(* capabilities.                                                           *)
nvc_driver_mount ==
  /\ pc = "driver" /\ cred' = FileCreated(cred, conf.owner)
  /\ \/ mounted' = Append(mounted, Driver) /\ Goto("device")
     \/ Goto("fail") /\ UNCHANGED mounted
  /\ UNCHANGED <<Input, svc, tok, gpu, devices, updated, listed, rv>>

nvc_device_mount ==
  /\ pc = "device" /\ HasDeviceMounts /\ Len(mounted) <= Len(devices.gpus)
  /\ cred' = FileCreated(cred, conf.owner)
  /\ \/ mounted' = Append(mounted, devices.gpus[Len(mounted)]) /\ UNCHANGED pc
     \/ Goto("fail") /\ UNCHANGED mounted
  /\ UNCHANGED <<Input, svc, tok, gpu, devices, updated, listed, rv>>

(* After the last device: the loops over MIG devices have nothing to do.   *)
DevicesMounted ==
  /\ pc = "device" /\ (~HasDeviceMounts \/ Len(mounted) > Len(devices.gpus)) /\ Goto("ldcache_caps")
  /\ UNCHANGED <<Input, cred, rv, Lib>>

LdcacheCaps == Stage("ldcache_caps", "ldcache", "ldcache") /\ UNCHANGED <<Input, rv, Lib>>

nvc_ldcache_update ==
  /\ pc = "ldcache"
  /\ \/ updated' = TRUE /\ Goto("shutdown_caps")
     \/ Goto("fail") /\ UNCHANGED updated
  /\ UNCHANGED <<Input, cred, svc, tok, gpu, devices, mounted, listed, rv>>

(* The command list: the nodes of the driver and of the selected GPUs, if  *)
(* devices were asked for.                                                 *)
ListNodes ==
  /\ pc = "print" /\ conf.cmd = "list" /\ Goto("shutdown_caps")
  /\ listed' = IF Named = <<>> THEN <<>> ELSE DriverNodes \o devices.gpus
  /\ UNCHANGED <<Input, cred, svc, tok, gpu, devices, mounted, updated, rv>>

(* The command info: every device. *)
PrintDevices ==
  /\ pc = "print" /\ conf.cmd = "info" /\ Goto("shutdown_caps")
  /\ listed' = [i \in 1 .. conf.ngpus |-> i - 1]
  /\ UNCHANGED <<Input, cred, svc, tok, gpu, devices, mounted, updated, rv>>

ShutdownCaps ==
  /\ pc = "shutdown_caps" /\ Goto("fail")
  /\ \/ /\ run_as_root /\ MaySetEffective(cred, ecaps["shutdown"])
        /\ cred' = SetEffective(cred, ecaps["shutdown"]) /\ rv' = "EXIT_SUCCESS"
     \/ run_as_root /\ UNCHANGED <<cred, rv>>
     \/ ~run_as_root /\ rv' = "EXIT_SUCCESS" /\ UNCHANGED cred
  /\ UNCHANGED <<Input, Lib>>

(* nvc_shutdown ends the services; root cannot without KILL, as they run   *)
(* as another user, while those of a user run as that user.                *)
nvc_shutdown ==
  /\ pc = "fail" /\ Goto("done")
  /\ svc' = (svc /\ cred.uid = 0 /\ "KILL" \notin cred.E)
  /\ UNCHANGED <<Input, cred, tok, gpu, devices, mounted, updated, listed, rv>>

CommandsInit ==
  /\ conf \in Starts
  /\ pc = "load" /\ major = -1 /\ reqs = {} /\ cred \in CredChoices /\ svc = FALSE /\ tok = 1 /\ gpu = 0
  /\ devices = [gpus |-> <<>>, all |-> FALSE, exceeds |-> FALSE]
  /\ mounted = <<>> /\ updated = FALSE /\ listed = <<>> /\ rv = "EXIT_FAILURE"

CommandsNext ==
  \/ load_libnvc \/ BadArgument \/ configure_parser \/ list_parser \/ info_parser
  \/ SetPermissions \/ InitCaps \/ nvc_init \/ ContainerCaps \/ nvc_container_new
  \/ InfoCaps \/ Information \/ select_devices \/ select_all_devices \/ select_mig_devices
  \/ CheckRequirements
  \/ MountCaps \/ nvc_driver_mount \/ nvc_device_mount \/ DevicesMounted
  \/ LdcacheCaps \/ nvc_ldcache_update \/ ListNodes \/ PrintDevices \/ ShutdownCaps \/ nvc_shutdown

CommandsSpec == CommandsInit /\ [][CommandsNext]_vars
-----------------------------------------------------------------------------
(* Whatever step fails, the services are told to end by a process that     *)
(* still may signal them: every stage keeps KILL, and no mount, change of  *)
(* the filesystem user or refused change of capabilities loses it.         *)
ServicesEnd == pc = "done" => ~svc

(* Nothing is mounted in a container one of whose requirements does not    *)
(* hold for each of the GPUs it gets, or for the driver where it gets      *)
(* none: however many there are, none is dropped by configure_parser but   *)
(* those that are options of version 0 of the library.                     *)
MountsMeetRequirements ==
  mounted # <<>> =>
    \A r \in Range(conf.reqs) \ (IF major = 0 THEN Special ELSE {}) :
      IF devices.gpus = <<>> THEN conf.holds[r, None]
      ELSE \A g \in Range(devices.gpus) : conf.holds[r, g]

(* However often and by whatever names a device is given, the array of     *)
(* selected devices has room for it and the device is mounted once.        *)
SelectedOnce ==
  /\ ~devices.exceeds
  /\ \A i, j \in 1 .. Len(mounted) : mounted[i] = mounted[j] => i = j

(* A command succeeds only with every device of its list among the        *)
(* selected and with nothing but KILL left in effect; configure after the  *)
(* driver and all it selected was mounted, and the library cache updated;  *)
(* list and info with nothing mounted, list after it printed what          *)
(* configure would have mounted.                                           *)
SuccessIsComplete ==
  rv = "EXIT_SUCCESS" =>
    /\ CASE conf.cmd = "configure" ->
              mounted = <<Driver>> \o (IF major = 1 THEN devices.gpus ELSE <<>>) /\ updated
         [] conf.cmd = "list" ->
              /\ mounted = <<>> /\ ~updated
              /\ Named # <<>> => \E driver \in {<<>>, <<Driver>>} : listed = driver \o devices.gpus
              /\ conf.bare => Range(devices.gpus) = 0 .. conf.ngpus - 1
         [] OTHER -> mounted = <<>> /\ ~updated
    /\ run_as_root => cred.E = {"KILL"}
    /\ conf.cmd # "info" /\ conf.ngpus > 0 /\ ~devices.all =>
         \A i \in 1 .. Len(Named) :
           Named[i].kind = "empty" \/ Named[i].gpu \in Range(devices.gpus)

(* --device takes "Device UUID(s) or index(es)" and select_gpu_device      *)
(* checks "if dev matches a full GPU UUID": select_devices does not fail   *)
(* at the UUID of a GPU of the machine.                                    *)
UuidsAreFound ==
  [][pc = "select" /\ pc' = "fail" =>
       ~(Named[tok].kind = "uuid" /\ Available(Named[tok].gpu))]_vars
=============================================================================
