------------------------------ MODULE NvcMount ------------------------------
(***************************************************************************)
(* Mounting the driver and the devices into a container (nvc_mount.c).     *)
(*                                                                         *)
(* Every entry point enters the mount namespace of the container, makes a  *)
(* number of bind mounts, writes files and adds cgroup rules, undoes what  *)
(* it recorded if one of these fails, and goes back to the namespace of    *)
(* the host. An entry point is a plan, a sequence of operations that its   *)
(* flags and arguments determine; a step performs the next operation, or   *)
(* undoes one mount after a failure. A path carries a stack of mounts,     *)
(* since the same file is mounted again by a later call.                   *)
(***************************************************************************)
EXTENDS Integers, Sequences, FiniteSets

CONSTANTS
  Bins, Libs, Libs32, Dri,  \* files to mount, as sequences of container paths
  DriverStore,              \* the same for the WSL driver store
  CntLibs,                  \* compatibility libraries of the container itself
  Versioned,                \* those whose name has ".so." and a number
  Wanted,                   \* files that match the container's flags
  LinksOf,                  \* path of a library -> links made for it
  Ctl,                      \* control device nodes of the driver
  ComputeOnly, Modeset,     \* those for compute, and for display, only
  Gpus, Migs,               \* device nodes, and MIG devices
  GiOf, CiOf,               \* MIG device -> access files in /proc
  CapOf,                    \* access or caps file -> capability device node
  MinorsOf,                 \* GPU -> capability nodes of its MIG minors
  OptionChoices,            \* the option sets to explore
  NodeChoices,              \* what the container image holds at a path
  Entries,                  \* option set -> the entry points the caller uses
  MaxCalls                  \* option set -> bound on calls into the library

Options == {"no_devbind", "no_cgroups", "compat32", "compute", "display", "utility",
            "graphics", "video", "dxcore", "nvcaps",
            "setns_fails"}   \* setns back to the host may fail

LdConfig == "/etc/ld.so.conf.d"
Smi      == "xdxsmi"
CapsProc == "/proc/driver/capabilities"
CapsDir  == "/dev/nvidia-caps"

Ran(s) == {s[i] : i \in 1..Len(s)}

FilePaths   == Ran(Bins) \cup Ran(Libs) \cup Ran(Libs32) \cup Ran(Dri) \cup Ran(DriverStore)
CapNodes    == {CapOf[p] : p \in DOMAIN CapOf}
DeviceNodes == Ran(Ctl) \cup Gpus \cup CapNodes
ProcPaths   == {CapsProc} \cup {GiOf[d] : d \in Migs} \cup {CiOf[d] : d \in Migs}
PlainPaths  == {LdConfig, Smi, CapsDir} \cup ProcPaths
MountPaths  == FilePaths \cup DeviceNodes \cup PlainPaths

ASSUME NvcMountAssumption ==
  /\ OptionChoices \subseteq SUBSET Options
  /\ Len(Dri) <= 4          \* XDX_VIDEO_LIB_NUM: no check in the code
  /\ NodeChoices \subseteq {"absent", "empty", "full"}
  /\ DOMAIN Entries = OptionChoices
  /\ MaxCalls \in [OptionChoices -> Nat]

(* Names of files and nodes. Device nodes are apart from everything else   *)
(* that is mounted, and GPUs from the other device nodes.                  *)
ASSUME NvcMountPaths ==
  /\ \A s \in {Bins, Libs, Libs32, Dri, DriverStore, CntLibs, Ctl} : s \in Seq(STRING)
  /\ GiOf \in [Migs -> DOMAIN CapOf] /\ CiOf \in [Migs -> DOMAIN CapOf]
  /\ {"config", "monitor"} \subseteq DOMAIN CapOf
  /\ MinorsOf \in [Gpus -> Seq(CapNodes)]
  /\ DeviceNodes \cap (FilePaths \cup PlainPaths) = {}
  /\ Gpus \cap (Ran(Ctl) \cup CapNodes) = {}

VARIABLES
  opt,      \* flags of the container and facts of the host; never change
  ns,       \* mount namespace of the calling process
  node,     \* what is at a path of the container, under its mounts
  mounts,   \* path -> stack of mounts, each with the call that made it
  links,    \* symbolic links made in the container
  profile,  \* the application profile file and the devices it names
  rules,    \* devices the cgroup allows
  call,     \* the call in progress, or the last one
  ncalls,   \* number of calls so far
  ret,      \* what the last call returned
  dead      \* the process crashed

vars == <<opt, ns, node, mounts, links, profile, rules, call, ncalls, ret, dead>>

Idle == call.api = "none"

-----------------------------------------------------------------------------
(* Plans. *)
When(cond, s) == IF cond THEN s ELSE <<>>

Op(o, p) == [op |-> o, path |-> p]

OpSeq(o, ps) == [i \in 1..Len(ps) |-> Op(o, ps[i])]

Devbind == "no_devbind" \notin opt
Cgroups == "no_cgroups" \notin opt

(* The files, mounted one by one into a local array that is handed over at *)
(* the end: appended to the caller's, or forgotten.                        *)
mount_files(files, end) ==
  <<Op("dir", "")>> \o OpSeq("file", files) \o <<Op(end, "")>>

mount_driverstore_files ==
  <<Op("dir", "")>> \o OpSeq("store", DriverStore) \o <<Op("forget", "")>>

(* nvc_driver_info: no control node is listed on WSL. *)
info_devs == When("dxcore" \notin opt, Ctl)

(* nvc_container: its own libraries count for compute only. *)
cnt_libs == When("compute" \in opt, CntLibs)

(* Control nodes are left out by capability, except on WSL. *)
Skipped(d) ==
  /\ "dxcore" \notin opt
  /\ \/ "compute" \notin opt /\ d \in ComputeOnly
     \/ "display" \notin opt /\ d \in Modeset

\* variant: the rule is added only when the node is not mounted
ControlNode_ElseIf(d) ==
  When(~Skipped(d), IF Devbind THEN <<Op("device", d)>> ELSE When(Cgroups, <<Op("cgroup", d)>>))

ControlNode(d) ==
  When(~Skipped(d), When(Devbind, <<Op("device", d)>>) \o When(Cgroups, <<Op("cgroup", d)>>))

DriverPlan ==
  <<Op("alloc", "")>>
    \o When(Bins # <<>>, mount_files(Bins, "append"))
    \o When(Libs # <<>>, mount_files(Libs, "append"))
    \o When("compat32" \in opt /\ Libs32 # <<>>, mount_files(Libs32, "append"))
    \o <<Op("links", "")>>
    \o When(cnt_libs # <<>>, <<Op("alloc", ""), Op("filter", "")>> \o mount_files(<<>>, "append"))
    \o OpSeq("control", info_devs)

device_mount_native(g) ==
  <<Op("search", "")>>
    \o When(Devbind, <<Op("device", g)>>)
    \o <<Op("config", LdConfig)>>
    \o When("graphics" \in opt, <<Op("profile", g)>>)
    \o When("utility" \in opt, <<Op("config_unrecorded", Smi)>>)
    \o When(opt \cap {"video", "graphics"} # {}, mount_files(Dri, "forget"))
    \o When(Cgroups, <<Op("cgroup", g)>>)

DevicePlan(g) ==
  IF "dxcore" \in opt THEN mount_driverstore_files ELSE device_mount_native(g)

(* Its own device mount is undone only by a failure inside it. *)
cap_device_mount(p) ==
  <<Op("capnode", "")>>
    \o When(Devbind, <<Op("capdevice", CapOf[p])>>)
    \o When(Cgroups, <<Op("cgroup", CapOf[p])>>)
    \o <<Op("forget", "")>>

MigAccessPlan(d) ==
  <<Op("mig", GiOf[d])>>
    \o When("nvcaps" \in opt, cap_device_mount(GiOf[d]))
    \o <<Op("mig", CiOf[d])>>
    \o When("nvcaps" \in opt, cap_device_mount(CiOf[d]))

MigGlobalPlan(file) ==
  <<Op("mig", CapsProc)>>
    \o When("nvcaps" \in opt,
            <<Op("directory", CapsDir), Op("capnode", "")>>
              \o When(Cgroups, <<Op("cgroup", CapOf[file])>>))

setup_mig_minor_cgroups(g) == <<Op("minors", "")>> \o OpSeq("cgroup", MinorsOf[g])

MigCapsPlan(g) == When("nvcaps" \in opt /\ Cgroups, setup_mig_minor_cgroups(g))
-----------------------------------------------------------------------------
(* Entering a call: the process moves into the container's namespace, or   *)
(* the call returns at once.                                               *)
Enter(api, plan) ==
  /\ Idle /\ ~dead /\ ncalls < MaxCalls[opt] /\ api \in Entries[opt]
  /\ ncalls' = ncalls + 1
  /\ \/ /\ ns' = "container"
        /\ call' = [api |-> api, plan |-> plan, group |-> <<>>, kept |-> <<>>,
                    failed |-> FALSE, before |-> mounts]
        /\ UNCHANGED ret
     \/ /\ ret' = -1
        /\ call' = [call EXCEPT !.failed = FALSE, !.before = mounts]
        /\ UNCHANGED ns
  /\ UNCHANGED <<opt, node, mounts, links, profile, rules, dead>>

nvc_driver_mount == Enter("driver", DriverPlan)

nvc_device_mount(g) == Enter("device", DevicePlan(g))

nvc_mig_device_access_caps_mount(d) == Enter("access", MigAccessPlan(d))

nvc_mig_config_global_caps_mount == Enter("config", MigGlobalPlan("config"))

nvc_mig_monitor_global_caps_mount == Enter("monitor", MigGlobalPlan("monitor"))

nvc_device_mig_caps_mount(g) == Enter("migcaps", MigCapsPlan(g))
-----------------------------------------------------------------------------
(* Operations. *)
Next_is(o) == ~Idle /\ ~dead /\ ~call.failed /\ call.plan # <<>> /\ Head(call.plan).op = o

Here == Head(call.plan).path

Done(group, kept) ==
  call' = [call EXCEPT !.plan = Tail(@), !.group = group, !.kept = kept]

Fails == call' = [call EXCEPT !.failed = TRUE]

(* file_create: an existing node is used as it is. *)
Created(nd, p) == [nd EXCEPT ![p] = IF @ = "absent" THEN "empty" ELSE @]

Pushed(ms, p, flags) == [ms EXCEPT ![p] = Append(@, [by |-> ncalls, flags |-> flags])]

(* unmount: the top mount goes; file_remove then deletes what is left if   *)
(* it is empty, and fails silently on what is still a mount point.         *)
Popped(ms, p) == [ms EXCEPT ![p] = IF @ = <<>> THEN @ ELSE SubSeq(@, 1, Len(@) - 1)]

\* variant: anything that is left is deleted
Removed_Full(ms, nd, p) == [nd EXCEPT ![p] = IF Len(ms[p]) <= 1 THEN "absent" ELSE @]

Removed(ms, nd, p) ==
  [nd EXCEPT ![p] = IF Len(ms[p]) <= 1 /\ @ = "empty" THEN "absent" ELSE @]

Unmounts(ms, nd, p) == mounts' = Popped(ms, p) /\ node' = Removed(ms, nd, p)

Others == UNCHANGED <<opt, ns, links, profile, ncalls, ret>>

(* The mount succeeds, with its flags, and is recorded in the given arrays. *)
Succeeds(group, kept) ==
  /\ node' = Created(node, Here)
  /\ mounts' = Pushed(mounts, Here, TRUE)
  /\ Done(group, kept)
  /\ UNCHANGED <<rules, dead>> /\ Others

(* mount_files passes over a file that matches none of the flags.          *)
SkipFile ==
  /\ Next_is("file") /\ Here \notin Wanted
  /\ Done(call.group, call.kept)
  /\ UNCHANGED <<node, mounts, rules, dead>> /\ Others

(* If the remount or the last allocation fails, the bind mount of a file   *)
(* stays and is in no array.                                               *)
MountFile ==
  /\ (Next_is("file") /\ Here \in Wanted) \/ Next_is("store")
  /\ \/ Succeeds(Append(call.group, Here), call.kept)
     \/ /\ Fails
        /\ \/ UNCHANGED <<node, mounts>>
           \/ node' = Created(node, Here) /\ UNCHANGED mounts
           \/ \E flags \in BOOLEAN :
                node' = Created(node, Here) /\ mounts' = Pushed(mounts, Here, flags)
        /\ UNCHANGED <<rules, dead>> /\ Others

(* mount_device: once the node is created every failure unmounts its path. *)
DeviceFails ==
  /\ Fails
  /\ \/ UNCHANGED <<node, mounts>>
     \/ Unmounts(mounts, Created(node, Here), Here)
     \/ Unmounts(Pushed(mounts, Here, TRUE), Created(node, Here), Here)
  /\ UNCHANGED <<rules, dead>> /\ Others

mount_device ==
  \/ Next_is("device") /\ (Succeeds(call.group, Append(call.kept, Here)) \/ DeviceFails)
  \/ Next_is("capdevice") /\ (Succeeds(Append(call.group, Here), call.kept) \/ DeviceFails)

(* mount_config_file and mount_procfs_mig unmount the path on a failure    *)
(* before the bind mount as well.                                          *)
ConfigFails ==
  /\ Fails
  /\ \/ UNCHANGED <<node, mounts>>
     \/ \E nd \in {node, Created(node, Here)} : Unmounts(mounts, nd, Here)
     \/ Unmounts(Pushed(mounts, Here, TRUE), Created(node, Here), Here)
  /\ UNCHANGED <<rules, dead>> /\ Others

mount_config_file ==
  \/ Next_is("config") /\ (Succeeds(call.group, <<Here>> \o call.kept) \/ ConfigFails)
  \/ Next_is("config_unrecorded") /\ (Succeeds(call.group, call.kept) \/ ConfigFails)

\* variant: a failure after the bind mount does not undo it
mount_procfs_mig_LeavesIt ==
  /\ Next_is("mig")
  /\ \/ Succeeds(call.group, Append(call.kept, Here))
     \/ /\ Fails /\ node' = Created(node, Here) /\ mounts' = Pushed(mounts, Here, FALSE)
        /\ UNCHANGED <<rules, dead>> /\ Others

mount_procfs_mig ==
  Next_is("mig") /\ (Succeeds(call.group, Append(call.kept, Here)) \/ ConfigFails)

(* mount_with_flags unmounts an uninitialized pointer: nothing, a path it  *)
(* happens to point at, or a crash.                                        *)
mount_directory ==
  /\ Next_is("directory")
  /\ \/ Succeeds(call.group, call.kept)
     \/ /\ \E s \in {<<mounts, node>>, <<mounts, Created(node, Here)>>,
                     <<Pushed(mounts, Here, FALSE), Created(node, Here)>>,
                     <<Pushed(mounts, Here, TRUE), Created(node, Here)>>} :
             \/ mounts' = s[1] /\ node' = s[2] /\ Fails /\ UNCHANGED dead
             \/ \E p \in MountPaths : Unmounts(s[1], s[2], p) /\ Fails /\ UNCHANGED dead
             \/ mounts' = s[1] /\ node' = s[2] /\ dead' = TRUE /\ UNCHANGED call
        /\ UNCHANGED rules /\ Others

(* setup_device_cgroup: when the request fails the rule may have been      *)
(* added all the same.                                                     *)
setup_device_cgroup ==
  /\ Next_is("cgroup")
  /\ \/ rules' = rules \cup {Here} /\ (Done(call.group, call.kept) \/ Fails)
     \/ UNCHANGED rules /\ Fails
  /\ UNCHANGED <<node, mounts, dead>> /\ Others

(* The next round of the loop over the control nodes. *)
ControlDevice ==
  /\ Next_is("control")
  /\ call' = [call EXCEPT !.plan = ControlNode(Here) \o Tail(@)]
  /\ UNCHANGED <<node, mounts, rules, dead>> /\ Others

(* Links for the libraries mounted so far; those made before a failure stay. *)
LinkSeq[i \in 0..(Len(Bins) + Len(Libs) + Len(Libs32))] ==
  IF i = 0 THEN <<>>
  ELSE LinkSeq[i - 1] \o When(i <= Len(call.kept) /\ call.kept[i] \in DOMAIN LinksOf,
                              LinksOf[call.kept[i]])

symlink_libraries ==
  /\ Next_is("links")
  /\ LET todo == LinkSeq[Len(Bins) + Len(Libs) + Len(Libs32)] IN
       \E n \in 0..Len(todo) :
         /\ links' = links \cup Ran(SubSeq(todo, 1, n))
         /\ IF n = Len(todo) THEN Done(call.group, call.kept) ELSE Fails
  /\ UNCHANGED <<opt, ns, node, mounts, profile, rules, ncalls, ret, dead>>

(* The file is read, truncated and written with one more device. Reading   *)
(* an empty one yields a null pointer, which is then searched. A short     *)
(* write leaves it cut, and what is made of that is only salvaged.         *)
ProfileWritten(g, earlier) ==
  LET devs == earlier \cup {g} IN
    \/ /\ profile' = [file |-> IF profile.file \in {"cut", "salvaged"} THEN "salvaged" ELSE "valid",
                      devs |-> devs]
       /\ Done(call.group, call.kept)
    \/ \E f \in {"empty", "cut"} : profile' = [file |-> f, devs |-> {}] /\ Fails

update_app_profile ==
  /\ Next_is("profile")
  /\ \/ UNCHANGED <<profile, dead>> /\ Fails
     \/ /\ profile.file \in {"absent", "valid", "salvaged"}
        /\ ProfileWritten(Here, profile.devs)
        /\ UNCHANGED dead
     \/ /\ profile.file = "cut"
        /\ \E devs \in SUBSET Gpus : ProfileWritten(Here, devs)
        /\ UNCHANGED dead
     \/ profile.file = "empty" /\ dead' = TRUE /\ UNCHANGED <<profile, call>>
  /\ UNCHANGED <<opt, ns, node, mounts, links, rules, ncalls, ret>>

(* info->nvrm_version is never set, so that comparing it with the version  *)
(* of a library crashes; a library without one is left out.                *)
filter_libraries ==
  /\ Next_is("filter")
  /\ IF Ran(cnt_libs) \cap Versioned # {}
       THEN dead' = TRUE /\ UNCHANGED call
       ELSE Done(call.group, call.kept) /\ UNCHANGED dead
  /\ UNCHANGED <<node, mounts, rules>> /\ Others

(* Steps that change nothing in the container, or only its directories:    *)
(* allocations, searching the driver directory, looking up a capability.   *)
Prepare ==
  /\ \E o \in {"alloc", "dir", "search", "capnode"} : Next_is(o)
  /\ Done(call.group, call.kept) \/ Fails
  /\ UNCHANGED <<node, mounts, rules, dead>> /\ Others

(* setup_mig_minor_cgroups closes the file it could not open. *)
OpenMinors ==
  /\ Next_is("minors")
  /\ \/ Done(call.group, call.kept) /\ UNCHANGED dead
     \/ dead' = TRUE /\ UNCHANGED call
  /\ UNCHANGED <<node, mounts, rules>> /\ Others

(* The end of mount_files and of cap_device_mount. *)
\* variant: the last mount is not handed over
HandOver_Drops ==
  /\ \/ /\ Next_is("append")
        /\ Done(<<>>, call.kept \o SubSeq(call.group, 1, Len(call.group) - 1))
     \/ Next_is("forget") /\ Done(<<>>, call.kept)
  /\ UNCHANGED <<node, mounts, rules, dead>> /\ Others

HandOver ==
  /\ \/ Next_is("append") /\ Done(<<>>, call.kept \o call.group)
     \/ Next_is("forget") /\ Done(<<>>, call.kept)
  /\ UNCHANGED <<node, mounts, rules, dead>> /\ Others
-----------------------------------------------------------------------------
(* Leaving a call. *)
Recorded == call.group \o call.kept

\* variant: the first recorded mount is undone twice
Unmount_Twice ==
  /\ ~Idle /\ ~dead /\ call.failed /\ Recorded # <<>>
  /\ mounts' = Popped(Popped(mounts, Head(Recorded)), Head(Recorded))
  /\ node' = Removed(mounts, node, Head(Recorded))
  /\ call' = [call EXCEPT !.group = <<>>, !.kept = Tail(Recorded)]
  /\ UNCHANGED <<rules, dead>> /\ Others

Unmount ==
  /\ ~Idle /\ ~dead /\ call.failed /\ Recorded # <<>>
  /\ Unmounts(mounts, node, Head(Recorded))
  /\ call' = [call EXCEPT !.group = <<>>, !.kept = Tail(Recorded)]
  /\ UNCHANGED <<rules, dead>> /\ Others

(* Back to the namespace of the host. After a failure the result of setns  *)
(* is only asserted, and the build defines NDEBUG.                         *)
Leave ==
  /\ ~Idle /\ ~dead
  /\ \/ /\ call.failed /\ Recorded = <<>>
        /\ ns' = "host" \/ ("setns_fails" \in opt /\ UNCHANGED ns)
        /\ ret' = -1
     \/ /\ ~call.failed /\ call.plan = <<>>
        /\ \/ ns' = "host" /\ ret' = 0
           \/ "setns_fails" \in opt /\ UNCHANGED ns /\ ret' = -1
  /\ call' = [call EXCEPT !.api = "none", !.group = <<>>, !.kept = <<>>]
  /\ UNCHANGED <<opt, node, mounts, links, profile, rules, ncalls, dead>>
-----------------------------------------------------------------------------
MountInit ==
  /\ opt \in OptionChoices
  /\ ns = "host"
  /\ \E n \in NodeChoices : node = [p \in MountPaths |-> n]
  /\ mounts = [p \in MountPaths |-> <<>>]
  /\ links = {} /\ rules = {} /\ profile = [file |-> "absent", devs |-> {}]
  /\ call = [api |-> "none", plan |-> <<>>, group |-> <<>>, kept |-> <<>>,
             failed |-> FALSE, before |-> mounts]
  /\ ncalls = 0 /\ ret = 0 /\ dead = FALSE

Calls ==
  \/ nvc_driver_mount
  \/ \E g \in Gpus : nvc_device_mount(g) \/ nvc_device_mig_caps_mount(g)
  \/ \E d \in Migs : nvc_mig_device_access_caps_mount(d)
  \/ nvc_mig_config_global_caps_mount
  \/ nvc_mig_monitor_global_caps_mount

Operations ==
  \/ SkipFile \/ MountFile \/ mount_device \/ mount_config_file \/ mount_procfs_mig
  \/ mount_directory \/ setup_device_cgroup \/ ControlDevice \/ symlink_libraries
  \/ update_app_profile \/ filter_libraries \/ Prepare \/ OpenMinors \/ HandOver

MountNext == Calls \/ Operations \/ Unmount \/ Leave

MountSpec == MountInit /\ [][MountNext]_vars
-----------------------------------------------------------------------------
Mine(p)    == {i \in 1..Len(mounts[p]) : mounts[p][i].by = ncalls}
Earlier(p) == {i \in 1..Len(mounts[p]) : mounts[p][i].by < ncalls}
Records(p) == {i \in 1..Len(Recorded) : Recorded[i] = p}

(* Paths whose mounts no array of a caller remembers. *)
Unrecorded == {Smi, CapsDir} \cup Ran(Dri) \cup Ran(DriverStore) \cup CapNodes

(* While a call runs, what it would undo is exactly what it mounted: every *)
(* mount made so far is recorded once, and carries its restricting flags,  *)
(* except those the code never records.                                    *)
RecordsAreMounted ==
  ~Idle /\ ~call.failed /\ ~dead =>
    \A p \in MountPaths :
      /\ Cardinality(Records(p)) <= Cardinality(Mine(p))
      /\ p \notin Unrecorded =>
           Cardinality(Records(p)) = Cardinality(Mine(p))
      /\ \A i \in Mine(p) : mounts[p][i].flags

(* A call that failed leaves at most one of its mounts behind, the file in *)
(* progress in mount_files, apart from those the code never records.       *)
RollbackIsAlmostComplete ==
  Idle /\ call.failed =>
    /\ \A p \in MountPaths \ (FilePaths \cup Unrecorded) : Mine(p) = {}
    /\ Cardinality(UNION {{<<p, i>> : i \in Mine(p)} : p \in FilePaths \ Unrecorded}) <= 1

(* A failing call takes down at most one mount of earlier calls, the one   *)
(* that was at the path of the operation that failed. A call that succeeds *)
(* takes none down.                                                        *)
LosesAtMostOneEarlierMount ==
  /\ Cardinality(UNION {{<<p, i>> : i \in (1..Len(call.before[p])) \ Earlier(p)} : p \in MountPaths}) <= 1
  /\ ~call.failed /\ ~dead =>
       \A p \in MountPaths : \A i \in 1..Len(call.before[p]) :
         i \in Earlier(p) /\ mounts[p][i] = call.before[p][i]

(* After a success every device node it mounted is allowed by the cgroup,  *)
(* unless cgroups are left to the caller, and the process is back in the   *)
(* namespace it came from. After any call, unless a write was cut short,   *)
(* the application profile names every GPU that is mounted when graphics   *)
(* is requested.                                                           *)
SuccessIsUsable ==
  Idle =>
    /\ ret = 0 =>
         /\ ns = "host"
         /\ Cgroups => \A d \in DeviceNodes : Mine(d) # {} => d \in rules
    /\ "graphics" \in opt /\ profile.file = "valid" =>
         \A g \in Gpus : mounts[g] # <<>> => g \in profile.devs

(* Undoing mounts deletes nothing that the container image held.           *)
KeepsContent == [][\A p \in MountPaths : node[p] = "full" => node'[p] = "full"]_vars

(* mount_procfs_mig: "On failure unmount and filesystem that may have been *)
(* mounted"; nvc_mig_device_access_caps_mount: "unmount the 'access' file  *)
(* we mounted". A failed call does not unmount what an earlier one mounted. *)
EarlierMountsSurvive ==
  \A p \in MountPaths : \A i \in 1..Len(call.before[p]) : i \in Earlier(p)
=============================================================================
