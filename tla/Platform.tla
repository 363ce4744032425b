------------------------------ MODULE Platform ------------------------------
(***************************************************************************)
(* What nvc_init (nvc.c) does before it starts the services, over several  *)
(* inits and shutdowns of one context: the configuration is copied, dxcore *)
(* is tried and its adapters are listed (dxcore.c), and kernel modules are *)
(* loaded and device nodes made by a child, unless in a user namespace.    *)
(***************************************************************************)
EXTENDS Integers, Sequences, FiniteSets

CONSTANTS
  AdapterLists,   \* what dxcore may enumerate: sequences of adapters
  IdMaps,         \* <<uid_map, gid_map, setgroups>> of the process
  MinorsFiles,    \* contents of the file of MIG minors: sequences of lines
  DeviceCounts,       \* numbers of devices found on the bus
  MaxInits        \* bound on the calls of nvc_init

Kinds == {"config", "monitor", "gi", "ci", "other"}

(* An adapter has a version, a driver store or none, and components in it. *)
(* A line of the minors file is of a GPU and one of its instances, of the  *)
(* configuration or the monitor of MIG, or of another form.                *)
ASSUME PlatformAssumption ==
  /\ \A f \in MinorsFiles : f \in Seq([kind : Kinds, gpu : Nat, exists : BOOLEAN])
  /\ AdapterLists \subseteq Seq([wddm : Nat, store : BOOLEAN, components : SUBSET STRING])
  /\ DeviceCounts \subseteq Nat /\ MaxInits \in Nat

VARIABLES
  machine,    \* WSL or not, adapters, id maps, minors, devices, options, root
  inits,      \* calls of nvc_init so far
  at,         \* how far nvc_init is; "idle" between calls
  ready,      \* ctx->initialized
  config,     \* ctx->cfg.root, or nothing
  dxcore,     \* initialized, adapterCount, adapterList
  adapter,    \* index of the loop of dxcore_enum_adapters
  stores,     \* <<init, adapter>>: the strings of driver stores that are allocated
  freed,      \* strings that were freed
  child,      \* "none", or how far the child is
  line,       \* line of the minors file
  nodes       \* device nodes that were made, with the tree they are in

platvars == <<machine, inits, at, ready, config, dxcore, adapter, stores, freed, child, line, nodes>>

NoConfig == "none"
NoDxcore == [initialized |-> FALSE, adapterCount |-> 0, adapterList |-> <<>>]

InitFailed == at' = "idle" /\ config' = NoConfig

(* nvc_init until the namespace is open: copies may fail, and so may the   *)
(* look at the overflow user and group when none are given.                *)
nvc_init_begin ==
  /\ at = "idle" /\ ~ready /\ inits < MaxInits
  /\ inits' = inits + 1
  /\ \/ config' = machine.root /\ at' = "dxcore"
     \/ InitFailed
  /\ UNCHANGED <<machine, ready, dxcore, adapter, stores, freed, child, line, nodes>>

(* dxcore_deinit_context frees a store for every adapter that counts. *)
Listed(d) == {d.adapterList[i] : i \in 1 .. d.adapterCount}

(* Whatever the context had is forgotten. Without the library, or without  *)
(* a symbol of it, this is not WSL; the enumeration may fail, and then     *)
(* there is no adapter.                                                    *)
dxcore_init_context ==
  /\ at = "dxcore" /\ dxcore' = NoDxcore
  /\ \/ ~machine.wsl /\ at' = "kmods" /\ UNCHANGED adapter
     \/ machine.wsl /\ at' = "adapters" /\ adapter' \in {1, Len(machine.adapters) + 1}
  /\ UNCHANGED <<machine, inits, ready, config, stores, freed, child, line, nodes>>

(* The store, which must be there, and the libraries found in it. *)
dxcore_query_adapter_driverstore(a) == a.store
dxcore_populate_driverstore_library(a) == a.components # {}

(* One turn of dxcore_enum_adapters: an adapter that is too old, has no    *)
(* store or none of the libraries is left out, or there is no memory for   *)
(* it. One without libraries is written where the next one goes, and its   *)
(* store is not freed.                                                     *)
dxcore_add_adapter ==
  /\ at = "adapters" /\ adapter <= Len(machine.adapters) /\ adapter' = adapter + 1
  /\ LET a == machine.adapters[adapter] IN
     \/ UNCHANGED <<dxcore, stores>>
     \/ /\ a.wddm >= 2700 /\ dxcore_query_adapter_driverstore(a)
        /\ stores' = stores \cup {<<inits, adapter>>}
        /\ dxcore' = [dxcore EXCEPT
             !.adapterList = Append(SubSeq(@, 1, dxcore.adapterCount), <<inits, adapter>>),
             !.adapterCount = IF dxcore_populate_driverstore_library(a) THEN @ + 1 ELSE @]
  /\ UNCHANGED <<machine, inits, at, ready, config, freed, child, line, nodes>>

(* The end of the loop. Without an adapter nvc_init fails. *)
dxcore_enum_adapters ==
  /\ at = "adapters" /\ adapter > Len(machine.adapters)
  /\ dxcore' = [dxcore EXCEPT !.initialized = TRUE]
  /\ IF dxcore.adapterCount = 0 THEN InitFailed ELSE at' = "kmods" /\ UNCHANGED config
  /\ UNCHANGED <<machine, inits, ready, adapter, stores, freed, child, line, nodes>>

(* init_within_userns: the user map, the group map, then setgroups. A map  *)
(* that is missing, empty, of another form, the whole range or a part.     *)
Verdict(m) ==
  CASE m = "missing" -> "no" [] m \in {"unreadable", "invalid"} -> "error"
    [] m \in {"empty", "part", "deny"} -> "yes" [] OTHER -> "go on"

init_within_userns ==
  LET V(i) == Verdict(machine.maps[i]) IN
  IF V(1) # "go on" THEN V(1) ELSE IF V(2) # "go on" THEN V(2) ELSE IF V(3) # "go on" THEN V(3) ELSE "no"

load_kernel_modules ==
  /\ at = "kmods" /\ machine.load_kmods /\ ~dxcore.initialized
  /\ CASE init_within_userns = "error" -> InitFailed /\ UNCHANGED <<child, line>>
       [] init_within_userns = "yes" -> at' = "driver" /\ UNCHANGED <<config, child, line>>
       [] OTHER -> \/ at' = "waitpid" /\ child' = "chroot" /\ line' = 1 /\ UNCHANGED config
                   \/ InitFailed /\ UNCHANGED <<child, line>>
  /\ UNCHANGED <<machine, inits, ready, dxcore, adapter, stores, freed, nodes>>

SkipModules ==
  /\ at = "kmods" /\ (~machine.load_kmods \/ dxcore.initialized)
  /\ at' = "driver"
  /\ UNCHANGED <<machine, inits, ready, config, dxcore, adapter, stores, freed, child, line, nodes>>

WaitForChild ==
  /\ at = "waitpid" /\ child = "exited"
  /\ at' = "driver" /\ child' = "none"
  /\ UNCHANGED <<machine, inits, ready, config, dxcore, adapter, stores, freed, line, nodes>>
-----------------------------------------------------------------------------
(* The child. *)
ChildSteps == UNCHANGED <<machine, inits, at, ready, config, dxcore, adapter, stores, freed>>
ToNode(n) == nodes' \in {nodes, nodes \cup {<<config, n>>}}

(* The root of the driver, unless it is the root, and the capability. *)
ChangeRoot ==
  /\ child = "chroot" /\ child' \in {"nvidia", "exited"}
  /\ UNCHANGED <<line, nodes>> /\ ChildSteps

(* The module, the control node and a node for every device. *)
LoadNvidia ==
  /\ child = "nvidia"
  /\ \/ child' = "uvm" /\ UNCHANGED nodes
     \/ /\ child' = "caps"
        /\ \E S \in SUBSET ({<<"gpu", i>> : i \in 0 .. machine.matches - 1} \cup {<<"ctl", 0>>}) :
              nodes' = nodes \cup {<<config, n>> : n \in S}
  /\ UNCHANGED line /\ ChildSteps

(* mig_nvcaps_mknodes, a line of the file: lines of other devices and of   *)
(* capabilities which are not there are passed over, a line of another     *)
(* form or a node that cannot be made ends the walk.                       *)
\* variant: lines of other devices are not passed over
mig_nvcaps_mknodes_AllGpus ==
  /\ child = "caps"
  /\ IF line > Len(machine.minors) \/ machine.minors[line].kind = "other"
     THEN child' = "uvm" /\ UNCHANGED <<nodes, line>>
     ELSE LET l == machine.minors[line] IN
          IF ~l.exists
          THEN line' = line + 1 /\ UNCHANGED <<child, nodes>>
          ELSE \/ nodes' = nodes \cup {<<config, <<"cap", line>> >>} /\ line' = line + 1 /\ UNCHANGED child
               \/ child' = "uvm" /\ UNCHANGED <<nodes, line>>
  /\ ChildSteps

mig_nvcaps_mknodes ==
  /\ child = "caps"
  /\ IF line > Len(machine.minors) \/ machine.minors[line].kind = "other"
     THEN child' = "uvm" /\ UNCHANGED <<nodes, line>>
     ELSE LET l == machine.minors[line] IN
          IF (l.kind \in {"ci", "gi"} /\ l.gpu >= machine.matches) \/ ~l.exists
          THEN line' = line + 1 /\ UNCHANGED <<child, nodes>>
          ELSE \/ nodes' = nodes \cup {<<config, <<"cap", line>> >>} /\ line' = line + 1 /\ UNCHANGED child
               \/ child' = "uvm" /\ UNCHANGED <<nodes, line>>
  /\ ChildSteps

LoadUvm == child = "uvm" /\ child' = "modeset" /\ ToNode(<<"uvm", 0>>) /\ UNCHANGED line /\ ChildSteps

LoadModeset == child = "modeset" /\ child' = "exited" /\ ToNode(<<"modeset", 0>>) /\ UNCHANGED line /\ ChildSteps
-----------------------------------------------------------------------------
(* The services are started or not; nothing is undone for dxcore when they *)
(* are not.                                                                *)
StartServices ==
  /\ at = "driver"
  /\ \/ at' = "idle" /\ ready' = TRUE /\ UNCHANGED config
     \/ InitFailed /\ UNCHANGED ready
  /\ UNCHANGED <<machine, inits, dxcore, adapter, stores, freed, child, line, nodes>>

\* variant: the context stays initialized for dxcore
nvc_shutdown_Keeps ==
  /\ at = "idle" /\ ready
  /\ ready' = FALSE /\ config' = NoConfig
  /\ freed' = IF dxcore.initialized THEN freed \cup Listed(dxcore) ELSE freed
  /\ stores' = IF dxcore.initialized THEN stores \ Listed(dxcore) ELSE stores
  /\ UNCHANGED <<machine, inits, at, dxcore, adapter, child, line, nodes>>

nvc_shutdown ==
  /\ at = "idle" /\ ready
  /\ ready' = FALSE /\ config' = NoConfig
  /\ freed' = IF dxcore.initialized THEN freed \cup Listed(dxcore) ELSE freed
  /\ stores' = IF dxcore.initialized THEN stores \ Listed(dxcore) ELSE stores
  /\ dxcore' = [dxcore EXCEPT !.initialized = FALSE]
  /\ UNCHANGED <<machine, inits, at, adapter, child, line, nodes>>

PlatformInit ==
  /\ machine \in [wsl : BOOLEAN, adapters : AdapterLists, maps : IdMaps, minors : MinorsFiles,
                  matches : DeviceCounts, load_kmods : BOOLEAN, root : {"/", "/run/driver"}]
  /\ inits = 0 /\ at = "idle" /\ ready = FALSE /\ config = NoConfig /\ dxcore = NoDxcore
  /\ adapter = 1 /\ stores = {} /\ freed = {} /\ child = "none" /\ line = 1 /\ nodes = {}

PlatformNext ==
  \/ nvc_init_begin \/ dxcore_init_context \/ dxcore_add_adapter \/ dxcore_enum_adapters
  \/ load_kernel_modules \/ SkipModules \/ WaitForChild
  \/ ChangeRoot \/ LoadNvidia \/ mig_nvcaps_mknodes \/ LoadUvm \/ LoadModeset
  \/ StartServices \/ nvc_shutdown

PlatformSpec == PlatformInit /\ [][PlatformNext]_platvars
-----------------------------------------------------------------------------
(* While the context says WSL, every adapter it counts has the string of   *)
(* its store, which was not freed by an earlier shutdown, and components   *)
(* to mount; a context that is ready on WSL has a first adapter, which     *)
(* driver_init and device_mount_dxcore use without looking. Of an init     *)
(* that was shut down, only stores of adapters without components are      *)
(* forgotten.                                                              *)
AdaptersAreUsable ==
  /\ dxcore.initialized =>
       /\ \A s \in Listed(dxcore) : s \in stores \ freed /\ machine.adapters[s[2]].components # {}
       /\ at = "driver" \/ ready => dxcore.adapterCount > 0
  /\ \A s \in stores, t \in freed : s[1] = t[1] => machine.adapters[s[2]].components = {}

(* A node is made only outside of user namespaces and WSL, for a device    *)
(* the machine has, in the tree of the driver; and the services are not    *)
(* started while the child that makes them runs (load_kernel_modules,      *)
(* mig_nvcaps_mknodes).                                                    *)
NodesAreOfThisMachine ==
  /\ nodes # {} => ~machine.wsl /\ init_within_userns = "no" /\ machine.load_kmods
  /\ \A n \in nodes :
       /\ n[1] = machine.root
       /\ n[2][1] = "gpu" => n[2][2] < machine.matches
       /\ n[2][1] = "cap" =>
            LET l == machine.minors[n[2][2]] IN
            l.exists /\ (l.kind \in {"ci", "gi"} => l.gpu < machine.matches)
  /\ at = "driver" => child = "none"
=============================================================================
