# A TLA+ model of libxdxgpu-container

The library in `src/src` prepares a container for a GPU: it starts two helper
processes, asks them about the driver and the cgroup, mounts the driver and the
devices into the container, allows the devices in the container's device
cgroup, and runs `ldconfig` in the container's root filesystem. The command
line tool in `src/src/cli` does this for one container and exits. Most of the
code runs once, with privileges, on a path where any system call can fail; what
is hard to get right is what remains when it does.

Contents: [the system](#the-system), [modules](#modules), [runs](#runs),
[findings](#findings), [fairness](#fairness), [proofs](#proofs),
[not modelled](#not-modelled).

## The system

### Service processes (`rpc.c`, `driver.c`, `nvcgo.c`)

State: per service a `struct rpc` (an `initialized` flag, two descriptors, a
pid, the client handle) and the `initialized` flag of the context that embeds
it; in the kernel, the descriptor table of the caller, the process table, the
parent death signals, pending signals and the requests in each socket.

Operations: `rpc_init` makes a socketpair and forks; the child runs
`setup_service` and then `svc_run`, the parent runs `setup_client`. `call_rpc`
sends a request and waits for the answer for ten seconds. `rpc_shutdown` and
the failure path of `rpc_init` call `reap_process`: a `waitpid` that does not
block, SIGTERM, a `poll` of ten milliseconds on the socket, SIGKILL, a
`waitpid` that blocks.

Hard: two processes and a third party (the kernel may give the number of a
reaped process to somebody else); the caller may die at any step; handlers may
hang; calls are abandoned; both services share the descriptor table, and the
code keeps numbers of descriptors it has closed.

Correct when: a service that runs can still be shut down; nobody else's process
is signalled and nobody else's descriptor closed; the blocking `waitpid` is
reached for a dying process only; every entry point returns; a service does not
outlive its caller.

### Calls of the services (`nvc_clt.c`, `nvc_xdr.c`, `nvc_svc.c`, `driver.c`, `nvc_info.c`)

A stub encodes its arguments, the dispatcher decodes them, calls the procedure,
encodes the result; the client decodes it. `nvc_device_info_new` makes one call
for each property of each device. Hard: pointers of the service are sent to the
client and back, a late answer is on the stream when the next call waits, the
service or a device disappears between two calls, some procedures do not fill
what they return. Correct when every answer is true of the device it was asked
for, and a failure leaves neither a string nor a mixture of two devices.

### Library context (`nvc.c`, `dxcore.c`)

`nvc_init` copies the configuration, opens the mount namespace, tries dxcore
and lists its adapters or loads kernel modules and makes device nodes in a
child, and starts the driver and nvcgo; `nvc_shutdown` goes the other way. Hard:
failures half way, repeated calls on the same context. Correct when an
initialized context has both services, a successful shutdown leaves neither a
process nor a descriptor, adapters are never used after they were freed, and
nodes are made for devices of this machine only.

### Information about the driver (`nvc_info.c`, `ldcache.c`, `elftool.c`)

Libraries are looked up in the library cache, binaries in `PATH` or the driver
store. Hard: the cache may be out of date and name one file several times, for
two architectures. Correct when the result is what the host has.

### Container (`nvc_container.c`, `options.c`, `cgroup_legacy.c`) and paths (`utils.c`)

Directories of the container are chosen by what its root holds; the cgroup of
version 1 is found by combining two files of two processes; every path below
the root is resolved component by component. Hard: links that lead out of the
root, components that do not exist yet, `..` after a link. Correct when a path
resolves to what a process in that root would find, and rules are written to the
cgroup of the container.

### Mounts (`nvc_mount.c`)

`nvc_driver_mount`, `nvc_device_mount` and four entry points for MIG enter the
namespace of the container, perform a list of operations that depends on flags
and arguments, and undo what they recorded when one fails. Hard: each operation
is itself several system calls with its own failure path; the same path may
carry the mount of an earlier call; some mounts are not recorded. Correct when
a failed call leaves (almost) nothing of its own and takes nothing away from
earlier calls, and a successful one leaves usable devices.

### Device cgroups (`cgroup.c`, `nvcgo/`)

Requests are executed one at a time by the nvcgo service, with capabilities
raised around them. A version 2 request loads a rewritten copy of each attached
program, detaches the originals and attaches the copies. Hard: the rewriting is
not atomic, programs may be unreadable, the manager of the cgroup may replace
them, a request may be abandoned by the client and go on in the service.
Correct when what the container runtime allowed stays allowed, what was granted
stays granted, and nothing else becomes allowed.

### Library cache update (`nvc_ldcache.c`)

A child enters the namespaces of the container, drops capabilities, changes
root, hides `/proc`, sets limits, changes user, installs a seccomp filter and
executes `ldconfig`; the caller reads its output and waits. Hard: each step
needs capabilities that an earlier one may have given up; `ENOENT` counts as
success. Correct when `ldconfig` never runs half confined, no step lacks what
it needs, and the call returns.

### Permissions (`perm_*` in `utils.c`, tables in `nvc.c` and `cli/common.c`)

Capability sets, bounding set, user IDs. Used by the two above and by the
command line.

### Command line (`cli/`)

`main` chooses a version of the library and parses; `configure`, `list` and
`info` lower their capabilities stage by stage around the calls of the library;
`select_devices` turns the `--device` list into GPUs; `dsl_evaluate` decides
`--require`. Correct when the services end whichever stage fails, each selected
device is mounted once, nothing is mounted that the requirements refuse, and a
requirement means what its syntax says.

### How they interact

The command line calls the library (synchronous calls). The library calls the
services (messages over a socketpair, one outstanding request). The nvcgo
service and the library both act on the container through the kernel (cgroup,
mounts), which is the state they share. Return values go up; a failure anywhere
ends in `nvc_shutdown`.

## Modules

| Module | Models | Uses |
|---|---|---|
| `Rpc` | service processes: `rpc.c`, the init, shutdown and query entry points of `driver.c` and `nvcgo.c` | |
| `Service` | what the rest of the library may rely on: a handle that is down, up or gone, and its process | |
| `RpcService` | the mapping under which `Rpc` implements `Service` | `RpcInvariant`, `INSTANCE Service` |
| `DriverCalls` | client stubs, codecs and dispatch, the procedures of `driver.c`, `nvc_device_info_new` | |
| `NvcContext` | `nvc_init`, `nvc_shutdown`, and queries over both services | extends `Rpc` |
| `Platform` | the part of `nvc_init` before the services: configuration, dxcore, kernel modules, device nodes | |
| `DriverInfo` | `nvc_driver_info_new`, with `ldcache_resolve` and `elftool_open` | |
| `PathResolve` | `path_resolve`, `path_resolve_full` | |
| `Container` | `nvc_container_new`, `options_parse`, `cgroup_legacy.c` | |
| `NvcMount` | the six mount entry points | |
| `DeviceCgroup` | `cgroup.c`, the cgroup part of `nvc_container.c`, `v1.go`, `v2.go`, `ebpf.go` | |
| `Capabilities` | `perm_set_capabilities`, `perm_set_bounds`, `perm_drop_privileges`, `set_fsugid`, the capability tables, the kernel's rules | |
| `LdcacheUpdate` | `nvc_ldcache_update` and its child | extends `Capabilities` |
| `Commands` | `cli/main.c`, the choice of the library, parsers and stages of `configure`, `list`, `info`, `select_devices` | extends `Capabilities` |
| `Dsl` | `dsl_evaluate` and its comparisons | |
| `RpcInvariant` | the inductive invariant of `Rpc` | extends `Rpc` |
| `ContextInvariant` | the inductive invariants of `NvcContext` | extends `NvcContext`, `RpcInvariant` |
| `RpcProofs` | theorems about `Rpc`, `RpcService` and `NvcContext` | |
| `NvcMountSteps`, `NvcMountProofs` | theorems about `NvcMount`: its invariant and the steps that keep it, what follows | the second extends the first |
| `DriverProofs` | theorems about `DriverCalls` | |
| `CommandsProofs` | theorems about `Commands` and `Dsl` | |
| `PlatformProofs` | theorems about `Platform` and `Container` | |
| `DeviceCgroupProofs`, `LdcacheProofs` | theorems about `DeviceCgroup` and `LdcacheUpdate` | |
| `MC*` | instances for the model checker | |

Definitions carry the names of the functions they translate where TLA+ allows
it. `map` in `PROJECT.json` gives the lines of each. Definitions marked
external there are the kernel's (signals, process numbers, capabilities), the
RPC library's, the management library's, dxcore's or the cgroup manager's.
Operators named `X_Suffix`, with a comment that begins with `variant`, are wrong
versions of `X`: each shows that one property notices one plausible mistake. No
specification uses them.

How state and actions correspond to the code:

* **Rpc.** `rpc[s]` is `struct rpc`, `ctxinit[s]` the flag of the context
  around it, `fdt` the descriptor table (number to what it refers to), `owner`
  and `st` the process table, `pdeath`, `term`, `kill` the death signal and
  pending signals, `reqs` the requests in each socket. The thread of the caller
  has a program counter `pc`; a blocking call is a step that waits. A service
  goes through `born`, `armed`, `checked`, `run`, `leaving`, `closed`,
  `zombie`. A process that ended and was collected frees its number, which
  `ForeignStarts` may take. `*rpc = (struct rpc){...}`, the closing of stale
  numbers and the pid left behind by a failed `setup_client` are as in the code.
* **Service.** One handle for each service. `Start` needs a process no other
  handle stands for, `Die` is the end of the process for whatever reason, `Stop`
  needs a process that is gone. `handleOf` in `RpcService` reads the handle off
  `ctxinit`, the pid in `struct rpc` and the process table.
* **DriverCalls.** `requests` and `replies` are the streams of each service. A
  message is the shape its codec writes and the values in it; a decoder with
  another shape fails. An answer that comes after the timeout stays in `replies`
  and is skipped by its number. `deviceHandles` is the memory of the service the
  pointers lead to. Devices come and go (`MaxChanges`), services die.
* **NvcContext.** `lib` is the position inside `nvc_init` or `nvc_shutdown`;
  the steps of the services are those of `Rpc`. `dirty` and `retried` are
  history: a call failed, and `nvc_init` was called again after that.
* **Platform.** `at` is the position in `nvc_init`, `child` that of the child
  that loads modules; `adapter` is the turn of the loop over the adapters, one
  step each. `stores` and `freed` are the strings of the adapters, each with the
  init that allocated it, over several inits of one context.
* **DriverInfo.** One step for each entry of the cache and each architecture.
  A slot of `paths` belongs to a name of the lists in `nvc_info.c`, and a name
  may be listed twice, as there.
* **PathResolve.** One step for each component; `fd` is the directory the
  descriptor refers to, as a path of the host, so that leaving the root is
  visible. The reference, `Walk`, follows the kernel's rules in a changed root.
* **Container.** `around` is what the call finds; `stage` follows
  `nvc_container_new`, and `lib` is the turn of the loop over the compatibility
  libraries of the root. A file of `/proc` is a sequence of lines.
* **NvcMount.** An entry point computes its plan, the sequence of operations
  its flags and arguments lead to; a step performs the head of the plan,
  or fails in one of the ways its function can fail, or undoes a recorded mount.
  `mounts[p]` is the stack of mounts at a path, each with the call that made it
  and whether it was remounted with restricting flags. The MIG entry points are
  public API that no command of this tree calls.
* **DeviceCgroup.** A filter is what our prepended blocks accept and what the
  program of the runtime accepts. `svc.pc` follows the handler; `GivesUp` is the
  client's timeout, after which the service goes on. `runtime`, `granted`,
  `requested` and `clean` are history.
* **LdcacheUpdate.** `child.pc` is the step of the child, `cred` its
  credentials, `jail` what confines it. Each step has the set of errors it can
  fail with, since `ENOENT` is treated apart; a step that needs a capability
  the child lacks fails with `EPERM` and is remembered in `child.denied`.
* **Commands.** `pc` is the stage; a call of the library is one step that
  succeeds or fails, whose own steps are in the other modules. A token of
  `--device` is abstracted to what it spells; `holds` is what a requirement
  evaluates to, which `Dsl` computes.
* **Dsl.** A version is a sequence of numbers, an expression a rule, an
  operator and a value, a predicate a sequence of groups. The step operators
  follow the two nested `strsep` loops.

## Runs

All runs but the ones marked *violation* pass. Deadlock is not checked in any
of them: each system really stops, because a command ends, a call
returns, a bounded number of calls is used up, or the caller is dead and its
services are gone. Progress is stated by the temporal properties instead.

| Run | Checks | Distinct states |
|---|---|---|
| `rpc_returns` | `WaitsOnlyForTheDying`, `RunningServiceIsReachable`, `InitializedPidIsChild`, `SignalsOnlyItsChild`, `CallsReturn`, `ImplementsService`: one service, two process numbers, SIGTERM blocked, polls interrupted, handlers that hang | 572,560 |
| `rpc_orphans` | `OrphansTerminate`, `CallsReturn`: a service that keeps its credentials and that the caller may not signal | 85,486 |
| `rpc_orphans_creds` | `OrphansTerminate`, *violation*: a service that changes its credentials | |
| `ctx_clean` | `ShutdownLeavesNothing`, `ClosesOnlyItsOwn`: both services, three process numbers, polls not interrupted | 211,642 |
| `ctx_faulty` | `UsesServicesAsAllowed`: polls interrupted, SIGTERM blocked, `nvc_init` repeated after failures | 1,599,132 |
| `mount_calls` | `RecordsAreMounted`, `RollbackIsAlmostComplete`, `LosesAtMostOneEarlierMount`, `SuccessIsUsable`, `KeepsContent` | 886,498 |
| `mount_mig_comment` | `EarlierMountsSurvive`, *violation* | |
| `cgroup_rules` | `NeverStricter`, `GrantedStaysUsable`, `RewriteIsExact`, `CapsDroppedOrReported` | 87,225 |
| `ldcache_update` | `ExecIsConfined`, `ExecCapabilities`, `StageIsSufficient`, `SuccessIsExplained`, `UpdateReturns` | 57,056 |
| `commands` | `ServicesEnd`, `MountsMeetRequirements`, `SelectedOnce`, `SuccessIsComplete` of `Commands`; `VersionsAreOrdered`, `PredicateIsDisjunction` of `Dsl` | 2,052,835 |
| `commands_uuid` | `UuidsAreFound`, *violation* | |
| `library` | `AnswersAreTrue`, `FailuresAreClean` of `DriverCalls`; `ResolvesAsChroot` of `PathResolve`; `InfoMatchesHost` of `DriverInfo`; `AllowsInOwnCgroup`, `ContainerIsUsable` of `Container`; `AdaptersAreUsable`, `NodesAreOfThisMachine` of `Platform`; `CallsEnd` | 215,185 |

The modules of `library`, and the two of `commands`, share no state: a
behaviour of the run is a behaviour of one of them while the others are idle.

Each property is stated in words above its definition. Some have exceptions,
which are behaviours of the code that a reader should know:

* After a failed `setup_client` the child is reaped twice. The second reap has
  no socket, so that `poll` returns at once: with SIGTERM blocked, or a `kill`
  that is refused, it waits for a child nothing ends (`ReapsWithoutSocket`);
  and if the number was reused, it signals another process
  (`SignalsOnlyItsChild`).
* `driver_init` shuts down a zeroed structure when the path of the library
  cannot be built, which closes descriptor 0 (`ClosesOnlyItsOwn`).
* `nvc_init` on a context whose last call failed overwrites the driver
  structure; the old service is out of reach (`retried`).
* The two getters of the MIG mode fail without an error in the context
  (`FailuresAreClean`).
* A component that exists and cannot be opened as a directory leaves one
  descriptor behind in `path_resolve` (`ResolvesAsChroot`).
* On a host that `copy_config` does not know, `nvc_container_new` fails without
  an error (`ContainerIsUsable`); and where the first cgroup mount is of another
  part of the hierarchy, the path built from it is not that of the container
  (`AllowsInOwnCgroup`).
* Stores of adapters without components, and of an init that failed later, are
  never freed (`AdaptersAreUsable`).
* A failed mount call leaves the file in progress of `mount_files`, and the
  mounts the code never records (`Unrecorded`).
* A requirement group of commas alone returns the result of the group before it
  (left out of `PredicateIsDisjunction`).

### Bounds

* `Rpc`: one service and two process numbers. A second number is what a stale
  pid needs in order to meet a stranger; services interact through the
  descriptor table only, which `ctx_*` has two of. `MaxFd` 3 has room for the
  caller's descriptor, one of the library and a socketpair; `MaxFd` 4 or 5 does
  for two services. `MaxQueue` 1 or 2: an abandoned request and the next one.
* `DriverCalls`: three devices, of which at most two fit the table
  (`MAX_DEVICES` 2), two orders of enumeration and one change of it, so that an
  index means another device in the middle of `nvc_device_info_new`.
* `PathResolve`: every tree of three places, each a directory, a file, missing
  or a link (relative, absolute or upwards, so that some dangle and some loop), every path of
  up to three components; three links are too many (`MAXSYMLINKS`).
* `DriverInfo`: caches of up to three entries; a name that is listed twice.
* `Container`: five roots, one for each choice of directories; mount files with
  the cgroup hierarchy mounted whole, in part, twice or not at all; cgroups whose
  names begin alike.
* `Platform`: two inits of one context, zero or one device on the bus.
* `NvcMount`: two calls, and three of the devices and of the global MIG entry
  points: a mount, a mount over it, a failure. Two libraries of the same name in
  different host directories, two GPUs, two MIG devices of one GPU instance.
* `DeviceCgroup`: the lookup of version and path and three device requests
  (`MaxRequests` 5) for two devices; one filter replaced by the manager.
* `LdcacheUpdate`: not bounded; two owners of the root filesystem and three
  kinds of caller.
* `Dsl`: versions of up to three numbers from 0 to 2, which has every relation
  of length, prefix and trailing zeros; up to three groups of two expressions.
* `Commands`: up to two GPUs and lists of up to three tokens: the array of
  selected devices is then shorter than the list. Two places for requirements
  (`MAX_REQS`) and lists of four.

Symmetry over process numbers is used in `ctx_*` only, which check no liveness.

## Findings

1. `rpc_orphans_creds`. The driver service drops its privileges
   (`driver.c:178`) after it armed its death signal (`rpc.c:81`); the change of
   credentials clears the signal. A caller that dies later leaves the service
   behind, which the comment at `rpc.c:78` means to exclude.
2. `mount_mig_comment`. The error path of `mount_procfs_mig` unmounts its target
   also when it mounted nothing there (`nvc_mount.c:507`), and so removes the
   mount of an earlier call.
3. `commands_uuid`. `select_gpu_device` compares UUIDs with the name from its
   third character on (`cli/common.c:176`): the UUID that `info` prints is
   refused. Two characters after a one-digit index begins the next name of the
   list, and `UuidAt` follows the code there: an index before a last UUID
   selects the GPU of the UUID. Behind the last name lies memory written before
   any UUID was known to the process; the model lets it match none.

Met while modelling, without a run of their own:

* `v2.go:163` raises the memory limit after the programs that need it were
  loaded (`v2.go:198`); the comment says it avoids an error "below". The order
  is in the model; on kernels that account programs to the limit the load fails,
  which is one of the failures the properties allow for.
* `v2.go:129` builds the program for a cgroup without filters from a bare
  return, with no value in R0 on the path where nothing matches. The kernel
  does not load it, so that such a request always fails.
* `nvc_mount.c:788` compares with `nvrm_version`, whose only assignment is
  commented out (`nvc_info.c:674`): with versioned compatibility libraries in
  the container the process dies there (`dead` in `NvcMount`).
* `nvc_mount.c:826` stores the names of a directory in an array of four without
  a bound. `NvcMount` assumes at most four.
* `nvc_mount.c:978` hands a file that could not be opened to `fclose`; in
  `NvcMount` this ends the process.
* `cli/configure.c:372`: a device that fails to mount ends the command with the
  driver and the devices before it still mounted. Nothing in the repository
  says what should be left.

## Fairness

* `Rpc!FairSpec`: weak fairness of the caller's steps (it is scheduled, and its
  call has a timeout) and of the steps in which a service starts, leaves or
  takes a signal (the kernel runs it). Nothing is assumed of handlers, of the
  caller calling anything, or of the rest of the machine.
* `LdcacheUpdate`: weak fairness of the child up to `execve` and of the caller.
  `ldconfig` itself may run for ever, since `RLIMIT_CPU` does not end a process
  that waits; `UpdateReturns` says so.
* `library`: weak fairness of `path_resolve`, which is a loop of one thread, and
  of the client of `DriverCalls`, whose wait has a timeout. Nothing is assumed
  of the services, which may never answer.

The other specifications have no liveness property and no fairness. Under this
fairness a caller may still die at any step, and a handler may hang for ever.

## Proofs

All theorems hold for every value of the constants their named assumptions
allow. All but `TypeCorrect` state a property that a run checks.

| Module | Theorem | States |
|---|---|---|
| `RpcProofs` | `TypeCorrect` | `Spec => []TypeOK` |
| | `PidsAreFresh` | `Spec => []InitializedPidIsChild` |
| | `ReapEnds` | `Spec => []WaitsOnlyForTheDying` |
| | `NoServiceLost` | `Spec => []RunningServiceIsReachable` |
| | `SignalsAreForChildren` | `Spec => SignalsOnlyItsChild` |
| | `Refinement` | `Spec => ImplementsService` |
| | `ContextUsesServices` | `NvcSpec => UsesServicesAsAllowed` |
| | `NothingIsLeft` | `NothingRefused => (NvcSpec => []ShutdownLeavesNothing)` |
| | `OwnDescriptorsOnly` | `NothingRefused => (NvcSpec => ClosesOnlyItsOwn)` |
| `NvcMountProofs` | `RecordsAreMountedAlways` | `MountSpec => []RecordsAreMounted` |
| | `RollbackAlways` | `MountSpec => []RollbackIsAlmostComplete` |
| | `EarlierMountsAlways` | `MountSpec => []LosesAtMostOneEarlierMount` |
| | `UsableAlways` | `MountSpec => []SuccessIsUsable` |
| | `ContentKept` | `MountSpec => KeepsContent` |
| `DeviceCgroupProofs` | `RewritesOnlyAdd` | `CgroupSpec => []NeverStricter` |
| | `GrantsAreKept` | `CgroupSpec => []GrantedStaysUsable` |
| | `CapabilitiesAreDropped` | `CgroupSpec => []CapsDroppedOrReported` |
| | `RewritingIsExact` | `CgroupSpec => []RewriteIsExact` |
| `LdcacheProofs` | `Confinement` | `LdcacheSpec => []ExecIsConfined` |
| | `CapabilitiesOfLdconfig` | `LdcacheSpec => []ExecCapabilities` |
| | `StageSuffices` | `LdcacheSpec => []StageIsSufficient` |
| | `SuccessExplained` | `LdcacheSpec => []SuccessIsExplained` |
| `CommandsProofs` | `NoServiceIsLeft` | `CommandsSpec => []ServicesEnd` |
| | `RequirementsAreMet` | `CommandsSpec => []MountsMeetRequirements` |
| | `SelectsOnce` | `CommandsSpec => []SelectedOnce` |
| | `SuccessCompletes` | `CommandsSpec => []SuccessIsComplete` |
| | `VersionsOrdered` | `DslSpec => []VersionsAreOrdered` |
| | `PredicateDecided` | `DslSpec => []PredicateIsDisjunction` |
| `PlatformProofs` | `OnlyNodesOfThisMachine` | `PlatformSpec => []NodesAreOfThisMachine` |
| | `AdaptersHaveTheirStores` | `PlatformSpec => []AdaptersAreUsable` |
| | `ContainersAreUsable` | `ContainerSpec => []ContainerIsUsable` |
| | `OwnCgroupOnly` | `ContainerSpec => []AllowsInOwnCgroup` |
| `DriverProofs` | `AnswersTrue` | `CallsSpec => []AnswersAreTrue` |
| | `FailuresClean` | `CallsSpec => []FailuresAreClean` |

None of the invariants is inductive as it stands. What each proof adds:

* **Rpc.** `RpcInvariant!Inv` adds what the thread knows from where it is.
  `ProcInv`: the process table agrees with itself. `ControlInv`: which operation
  and which flags go with a program counter; for instance a reap inside an init
  is forced. `PidInv`: whose the pid in use is; while a service is initialized
  and being reaped, it is the service's own child. `DyingInv`: why the process
  being reaped is about to end. An answered shutdown request means it left its
  loop, because the last request in the socket is the pending one; a forced reap
  has sent SIGTERM. Each part is preserved by every step (`TypeNext`,
  `ProcNext`, `ControlNext`, `PidNext`, `DyingNext`, `ReachNext`), one case per
  action. `PidInv` is needed for the types already: reaping updates the table at
  the pid, which has to be one.
* **Rpc implements Service.** Under `Inv`, the handles of `RpcService` change
  only when a context becomes initialized (`Start`), its process ends (`Die`),
  is collected and given up (`Stop`), or the caller dies. `HandleKept` covers
  the steps that leave the three inputs of the mapping alone, `ProcessStep`,
  `TableStep`, `ThreadStep` and `BeginStep` the others.
* **NvcContext.** Its steps are those of `Rpc`, or a second `nvc_init` after a
  failure, which zeroes the structure of the driver and with it the pid of a
  service that may still run. The lemmas about `Rpc` are therefore stated for
  `AnyNext`, which has that step too, and `CoreInv` is the part of the invariant
  that survives it. `ContextInv` adds where the library call is in relation to
  the call of the service (`LibInv`), what a call of a service that returns has
  done (`ReturnInv`), that the descriptor of the namespace is the context's own
  (`MntInv`), and that before a second `nvc_init` no service is started twice
  (`FirstInv`); the last gives `UsesServicesAsAllowed`. The other two theorems
  have the hypothesis `NothingRefused` (the `poll` of a reap is not interrupted
  and no signal is refused), as the run `ctx_clean` has. Without it they are
  false: a reap that gives up leaves its child, and a failed shutdown of nvcgo
  leaves its socket where the stale `fd[SOCK_SVC]` of the driver points.
  `CleanInv` then says that every child is the process of a service in use
  (`ChildInv`), that only the second reap of a failed `setup_client` finds no
  child (`ReapInv`), that each socket in use is open and the stale number of the
  driver is free or nvcgo's (`SocketInv`), and that nothing else is open
  (`TableInv`).
* **NvcMount.** `MountInv` counts. A stack of mounts is what the call found,
  possibly cut, below what it added (`StackInv`). While the call runs, its
  height is what was found plus how often the arrays of the rollback name the
  path, apart from paths no array remembers (`RunningInv`); after a failure the
  two differ by one at one path (`FailedInv`): what a failing operation can do
  is `Damage`. `PlanInv` says what the plans of the entry points have in common:
  a device that is mounted is allowed and entered in the profile later on, which
  gives usability (`UsableInv`, `ProfileInv`).
* **DeviceCgroup.** `CgroupInv` says that all programs, attached or in the hands
  of the service, have the instructions of a filter of the runtime (`Known`),
  that no two attached programs have the same number (`NumbersInv`: detaching
  one takes only that one away), that all of them accept what was granted
  (`GrantInv`), and how far the rewriting is: every readable attached filter is
  still to be visited, or has a rewritten copy (`RequestInv`). With the last
  filter detached, what is attached accepts the device of the request. Each
  action has a lemma for what it changes (`...Effect`) and one for the
  invariant (`...Step`). For `RewriteIsExact`, `AddedInv` says that only devices
  that were asked for are put before a filter, and `CleanInv` that while nothing
  has failed no filter is lost: what is detached has a copy in the hands of the
  service, and numbers still stand for the filters they were read from.
* **LdcacheUpdate.** `LdcacheInv` has one conjunct for each thing a step of the
  child adds and no later one takes away: `Confined` (namespaces, root, limits,
  user), `Lowered` (the sets `execve` computes from), `Overrides` (the path of
  `DAC_OVERRIDE` to `ldconfig`), `Sufficient` (what the steps to come need) and
  `Explained` (how status 0 comes about).
* **Commands.** `ServicesInv`: from the first lowering on, a process of root can
  signal its services, since every stage has `KILL`; so `nvc_shutdown` is never
  refused. `RequirementsInv`: the requirements that are checked are those that
  were asked for, and nothing is mounted before the check. `SelectionInv`: the
  array of selected devices has no GPU twice and those of the names read so
  far. `MountInv`: the driver is mounted first, then the selected GPUs in their
  order; whoever reports success has passed every stage.
* **Dsl.** Versions are compared at their first difference, which exists because
  a set of numbers that is not empty has a least one (`LeastOfNat`); this takes
  the place of an induction over the length. `DslInv`: every group before the
  current one has an expression that does not hold, those before the current
  expression hold.
* **Platform.** `NodesInv`: while the child runs its parent is in `waitpid`, and
  the conditions under which it was made still hold. `AdaptersInv`: stores
  belong to the init that allocated them, those freed to earlier ones, and the
  listed adapters are those of the last init that have components.
* **Container.** `LibrariesInv` (no compatibility library twice),
  `DirectoriesInv` (what `copy_config` chose stays) and `CgroupInv` (devices are
  allowed only in the cgroup that was found).
* **DriverCalls.** `CallsInv` follows a value from the memory of the service to
  the caller. `MessagesInv`: a request has the shape its procedure decodes, and a
  pointer in it is that of a handle the service filled. `CurrentInv`: the request
  of the call that waits is the last one, and the only one if it carries a
  handle; once its answer is there no request is left. So no abandoned
  `driver_get_device` overwrites the handle between the answer to one call and
  the next, and an answer with the number of the call is about the device the
  handle stood for when it was obtained. `InfoInv`: the entry being read has
  exactly the fields whose calls the plan has passed, all of one device; entries
  before it are complete and those after it empty; `strings` is the number of
  strings in the entries, which `nvc_device_info_free` brings to zero.
  `ResultInv` is about the result handed out last. The assumptions on constants
  are that the value standing for NULL is not a device and that clients use the
  getters there are (`Getters`).

Lemmas on what `Capabilities` does to credentials are at the head of
`LdcacheProofs`.

Only model-checked:

* `CallsReturn`, `OrphansTerminate`, `UpdateReturns`, `CallsEnd`: liveness under
  fairness is out of reach of the prover.
* `ResolvesAsChroot`: the reference resolves a path recursively, and what a
  recursive definition computes for every path needs an induction over data.
* `InfoMatchesHost`: `array_pack` and the search of `PATH` are `SelectSeq`, which
  is recursive and takes an operator; nothing can be proved about its result for
  arrays of any length.

## Not modelled

* **Interfaces.** `nvml.h` (two fifths of the source lines) and `nvc.h` are
  declarations; of the former only a few names are used.
* **MIG lookup.** `fill_mig_device_info` and what it calls in `nvc_info.c` have
  no caller, and no device has MIG devices in this tree: their selection
  in `Commands` does nothing. Lookups of firmware and sockets are commented out.
* **Formats.** The layout of the library cache file, of ELF files, of the output
  of the commands, of log lines. `elftool_has_dependency` and
  `elftool_has_abi` are called from commented-out lines only.
* **Readers and wrappers.** `file_read_line` and its like, string helpers, thin
  wrappers of system calls, `log_*`; a read is a step that may fail. Failing
  allocations are modelled where they leave something behind.
* **nvcgo.** The symbols of the shared object, and the parsing of mount and
  cgroup files in Go: a step that may fail.
* **Version 0 of the library**, which `libnvc.c` may load, is not in this tree.
* `Rpc`: the queries of a service are one action there, since they do not differ
  for the life of the process; `DriverCalls` has each of them.
* `NvcMount`: the directory of video drivers has at most four names. Null
  pointers handed to the C library (a missing MIG minors file, an empty
  application profile, no driver version) end the process: `dead`.
* `Dsl`: `arch` and `brand` are never provided in this tree (their getters are
  commented out in `nvc_info.c`), so that comparing strings is not exercised.
* `LdcacheUpdate`: the seccomp filter is one flag.
* `PathResolve`: the tree does not change during a resolution.
* The asserts of the code are compiled out (`-DNDEBUG`) and abort nothing in the
  models.
