------------------------------ MODULE MCLibrary ------------------------------
(***************************************************************************)
(* The calls of the library that are not modelled with others, for TLC.    *)
(* They share no state: a behaviour is that of one of them, and the others *)
(* are idle from the start.                                                *)
(***************************************************************************)
EXTENDS DriverCalls, PathResolve, DriverInfo, Container, Platform

CONSTANTS d1, d2, d3

libvars == <<callvars, pathvars, infovars, cntvars, platvars>>
-----------------------------------------------------------------------------
MCDevices == {d1, d2, d3}
MCEnumerations == {<<d1, d2>>, <<d2, d3, d1>>}
MCQueries ==
  {"driver_get_rm_version", "driver_get_cuda_version", "driver_get_device_brand", "driver_get_device_arch",
   "driver_get_device_max_mig_device_count", "mig_enabled", "mig_capable",
   "driver_get_device_gpu_instance_id", "driver_get_device_compute_instance_id",
   "nvcgo_find_device_cgroup_path"}

CallsIdle ==
  /\ enumeration = <<>> /\ changes = 0 /\ deviceHandles = [h \in Handles |-> Null]
  /\ alive = {} /\ requests = [s \in {"driver", "nvcgo"} |-> <<>>]
  /\ replies = requests
  /\ client = [op |-> "none", plan |-> <<>>, infos |-> MaxInfos + 1, xid |-> 0, h |-> Null, i |-> 0,
               j |-> 0, of |-> Null, rv |-> 0, err |-> "none", out |-> Null]
  /\ gpus = <<>> /\ strings = 0 /\ wsl = FALSE
-----------------------------------------------------------------------------
(* Trees under /r with two names and one below: directories, files, links  *)
(* that are absolute, relative, dangling or lead to themselves.            *)
Dir == [kind |-> "dir"]
Link(abs, to) == [kind |-> "link", abs |-> abs, to |-> to]
Content == {[kind |-> "none"], Dir, [kind |-> "file"], Link(TRUE, <<"a">>), Link(FALSE, <<"b">>),
            Link(FALSE, <<"..", "b">>)}
TreeOf(a, b, ab) ==
  LET all == [p \in {<<>>, <<"r">>, <<"a">>, <<"r", "a">>, <<"r", "b">>, <<"r", "a", "b">>} |->
                CASE p = <<"r", "a">> -> a [] p = <<"r", "b">> -> b [] p = <<"r", "a", "b">> -> ab
                  [] OTHER -> Dir]
  IN [p \in {q \in DOMAIN all : all[q].kind # "none"} |-> all[p]]
MCTrees ==
  {t \in {TreeOf(a, b, ab) : a \in Content, b \in Content, ab \in Content} :
     <<"r", "a", "b">> \in DOMAIN t => <<"r", "a">> \in DOMAIN t /\ t[<<"r", "a">>].kind = "dir"}
MCPaths == UNION {[1 .. n -> {"a", "b", ".."}] : n \in 1 .. 3} \cup {<<"a", ".", "b">>}
MCRootDir == <<"r">>

PathIdle ==
  /\ tree = [p \in {<<>>} |-> Dir] /\ path = <<>> /\ ptr = <<>> /\ realpath = <<>> /\ fd = <<>>
  /\ noents = 0 /\ nlinks = 0 /\ fds = 0 /\ resolved = "idle"
-----------------------------------------------------------------------------
(* Two names, one of them listed twice; files of the driver package, of    *)
(* the distribution and of the subsystem, one that is gone, one of another *)
(* architecture.                                                           *)
MCLibraries == <<"libdrm", "libgl", "libdrm">>
MCDxcoreLibs == <<"libdxcore">>
Entry(k, a, d, f, o) == [key |-> k, arch |-> a, dir |-> d, file |-> f, opens |-> o]
MCEntries ==
  {Entry("libdrm", "libs", "opt", "drm", TRUE), Entry("libdrm", "libs", "usr", "drm", TRUE),
   Entry("libgl", "libs", "opt", "gl", TRUE), Entry("libgl", "libs", "usr", "gl", TRUE),
   Entry("libgl", "libs", "lib", "gl", FALSE), Entry("libgl", "libs32", "usr", "gl32", TRUE),
   Entry("libdxcore", "libs", "wsl", "dxcore", TRUE), Entry("libgl", "other", "usr", "gl", TRUE),
   Entry("libgl", "libs", "wsl", "gl", TRUE)}
MCCaches == UNION {[1 .. n -> MCEntries] : n \in 0 .. 3}
MCBins == <<"xdxsmi">>
MCSearchPaths == {<<"bin", "sbin">>}
MCBinChoices == {{}, {<<"bin", "xdxsmi">>, <<"sbin", "xdxsmi">>}, {<<"s1", "xdxsmi">>, <<"s2", "xdxsmi">>}}
MCStores == {<<"s1", "s2">>}

DriverInfoIdle ==
  /\ host = [cache |-> <<>>, path |-> <<>>, bins |-> {}, stores |-> <<>>, wsl |-> FALSE]
  /\ step = "idle" /\ entry = 1 /\ paths = [a \in {LIB_ARCH, LIB32_ARCH} |-> <<>>]
  /\ bins = <<>> /\ devs = [written |-> 0, listed |-> 0]
-----------------------------------------------------------------------------
Config(o, l, l32) == [opts |-> o, libs |-> l, libs32 |-> l32, dris |-> NULL, ldconfig |-> NULL]
MCConfigs ==
  {Config(o, NULL, NULL) :
     o \in {<<>>, <<"supervised">>, <<"standalone", "compute">>, <<"supervised", "video", "compat32">>,
            <<"supervised", "standalone">>, <<"supervised", "bogus">>, <<"supervised", "compute", "no_cntlibs">>}}
    \cup {Config(<<"supervised">>, "given", NULL), Config(<<"supervised">>, "lib", NULL),
          [Config(<<"supervised">>, NULL, "given") EXCEPT !.dris = "given", !.ldconfig = "@/ldconfig"]}
HostRoot(deb, dirs, m, apt, rpm) ==
  [debian |-> deb, dirs |-> dirs, machine |-> m, apt |-> apt, rpm |-> rpm, ldconfig_real |-> apt,
   compat |-> IF rpm THEN <<>> ELSE <<"libcuda.1", "libptx.1", "libcuda.1">>]
MCRoots ==
  {HostRoot(TRUE, [lib |-> "lib"], "x86_64", TRUE, FALSE),
   HostRoot(FALSE, [lib |-> "lib", lib32 |-> "lib32"], "x86_64", TRUE, FALSE),
   HostRoot(FALSE, [lib |-> "lib", lib64 |-> "lib64"], "aarch64", TRUE, FALSE),
   HostRoot(FALSE, [lib |-> "lib", lib64 |-> "lib"], "x86_64", FALSE, TRUE),
   HostRoot(FALSE, [bin |-> "bin"], "x86_64", FALSE, FALSE)}
MountLine(r, t, s) == [root |-> r, mount |-> <<"sys", "devices">>, fstype |-> t, subsys |-> s]
MCMountInfos ==
  {<<MountLine(<<>>, "cgroup2", {"devices"}), MountLine(<<>>, "cgroup", {"cpu"}), MountLine(<<>>, "cgroup", {"devices"})>>,
   <<MountLine(<<"..">>, "cgroup", {"devices"}), MountLine(<<"docker", "c1">>, "cgroup", {"devices"})>>,
   <<MountLine(<<"docker">>, "cgroup", {"devices"}), MountLine(<<>>, "cgroup", {"devices"})>>,
   <<MountLine(<<>>, "cgroup", {"cpu"})>>}
CgroupLine(s, p) == [subsys |-> s, path |-> p]
MCCgroupFiles ==
  {<<CgroupLine({"cpu"}, <<"system">>), CgroupLine({"devices"}, <<"docker", "c1">>)>>,
   <<CgroupLine({"devices"}, <<"docker", "c10", "x">>)>>,
   <<CgroupLine({"devices"}, <<"..", "c1">>)>>,
   <<CgroupLine({"devices"}, <<"docker", "c1", "x">>)>>}
MCNameExtends == {<<"c1", "c10">>}

ContainerIdle ==
  /\ call = Config(<<>>, NULL, NULL) /\ around = <<>> /\ stage = "idle" /\ lib = 1 /\ why = NULL /\ allowed = {}
  /\ cnt = <<>>
-----------------------------------------------------------------------------
Adapter(w, s, c) == [wddm |-> w, store |-> s, components |-> c]
MCAdapterLists ==
  {<<>>, <<Adapter(2600, TRUE, {"lib"}), Adapter(2700, TRUE, {"lib"})>>,
   <<Adapter(2900, TRUE, {}), Adapter(2900, TRUE, {"lib"}), Adapter(2900, TRUE, {"lib"})>>,
   <<Adapter(2900, TRUE, {"lib"}), Adapter(2900, TRUE, {}), Adapter(2900, FALSE, {"lib"})>>,
   <<Adapter(2900, TRUE, {})>>}
MCIdMaps ==
  {<<"missing", "all", "allow">>, <<"part", "all", "allow">>, <<"all", "invalid", "allow">>,
   <<"all", "all", "deny">>, <<"all", "all", "allow">>, <<"all", "all", "missing">>, <<"empty", "all", "allow">>}
MinorLine(k, g, e) == [kind |-> k, gpu |-> g, exists |-> e]
MCMinorsFiles ==
  {<<>>, <<MinorLine("config", 0, TRUE), MinorLine("gi", 1, TRUE), MinorLine("ci", 0, TRUE)>>,
   <<MinorLine("gi", 0, FALSE), MinorLine("other", 0, TRUE), MinorLine("monitor", 0, TRUE)>>}

PlatformIdle ==
  /\ machine = [wsl |-> FALSE, adapters |-> <<>>, maps |-> <<"all", "all", "allow">>, minors |-> <<>>,
                matches |-> 0, load_kmods |-> FALSE, root |-> "/"]
  /\ inits = MaxInits /\ at = "idle" /\ ready = FALSE /\ config = NoConfig /\ dxcore = NoDxcore
  /\ adapter = 1 /\ stores = {} /\ freed = {} /\ child = "none" /\ line = 1 /\ nodes = {}

(* What does not matter on WSL, or without it, has one value. *)
PlatformStart ==
  /\ PlatformInit
  /\ IF machine.wsl THEN machine.minors = <<>> /\ machine.maps = <<"all", "all", "allow">> /\ machine.matches = 0
     ELSE machine.adapters = <<>>
-----------------------------------------------------------------------------
MCInit ==
  \/ CallsInit /\ PathIdle /\ DriverInfoIdle /\ ContainerIdle /\ PlatformIdle
  \/ CallsIdle /\ PathInit /\ DriverInfoIdle /\ ContainerIdle /\ PlatformIdle
  \/ CallsIdle /\ PathIdle /\ DriverInfoInit /\ ContainerIdle /\ PlatformIdle
  \/ CallsIdle /\ PathIdle /\ DriverInfoIdle /\ ContainerInit /\ PlatformIdle
  \/ CallsIdle /\ PathIdle /\ DriverInfoIdle /\ ContainerIdle /\ PlatformStart

MCNext ==
  \/ CallsNext /\ UNCHANGED <<pathvars, infovars, cntvars, platvars>>
  \/ do_path_resolve /\ UNCHANGED <<callvars, infovars, cntvars, platvars>>
  \/ nvc_driver_info_new /\ UNCHANGED <<callvars, pathvars, cntvars, platvars>>
  \/ ContainerNext /\ UNCHANGED <<callvars, pathvars, infovars, platvars>>
  \/ PlatformNext /\ UNCHANGED <<callvars, pathvars, infovars, cntvars>>

(* A call that can go on does: the client of a service that is silent      *)
(* waits for a time only, and nothing else waits.                          *)
MCSpec ==
  /\ MCInit /\ [][MCNext]_libvars
  /\ WF_libvars(do_path_resolve /\ UNCHANGED <<callvars, infovars, cntvars, platvars>>)
  /\ WF_libvars(ClientStep /\ UNCHANGED <<pathvars, infovars, cntvars, platvars>>)

(* Whatever links there are, path_resolve comes to an end; and each call   *)
(* of a service returns, answered or not, in time or late (call_rpc).      *)
CallsEnd == ResolutionEnds /\ OperationsReturn
=============================================================================
