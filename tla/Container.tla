------------------------------ MODULE Container ------------------------------
(***************************************************************************)
(* nvc_container_new (nvc_container.c): the options are parsed             *)
(* (options.c), the directories of the container are chosen by what its    *)
(* root holds and by the host, its owner, compatibility libraries and      *)
(* namespace are looked up, and its device cgroup is found by the build    *)
(* without nvcgo (cgroup_legacy.c), which then allows devices in it.       *)
(***************************************************************************)
EXTENDS Integers, Sequences, FiniteSets, Functions

CONSTANTS
  Configs,       \* arguments of the call: options and directories
  Roots,         \* what the root of the container and the host look like
  MountInfos,    \* contents of mountinfo, as the reading process has it
  CgroupFiles,   \* contents of the cgroup file of the container
  NameExtends,   \* <<a, b>>: the name b begins with the name a
  Nodes          \* device nodes to allow

ASSUME ContainerAssumption ==
  /\ \A c \in Configs : DOMAIN c = {"opts", "libs", "libs32", "dris", "ldconfig"}
  /\ \A r \in Roots : r.compat \in Seq(STRING)
  /\ \A f \in CgroupFiles : f \in Seq([subsys : SUBSET STRING, path : Seq(STRING)])
  /\ \A m \in MountInfos : \A i \in DOMAIN m : DOMAIN m[i] = {"root", "mount", "fstype", "subsys"}

NULL == "null"

VARIABLES
  call,      \* the arguments
  around,    \* root, host, mountinfo and cgroup file
  stage,     \* how far the call is; "container" or "no container" at the end
  cnt,       \* the container: flags, directories, cgroup
  lib,       \* index of the loop of find_library_paths
  why,       \* the error of the context
  allowed    \* <<cgroup, node>>: lines appended to devices.allow

cntvars == <<call, around, stage, cnt, lib, why, allowed>>

container_opts ==
  [ supervised |-> {"SUPERVISED"}, standalone |-> {"STANDALONE"},
    no_cgroups |-> {"NO_CGROUPS"}, no_devbind |-> {"NO_DEVBIND"}, no_cntlibs |-> {"NO_CNTLIBS"},
    utility |-> {"UTILITY_BINS", "UTILITY_LIBS"}, compute |-> {"COMPUTE_BINS", "COMPUTE_LIBS"},
    video |-> {"VIDEO_LIBS", "COMPUTE_LIBS"}, graphics |-> {"GRAPHICS_LIBS"},
    display |-> {"DISPLAY", "GRAPHICS_LIBS"}, ngx |-> {"NGX_LIBS"}, compat32 |-> {"COMPAT32"} ]

default_container_opts == <<"standalone", "no_cgroups", "no_devbind", "utility">>

Invalid == {"invalid"}

options_parse(str, opts) ==
  IF \E i \in DOMAIN str : str[i] \notin DOMAIN opts THEN Invalid
  ELSE UNION {opts[str[i]] : i \in DOMAIN str}

Has(f) == f \in cnt.flags

NoContainer(e) == stage' = "no container" /\ why' = e /\ UNCHANGED cnt

(* The arguments, the options, and exactly one of the two modes. *)
nvc_container_new ==
  /\ stage = "call"
  /\ LET flags == options_parse(IF call.opts = <<>> THEN default_container_opts ELSE call.opts, container_opts) IN
     IF flags = Invalid THEN NoContainer("invalid option")
     ELSE IF ("SUPERVISED" \in flags) = ("STANDALONE" \in flags) THEN NoContainer("invalid mode")
     ELSE stage' = "config" /\ cnt' = [cnt EXCEPT !.flags = flags] /\ UNCHANGED why
  /\ UNCHANGED <<call, around, lib, allowed>>

(* Debian and its derivatives use a multiarch scheme; elsewhere the        *)
(* directory of 32-bit libraries is the first of two that exists, and the  *)
(* second is not taken when it is the directory of 64-bit libraries.       *)
LibDirs(r) ==
  LET libs == IF call.libs # NULL THEN call.libs ELSE IF r.debian THEN "lib/multiarch" ELSE "lib64"
      Resolved(d) == IF d \in DOMAIN r.dirs THEN r.dirs[d] ELSE d
      libs32 == IF call.libs32 # NULL THEN call.libs32
                ELSE IF r.debian THEN "lib32/multiarch"
                ELSE IF /\ "lib32" \notin DOMAIN r.dirs
                        /\ "lib" \in DOMAIN r.dirs /\ Resolved("lib") # Resolved(libs)
                THEN "lib" ELSE "lib32" IN
  <<libs, libs32>>

(* By the machine and the package manager of the host. *)
DriDir(r) ==
  CASE call.dris # NULL -> call.dris
    [] call.dris = NULL /\ r.machine = "x86_64" /\ r.apt -> "dri/x86/deb"
    [] call.dris = NULL /\ r.machine = "aarch64" /\ r.apt -> "dri/arm/deb"
    [] call.dris = NULL /\ r.machine = "x86_64" /\ ~r.apt /\ r.rpm -> "dri/x86/rpm"
    [] OTHER -> NULL

(* On a host that is not known the call fails and leaves no error. *)
copy_config ==
  /\ stage = "config"
  /\ LET r == around.root
         dirs == LibDirs(r) IN
     \/ /\ DriDir(r) # NULL
        /\ cnt' = [cnt EXCEPT !.libs = dirs[1], !.libs32 = dirs[2], !.dris = DriDir(r),
                     !.ldconfig = IF call.ldconfig # NULL THEN call.ldconfig
                                  ELSE IF r.ldconfig_real THEN "ldconfig.real" ELSE "ldconfig"]
        /\ stage' = "owner" /\ UNCHANGED why
     \/ DriDir(r) = NULL /\ NoContainer(why)
     \/ NoContainer("io")
  /\ UNCHANGED <<call, around, lib, allowed>>

(* The owner of the process of the container; the process may be gone. *)
lookup_owner ==
  /\ stage = "owner"
  /\ \/ stage' = "libs" /\ UNCHANGED <<cnt, why>>
     \/ NoContainer("no process")
  /\ UNCHANGED <<call, around, lib, allowed>>

(* The compatibility libraries in the root are looked for unless the       *)
(* options say no; the directory may not be readable.                      *)
find_library_paths ==
  /\ stage = "libs" /\ lib' = 1
  /\ LET wanted == ~Has("NO_CNTLIBS") /\ Has("COMPUTE_LIBS") IN
     \/ stage' = (IF wanted THEN "paths" ELSE "namespace") /\ UNCHANGED <<cnt, why>>
     \/ wanted /\ NoContainer("io")
  /\ UNCHANGED <<call, around, allowed>>

\* variant: compared with the last one only
str_array_match_Adjacent(p, libs) == libs # <<>> /\ libs[Len(libs)] = p

str_array_match(p, libs) == p \in Range(libs)

(* One turn of its loop: each file is taken once whatever the links that   *)
(* lead to it, in the order of the links; a link may not resolve.          *)
SelectLibrary ==
  /\ stage = "paths" /\ lib <= Len(around.root.compat) /\ lib' = lib + 1
  /\ LET p == around.root.compat[lib] IN
     \/ /\ cnt' = IF str_array_match(p, cnt.compat) THEN cnt ELSE [cnt EXCEPT !.compat = Append(@, p)]
        /\ UNCHANGED <<stage, why>>
     \/ NoContainer("io")
  /\ UNCHANGED <<call, around, allowed>>

LibrariesSelected ==
  /\ stage = "paths" /\ lib > Len(around.root.compat) /\ stage' = "namespace"
  /\ UNCHANGED <<call, around, cnt, lib, why, allowed>>

(* In the proc of the root in the standalone mode, of the host otherwise. *)
find_namespace_path ==
  /\ stage = "namespace" /\ stage' = "cgroup"
  /\ cnt' = [cnt EXCEPT !.mnt_ns = IF Has("STANDALONE") THEN "proc of root" ELSE "proc of host"]
  /\ UNCHANGED <<call, around, lib, why, allowed>>
-----------------------------------------------------------------------------
(* cgroup_legacy.c. A path is a sequence of names. The prefix is compared  *)
(* as text: the last name may be cut short, and what is left of the path   *)
(* is then glued to the mount point.                                       *)
Begins(p, prefix) == Len(prefix) <= Len(p) /\ SubSeq(p, 1, Len(prefix)) = prefix

Outside(p) == p # <<>> /\ Head(p) = ".."

HasPrefixText(p, prefix) ==
  \/ Begins(p, prefix)
  \/ LET n == Len(prefix) IN
     n \in 1 .. Len(p) /\ Begins(p, SubSeq(prefix, 1, n - 1)) /\ <<prefix[n], p[n]>> \in NameExtends

Glued(p, prefix) == <<"glued">> \o SubSeq(p, Len(prefix), Len(p))

(* The first of the lines whose fields fit, or none. *)
parse_proc_file(fits) == IF fits = {} THEN 0 ELSE CHOOSE i \in fits : \A j \in fits : i <= j

cgroup_mount(lines) ==
  {i \in DOMAIN lines :
     lines[i].fstype = "cgroup" /\ "devices" \in lines[i].subsys /\ ~Outside(lines[i].root)}

cgroup_root(lines) == {i \in DOMAIN lines : "devices" \in lines[i].subsys /\ ~Outside(lines[i].path)}

\* variant: the prefix is not taken off
Stripped_Never(p, prefix) == p

Stripped(p, prefix) ==
  IF prefix # <<>> /\ HasPrefixText(p, prefix)
  THEN IF Begins(p, prefix) THEN SubSeq(p, Len(prefix) + 1, Len(p)) ELSE Glued(p, prefix)
  ELSE p

(* The mounts are those of the container in the standalone mode and those  *)
(* of the parent otherwise; the cgroup is that of the container.           *)
find_device_cgroup_path ==
  /\ stage = "cgroup"
  /\ LET mounts == IF Has("STANDALONE") THEN around.mounts.container ELSE around.mounts.parent
         m == parse_proc_file(cgroup_mount(mounts))
         c == parse_proc_file(cgroup_root(around.cgroups)) IN
     IF Has("NO_CGROUPS") THEN stage' = "container" /\ UNCHANGED <<cnt, why>>
     ELSE IF m = 0 \/ c = 0 THEN NoContainer("cgroup subsystem not found")
     ELSE /\ cnt' = [cnt EXCEPT !.dev_cg = mounts[m].mount \o Stripped(around.cgroups[c].path, mounts[m].root)]
          /\ stage' = "container" /\ UNCHANGED why
  /\ UNCHANGED <<call, around, lib, allowed>>

(* A line is appended to devices.allow of the cgroup; or the file cannot   *)
(* be opened or written.                                                   *)
setup_device_cgroup(n) ==
  /\ stage = "container" /\ ~Has("NO_CGROUPS")
  /\ \/ allowed' = allowed \cup {<<cnt.dev_cg, n>>} /\ UNCHANGED why
     \/ why' = "io" /\ UNCHANGED allowed
  /\ UNCHANGED <<call, around, stage, cnt, lib>>

ContainerInit ==
  /\ call \in Configs
  /\ around \in [root : Roots, cgroups : CgroupFiles, mounts : [container : MountInfos, parent : MountInfos]]
  /\ stage = "call" /\ lib = 1 /\ why = NULL /\ allowed = {}
  /\ cnt = [flags |-> {}, libs |-> NULL, libs32 |-> NULL, dris |-> NULL, ldconfig |-> NULL,
            compat |-> <<>>, mnt_ns |-> NULL, dev_cg |-> <<>>]

ContainerNext ==
  \/ nvc_container_new \/ copy_config \/ lookup_owner
  \/ find_library_paths \/ SelectLibrary \/ LibrariesSelected
  \/ find_namespace_path \/ find_device_cgroup_path
  \/ \E n \in Nodes : setup_device_cgroup(n)

ContainerSpec == ContainerInit /\ [][ContainerNext]_cntvars
-----------------------------------------------------------------------------
(* The mount of the device controller used by the call, and the cgroup of  *)
(* the container.                                                          *)
Mounts == IF Has("STANDALONE") THEN around.mounts.container ELSE around.mounts.parent
FirstMount == Mounts[parse_proc_file(cgroup_mount(Mounts))]
OwnCgroup == around.cgroups[parse_proc_file(cgroup_root(around.cgroups))].path

(* A device is allowed in the cgroup of the container and in no other, if  *)
(* the mount shows that cgroup at all: find_device_cgroup_path combines    *)
(* two files of two processes.                                             *)
AllowsInOwnCgroup ==
  \A a \in allowed :
    Begins(OwnCgroup, FirstMount.root) =>
      a[1] = FirstMount.mount \o SubSeq(OwnCgroup, Len(FirstMount.root) + 1, Len(OwnCgroup))

(* A container has its directories, and each compatibility library once,   *)
(* as nvc_mount would otherwise mount it twice; the directories found for  *)
(* libraries of the two architectures differ, unless the root has one for  *)
(* both under the first name; and a call that fails leaves an error,       *)
(* unless the host is not one that copy_config knows.                      *)
ContainerIsUsable ==
  /\ stage = "container" =>
       /\ NULL \notin {cnt.libs, cnt.libs32, cnt.dris, cnt.ldconfig, cnt.mnt_ns}
       /\ IsInjective(cnt.compat) /\ Range(cnt.compat) \subseteq Range(around.root.compat)
       /\ call.libs32 = NULL /\ ~around.root.debian /\ cnt.libs32 # "lib32" =>
            around.root.dirs["lib"] # IF cnt.libs \in DOMAIN around.root.dirs THEN around.root.dirs[cnt.libs] ELSE cnt.libs
  /\ stage = "no container" => why # NULL \/ DriDir(around.root) = NULL
=============================================================================
