----------------------------- MODULE DriverInfo -----------------------------
(***************************************************************************)
(* nvc_driver_info_new (nvc_info.c): the libraries of the driver are found *)
(* in the library cache of the host (ldcache.c), entry by entry and for    *)
(* two architectures, each opened to see that it is a library (elftool.c); *)
(* the binaries in the directories of PATH, or in the driver store on WSL; *)
(* the control devices are fixed.                                          *)
(***************************************************************************)
EXTENDS Integers, Sequences, FiniteSets, SequencesExt

CONSTANTS
  Libraries,     \* the names looked for, in order; some are named twice
  DxcoreLibs,    \* the names added on WSL
  Bins,          \* the binaries looked for
  Caches,        \* contents of the library cache: sequences of entries
  SearchPaths,   \* values of PATH: sequences of directories
  BinChoices,    \* where the binaries are: sets of <<directory, binary>>
  Stores         \* driver stores of the adapters: sequences of directories

(* An entry is for a library and an architecture; its path leads, through  *)
(* links, to a file in a directory, which may be gone or no library.       *)
ASSUME DriverInfoAssumption ==
  \A c \in Caches : \A i \in DOMAIN c : DOMAIN c[i] = {"key", "arch", "dir", "file", "opens"}

VARIABLES
  host,       \* the cache, the directories, PATH and whether this is WSL
  step,       \* "libs", "libs32", "bins", "devices", then "info" or "no info"
  entry,      \* position in the cache
  paths,      \* libs and libs32: slots, or what is left of them when packed
  bins,
  devs        \* nodes written and nodes listed

infovars == <<host, step, entry, paths, bins, devs>>

Free == <<>>
LIB_ARCH == "libs"
LIB32_ARCH == "libs32"

(* lookup_libraries: the lists one after the other. *)
Wanted == Libraries \o IF host.wsl THEN DxcoreLibs ELSE <<>>

Path(e) == <<e.dir, e.file>>

(* The file is opened; the library of the driver package is kept when the  *)
(* one of the distribution comes after it, otherwise the last one wins.    *)
select_libraries(orig, e) ==
  IF ~e.opens THEN "fail"
  ELSE IF orig # Free /\ orig[1] = "opt" /\ e.dir = "usr" THEN "skip"
  ELSE "override"

(* A library of the subsystem is kept, and nothing is opened. *)
select_wsl_libraries(orig, e) ==
  IF orig # Free /\ orig[1] = "wsl" THEN "skip" ELSE "override"

Select(orig, e) == IF host.wsl THEN select_wsl_libraries(orig, e) ELSE select_libraries(orig, e)

(* The slots an entry may take: those of its name which do not have the    *)
(* path already. The first of them is the one.                             *)
SlotsFor(e, slots) == {j \in DOMAIN slots : Wanted[j] = e.key /\ slots[j] # Path(e)}

FailInfo == step' = "no info" /\ paths' = [a \in {LIB_ARCH, LIB32_ARCH} |-> <<>>] /\ bins' = <<>>

(* path_resolve_full and ldcache_open: a cache that cannot be read or is   *)
(* of another format.                                                      *)
ldcache_open ==
  /\ step = "open"
  /\ \/ step' = LIB_ARCH /\ paths' = [a \in {LIB_ARCH, LIB32_ARCH} |-> [j \in DOMAIN Wanted |-> Free]]
        /\ UNCHANGED bins
     \/ FailInfo
  /\ UNCHANGED <<host, entry, devs>>

(* One entry of the cache. *)
\* variant: a library that cannot be opened is passed over
ldcache_resolve_Lenient ==
  /\ step \in {LIB_ARCH, LIB32_ARCH} /\ entry <= Len(host.cache)
  /\ LET e == host.cache[entry]
         S == SlotsFor(e, paths[step])
         j == CHOOSE k \in S : \A l \in S : k <= l IN
     /\ paths' = IF e.arch = step /\ S # {} /\ Select(paths[step][j], e) = "override"
                 THEN [paths EXCEPT ![step][j] = Path(e)] ELSE paths
     /\ entry' = entry + 1 /\ UNCHANGED <<step, bins>>
  /\ UNCHANGED <<host, devs>>

ldcache_resolve ==
  /\ step \in {LIB_ARCH, LIB32_ARCH} /\ entry <= Len(host.cache)
  /\ LET e == host.cache[entry]
         S == SlotsFor(e, paths[step])
         j == CHOOSE k \in S : \A l \in S : k <= l IN
     IF e.arch # step \/ S = {}
     THEN entry' = entry + 1 /\ UNCHANGED <<step, paths, bins>>
     ELSE CASE Select(paths[step][j], e) = "fail" -> FailInfo /\ UNCHANGED entry
            [] Select(paths[step][j], e) = "skip" -> entry' = entry + 1 /\ UNCHANGED <<step, paths, bins>>
            [] OTHER -> /\ paths' = [paths EXCEPT ![step][j] = Path(e)]
                        /\ entry' = entry + 1 /\ UNCHANGED <<step, bins>>
  /\ UNCHANGED <<host, devs>>

array_pack(s) == SelectSeq(s, LAMBDA p : p # Free)

CacheEnds ==
  /\ step \in {LIB_ARCH, LIB32_ARCH} /\ entry > Len(host.cache)
  /\ entry' = 1
  /\ IF step = LIB_ARCH THEN step' = LIB32_ARCH /\ UNCHANGED paths
     ELSE step' = "bins" /\ paths' = [a \in DOMAIN paths |-> array_pack(paths[a])]
  /\ UNCHANGED <<host, bins, devs>>

(* A binary of the driver store is taken from the last adapter that has    *)
(* it, any other from the first directory of PATH.                         *)
WhereIs(b) ==
  LET In(dirs) == SelectSeq(dirs, LAMBDA d : <<d, b>> \in host.bins)
      store == IF host.wsl THEN In(host.stores) ELSE <<>> IN
  IF store # <<>> THEN <<Last(store), b>>
  ELSE IF In(host.path) # <<>> THEN <<Head(In(host.path)), b>> ELSE Free

(* Without PATH it fails. *)
find_binary_paths ==
  /\ step = "bins"
  /\ \/ /\ bins' = array_pack([i \in DOMAIN Bins |-> WhereIs(Bins[i])])
        /\ step' = "devices" /\ UNCHANGED paths
     \/ FailInfo
  /\ UNCHANGED <<host, entry, devs>>

(* On WSL the one node is written and none is listed. *)
lookup_devices ==
  /\ step = "devices"
  /\ \/ step' = "info" /\ devs' = [written |-> 1, listed |-> IF host.wsl THEN 0 ELSE 1]
        /\ UNCHANGED <<paths, bins>>
     \/ FailInfo /\ UNCHANGED devs
  /\ UNCHANGED <<host, entry>>

DriverInfoInit ==
  /\ host \in [cache : Caches, path : SearchPaths, bins : BinChoices, stores : Stores, wsl : BOOLEAN]
  /\ step = "open" /\ entry = 1
  /\ paths = [a \in {LIB_ARCH, LIB32_ARCH} |-> <<>>]
  /\ bins = <<>> /\ devs = [written |-> 0, listed |-> 0]

nvc_driver_info_new ==
  ldcache_open \/ ldcache_resolve \/ CacheEnds \/ find_binary_paths \/ lookup_devices

DriverInfoSpec == DriverInfoInit /\ [][nvc_driver_info_new]_infovars
-----------------------------------------------------------------------------
Candidates(n, a) == {i \in DOMAIN host.cache : host.cache[i].key = n /\ host.cache[i].arch = a}
Times(n) == Cardinality({j \in DOMAIN Wanted : Wanted[j] = n})

(* The libraries of one architecture: every file is in the cache under a   *)
(* name that was asked for and, without WSL, was there when the cache was  *)
(* read; every name the cache has is reported; a name gets as many files   *)
(* as it is listed times, at most, and the file of the driver package if   *)
(* it is listed once and the other is that of the distribution.            *)
LibrariesMatch(a) ==
  \A n \in ToSet(Wanted) :
    LET files == {Path(host.cache[i]) : i \in Candidates(n, a)}
        taken == {j \in DOMAIN paths[a] : paths[a][j] \in files} IN
    /\ files # {} => taken # {}
    /\ Cardinality(taken) <= Times(n)
    /\ ~host.wsl /\ Times(n) = 1 /\ {p[1] : p \in files} = {"opt", "usr"} =>
         \A j \in taken : paths[a][j][1] = "opt"

(* nvc_driver_info_new reports the libraries of the cache as they are on   *)
(* the host, although the cache may be out of date and names the same file *)
(* several times; the binary a shell would run with the same PATH, or that *)
(* of the driver store; and the nodes it wrote, except on WSL.             *)
InfoMatchesHost ==
  step = "info" =>
    /\ \A a \in {LIB_ARCH, LIB32_ARCH} :
         /\ LibrariesMatch(a)
         /\ \A j \in DOMAIN paths[a] :
              \E n \in ToSet(Wanted) : \E i \in Candidates(n, a) :
                 Path(host.cache[i]) = paths[a][j] /\ (host.wsl \/ host.cache[i].opens)
    /\ \A i \in DOMAIN bins :
         LET d == bins[i][1] IN
         \/ host.wsl /\ Contains(host.stores, d)
         \/ \E k \in DOMAIN host.path :
              host.path[k] = d /\ \A l \in 1 .. k - 1 : <<host.path[l], bins[i][2]>> \notin host.bins
    /\ devs.listed = devs.written \/ host.wsl
=============================================================================
