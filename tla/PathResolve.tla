---------------------------- MODULE PathResolve -----------------------------
(***************************************************************************)
(* Resolution of a path below a directory that is not trusted to keep its  *)
(* links inside (path_resolve and path_resolve_full, utils.c): component   *)
(* by component, with a descriptor for what has been reached. Components   *)
(* that do not exist are allowed, since the caller creates them later. The *)
(* tree is not changed meanwhile.                                          *)
(***************************************************************************)
EXTENDS Integers, Sequences, SequencesExt

CONSTANTS
  Names,          \* names of files
  RootDir,        \* the root of the resolution, as a path of the host
  Trees,          \* file systems: nodes by path of the host
  Paths,          \* paths to resolve: sequences of components
  MAXSYMLINKS,
  PATH_MAX        \* in components

ASSUME PathAssumption ==
  /\ MAXSYMLINKS \in Nat \ {0} /\ PATH_MAX \in Nat
  /\ \A t \in Trees : RootDir \in DOMAIN t /\ t[RootDir].kind = "dir"

VARIABLES
  tree,
  path,
  ptr,         \* components left
  realpath,    \* components resolved
  fd,          \* what the descriptor refers to, as a path of the host
  noents,      \* components at the end of realpath that do not exist
  nlinks,
  fds,         \* descriptors open
  resolved     \* "" while it runs, "ok", or why it failed

pathvars == <<tree, path, ptr, realpath, fd, noents, nlinks, fds, resolved>>

Components == Names \cup {".", ".."}

Kind(t, p) == IF p \in DOMAIN t THEN t[p].kind ELSE "none"

Running == resolved = "" /\ ptr # <<>>
File == Head(ptr)

PathFails(why) ==
  /\ resolved' = why /\ fds' = 0
  /\ UNCHANGED <<ptr, realpath, fd, noents, nlinks>>

(* open_next: the descriptor of the directory is closed once the next one  *)
(* is open. If it cannot be opened, -1 is what the error path closes.      *)
NotOpened ==
  /\ resolved' = "notdir" /\ fds' = fds
  /\ UNCHANGED <<ptr, realpath, fd, noents, nlinks>>

Skip_ ==
  /\ Running /\ File = "."
  /\ ptr' = Tail(ptr)
  /\ UNCHANGED <<tree, path, realpath, fd, noents, nlinks, fds, resolved>>

\* variant: the descriptor is moved below missing components, too
Up_Descriptor ==
  /\ Running /\ File = ".."
  /\ IF realpath = <<>> THEN PathFails("outside")
     ELSE /\ ptr' = Tail(ptr) /\ realpath' = Front(realpath)
          /\ noents' = IF noents > 0 THEN noents - 1 ELSE 0
          /\ fd' = IF fd = <<>> THEN fd ELSE Front(fd)
          /\ UNCHANGED <<nlinks, fds, resolved>>
  /\ UNCHANGED <<tree, path>>

Up ==
  /\ Running /\ File = ".."
  /\ IF realpath = <<>> THEN PathFails("outside")
     ELSE IF noents = 0 /\ Kind(tree, fd) # "dir" THEN NotOpened
     ELSE /\ ptr' = Tail(ptr) /\ realpath' = Front(realpath)
          /\ IF noents > 0 THEN noents' = noents - 1 /\ UNCHANGED fd
             ELSE fd' = Front(fd) /\ UNCHANGED noents
          /\ UNCHANGED <<nlinks, fds, resolved>>
  /\ UNCHANGED <<tree, path>>

Named == Running /\ File \notin {".", ".."}
Node == Append(fd, File)

Missing ==
  /\ Named
  /\ \/ noents > 0
     \/ nlinks < MAXSYMLINKS /\ Kind(tree, fd) = "dir" /\ Kind(tree, Node) = "none"
  /\ IF Len(realpath) + 1 > PATH_MAX THEN PathFails("toolong")
     ELSE /\ ptr' = Tail(ptr) /\ realpath' = Append(realpath, File) /\ noents' = noents + 1
          /\ UNCHANGED <<fd, nlinks, fds, resolved>>
  /\ UNCHANGED <<tree, path>>

\* variant: links are not counted
Follow_Uncounted ==
  /\ Named /\ noents = 0 /\ nlinks < MAXSYMLINKS
  /\ Kind(tree, fd) = "dir" /\ Kind(tree, Node) = "link"
  /\ LET l == tree[Node] IN
     IF Len(l.to) + Len(ptr) - 1 > PATH_MAX THEN PathFails("toolong")
     ELSE /\ ptr' = l.to \o Tail(ptr)
          /\ fd' = IF l.abs THEN RootDir ELSE fd
          /\ realpath' = IF l.abs THEN <<>> ELSE realpath
          /\ UNCHANGED <<noents, nlinks, fds, resolved>>
  /\ UNCHANGED <<tree, path>>

(* The link takes the place of the component. *)
Follow ==
  /\ Named /\ noents = 0 /\ nlinks < MAXSYMLINKS
  /\ Kind(tree, fd) = "dir" /\ Kind(tree, Node) = "link"
  /\ LET l == tree[Node] IN
     IF Len(l.to) + Len(ptr) - 1 > PATH_MAX THEN PathFails("toolong")
     ELSE /\ ptr' = l.to \o Tail(ptr) /\ nlinks' = nlinks + 1
          /\ fd' = IF l.abs THEN RootDir ELSE fd
          /\ realpath' = IF l.abs THEN <<>> ELSE realpath
          /\ UNCHANGED <<noents, fds, resolved>>
  /\ UNCHANGED <<tree, path>>

Enter ==
  /\ Named /\ noents = 0 /\ nlinks < MAXSYMLINKS
  /\ Kind(tree, fd) = "dir" /\ Kind(tree, Node) \in {"dir", "file"}
  /\ IF Len(realpath) + 1 > PATH_MAX THEN PathFails("toolong")
     ELSE /\ ptr' = Tail(ptr) /\ fd' = Node /\ realpath' = Append(realpath, File)
          /\ UNCHANGED <<noents, nlinks, fds, resolved>>
  /\ UNCHANGED <<tree, path>>

(* A file is no directory; and after MAXSYMLINKS links every component is  *)
(* one too many, whether or not it is a link.                              *)
Refuse ==
  /\ Named /\ noents = 0
  /\ \/ nlinks >= MAXSYMLINKS /\ PathFails("loop")
     \/ nlinks < MAXSYMLINKS /\ Kind(tree, fd) # "dir" /\ PathFails("notdir")
  /\ UNCHANGED <<tree, path>>

Resolved ==
  /\ resolved = "" /\ ptr = <<>>
  /\ resolved' = "ok" /\ fds' = 0
  /\ UNCHANGED <<tree, path, ptr, realpath, fd, noents, nlinks>>

PathInit ==
  /\ tree \in Trees /\ path \in Paths /\ ptr = path
  /\ realpath = <<>> /\ fd = RootDir /\ noents = 0 /\ nlinks = 0 /\ fds = 1 /\ resolved = ""

do_path_resolve == Skip_ \/ Up \/ Missing \/ Follow \/ Enter \/ Refuse \/ Resolved

PathSpec == PathInit /\ [][do_path_resolve]_pathvars /\ WF_pathvars(do_path_resolve)
-----------------------------------------------------------------------------
(* Reference: the resolution of the kernel in a process whose root         *)
(* directory is RootDir, with at most n links; strict if ".." in the root  *)
(* directory is an error.                                                  *)
Nowhere == <<"nowhere">>

Walk[strict \in BOOLEAN, n \in Nat, at \in Seq(Names), rest \in Seq(Components)] ==
  IF rest = <<>> THEN at
  ELSE IF Kind(tree, at) # "dir" THEN Nowhere
  ELSE LET c == Head(rest)
           k == Kind(tree, Append(at, c)) IN
  CASE c = "." -> Walk[strict, n, at, Tail(rest)]
    [] c = ".." -> IF at # RootDir THEN Walk[strict, n, Front(at), Tail(rest)]
                   ELSE IF strict THEN Nowhere ELSE Walk[strict, n, at, Tail(rest)]
    [] k = "none" -> Nowhere
    [] k = "link" -> IF n = 0 THEN Nowhere
                     ELSE LET l == tree[Append(at, c)] IN
                          Walk[strict, n - 1, IF l.abs THEN RootDir ELSE at, l.to \o Tail(rest)]
    [] OTHER -> Walk[strict, n, Append(at, c), Tail(rest)]

(* Where the kernel, confined to the root, finds a file, path_resolve      *)
(* names that file; what it returns has no links left in it, whether or    *)
(* not it exists; and it refuses nothing the kernel finds without leaving  *)
(* the root and with fewer than MAXSYMLINKS links. Meanwhile the           *)
(* descriptor is that of the existing part of the resolved path: it never  *)
(* leaves the root. One is open then and none after a success; a component *)
(* that cannot be opened leaves one behind.                                *)
ResolvesAsChroot ==
  /\ resolved = "" => fd = RootDir \o SubSeq(realpath, 1, Len(realpath) - noents) /\ fds = 1
  /\ resolved # "" => fds = 0 \/ (fds = 1 /\ resolved = "notdir")
  /\ resolved = "ok" =>
       /\ LET w == Walk[FALSE, MAXSYMLINKS, RootDir, path] IN
          w # Nowhere => RootDir \o realpath = w
       /\ \A i \in 1 .. Len(realpath) : Kind(tree, RootDir \o SubSeq(realpath, 1, i)) # "link"
  /\ resolved \in {"outside", "loop", "notdir"} =>
       Walk[TRUE, MAXSYMLINKS - 1, RootDir, path] = Nowhere

(* Whatever links there are, the resolution comes to an end. *)
ResolutionEnds == (resolved = "") ~> (resolved # "")
=============================================================================
