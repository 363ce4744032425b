--------------------------- MODULE NvcMountProofs ---------------------------
(***************************************************************************)
(* Theorems about the mounts of a container, for any files, devices,       *)
(* options and number of calls: the inductive invariant of NvcMountSteps   *)
(* and what follows from it.                                               *)
(***************************************************************************)
EXTENDS NvcMountSteps, FiniteSetTheorems

-----------------------------------------------------------------------------
(* The laws of counting. *)
LEMMA PlacesFinite ==
  ASSUME NEW S, NEW s \in Seq(S), NEW p
  PROVE  IsFiniteSet(Places(s, p)) /\ Cardinality(Places(s, p)) \in Nat
<1>1. IsFiniteSet(1..Len(s))
  BY FS_Interval
<1>2. Places(s, p) \in SUBSET (1..Len(s))
  BY DEF Places
<1> QED
  BY <1>1, <1>2, FS_Subset, FS_CardinalityType

LEMMA AppendPlaces ==
  ASSUME NEW S, NEW s \in Seq(S), NEW x \in S, NEW p
  PROVE  Cardinality(Places(Append(s, x), p)) = Cardinality(Places(s, p)) + One(x, p)
<1>1. CASE x = p
  <2>1. Places(Append(s, x), p) = Places(s, p) \cup {Len(s) + 1}
    BY <1>1 DEF Places
  <2>2. Len(s) + 1 \notin Places(s, p)
    BY DEF Places
  <2> QED
    BY Zenon, <1>1, <2>1, <2>2, PlacesFinite, FS_AddElement DEF One
<1>2. CASE x # p
  <2>1. Places(Append(s, x), p) = Places(s, p)
    BY <1>2 DEF Places
  <2> QED
    BY <1>2, <2>1, PlacesFinite DEF One
<1> QED
  BY <1>1, <1>2

LEMMA ConcatPlaces ==
  ASSUME NEW S, NEW s \in Seq(S), NEW t \in Seq(S), NEW p
  PROVE  Cardinality(Places(s \o t, p)) = Cardinality(Places(s, p)) + Cardinality(Places(t, p))
<1> DEFINE A == Places(s, p)
           B == {i \in (Len(s) + 1)..(Len(s) + Len(t)) : t[i - Len(s)] = p}
           f == [i \in Places(t, p) |-> i + Len(s)]
<1>1. Places(s \o t, p) = A \cup B
  BY DEF Places
<1>2. A \cap B = {}
  BY DEF Places
<1>3. f \in Bijection(Places(t, p), B)
  <2>1. f \in [Places(t, p) -> B]
    BY DEF Places
  <2>2. \A i, j \in Places(t, p) : f[i] = f[j] => i = j
    BY DEF Places
  <2>3. \A k \in B : \E i \in Places(t, p) : f[i] = k
    <3> TAKE k \in B
    <3>1. k - Len(s) \in Places(t, p)
      BY DEF Places
    <3>2. f[k - Len(s)] = k
      BY <3>1
    <3> QED
      BY <3>1, <3>2
  <2> HIDE DEF f, B
  <2> QED
    BY <2>1, <2>2, <2>3 DEF Bijection, Injection, Surjection, IsInjective
<1>4. ExistsBijection(Places(t, p), B)
  BY <1>3 DEF ExistsBijection
<1>5. IsFiniteSet(A) /\ IsFiniteSet(B) /\ Cardinality(B) = Cardinality(Places(t, p))
  BY <1>4, PlacesFinite, FS_Bijection
<1> HIDE DEF A, B
<1>6. Cardinality(A \cup B) = Cardinality(A) + Cardinality(B) - Cardinality(A \cap B)
  BY <1>5, FS_Union
<1>7. Cardinality(A \cap B) = 0
  BY Zenon, <1>2, FS_EmptySet
<1>8. Cardinality(A) \in Nat /\ Cardinality(B) \in Nat
  BY <1>5, FS_CardinalityType
<1>9. Cardinality(A \cup B) = Cardinality(A) + Cardinality(B)
  BY <1>6, <1>7, <1>8
<1> QED
  BY <1>1, <1>5, <1>9 DEF A

(* The laws that the steps rely on.                                        *)
LEMMA CountLawsHold == CountLaws
<1> SUFFICES ASSUME NEW p
             PROVE  /\ Cardinality(Places(<<>>, p)) = 0
                    /\ \A s \in Seq(MountPaths) :
                         /\ Cardinality(Places(s, p)) \in Nat
                         /\ \A x \in MountPaths :
                              Cardinality(Places(Append(s, x), p)) = Cardinality(Places(s, p)) + One(x, p)
                         /\ \A t \in Seq(MountPaths) :
                              Cardinality(Places(s \o t, p)) = Cardinality(Places(s, p)) + Cardinality(Places(t, p))
  BY Zenon DEF CountLaws
<1>1. Places(<<>>, p) = {}
  BY DEF Places
<1> QED
  BY <1>1, FS_EmptySet, PlacesFinite, AppendPlaces, ConcatPlaces
-----------------------------------------------------------------------------
(* The inductive invariant: heights, records and plans belong together     *)
(* through every entry point, operation, failure, crash and rollback.      *)
THEOREM MountInvariant == MountSpec => []MountInv
<1>1. MountInit => MountInv
  BY InitMountInv
<1>2. MountInv /\ [MountNext]_vars => MountInv'
  BY CountLawsHold, MountStep
<1> QED
  BY <1>1, <1>2, PTL DEF MountSpec

-----------------------------------------------------------------------------
(* What the invariant says of the mounts of this call and of earlier ones. *)
LEMMA MineInterval ==
  ASSUME MountInv, NEW p \in MountPaths
  PROVE  /\ Mine(p) = (Found(p) + 1)..Height(p)
         /\ \A i \in 1..Found(p) : i <= Height(p) => i \in Earlier(p) /\ mounts[p][i] = call.before[p][i]
<1>1. Found(p) \in Nat /\ Height(p) \in Nat /\ ncalls \in Nat /\ Height(p) = Len(mounts[p])
  BY CountLawsHold, Numbers DEF MountInv, TypeInv, Height
<1>2. ASSUME NEW i \in 1..Height(p), i <= Found(p)
      PROVE  /\ mounts[p][i].by # ncalls /\ mounts[p][i].by < ncalls
             /\ mounts[p][i] = call.before[p][i]
  <2>1. mounts[p][i] = call.before[p][i] /\ i \in 1..Found(p)
    BY <1>1, <1>2 DEF MountInv, StackInv, Shape
  <2>2. mounts[p][i].by < ncalls
    BY <2>1 DEF MountInv, StackInv
  <2>3. mounts[p][i] \in Mount
    BY <1>1 DEF MountInv, TypeInv
  <2>4. mounts[p][i].by \in Nat
    BY <2>3 DEF Mount
  <2> QED
    BY <1>1, <2>1, <2>2, <2>4
<1>3. ASSUME NEW i \in 1..Height(p), ~(i <= Found(p))
      PROVE  mounts[p][i].by = ncalls
  BY <1>1, <1>3 DEF MountInv, StackInv, Shape
<1>4. Mine(p) = (Found(p) + 1)..Height(p)
  <2>1. ASSUME NEW i \in Mine(p)
        PROVE  i \in (Found(p) + 1)..Height(p)
    BY <1>1, <1>2, <2>1 DEF Mine
  <2>2. ASSUME NEW i \in (Found(p) + 1)..Height(p)
        PROVE  i \in Mine(p)
    <3>1. i \in 1..Height(p) /\ ~(i <= Found(p))
      BY <1>1
    <3> QED
      BY <1>1, <1>3, <3>1 DEF Mine
  <2> QED
    BY Zenon, <2>1, <2>2
<1>5. ASSUME NEW i \in 1..Found(p), i <= Height(p)
      PROVE  i \in Earlier(p) /\ mounts[p][i] = call.before[p][i]
  <2>1. i \in 1..Height(p) /\ i <= Found(p)
    BY <1>1, <1>5
  <2> QED
    BY <1>1, <1>2, <2>1 DEF Earlier
<1> QED
  BY <1>4, <1>5

(* Between two calls nothing is recorded.                                  *)
LEMMA IdleCounts ==
  ASSUME MountInv, Idle, NEW p \in MountPaths
  PROVE  Count(p) = 0
<1>1. Cardinality(Places(<<>>, p)) = 0
  BY CountLawsHold, PlacesNone
<1> QED
  BY <1>1 DEF MountInv, PlanInv, Count, CountOf

LEMMA AtMostOne ==
  ASSUME NEW S, NEW x, S \subseteq {x}
  PROVE  Cardinality(S) <= 1
<1>1. IsFiniteSet({x}) /\ Cardinality({x}) = 1
  BY Zenon, FS_Singleton
<1>2. Cardinality(S) <= Cardinality({x})
  BY <1>1, FS_Subset
<1> QED
  BY <1>1, <1>2

LEMMA MountInvRecords == MountInv => RecordsAreMounted
<1> SUFFICES ASSUME MountInv, Running, NEW p \in MountPaths
             PROVE  /\ Cardinality(Records(p)) <= Cardinality(Mine(p))
                    /\ p \notin Unrecorded => Cardinality(Records(p)) = Cardinality(Mine(p))
                    /\ \A i \in Mine(p) : mounts[p][i].flags
  BY DEF RecordsAreMounted, Running
<1>1. Cardinality(Records(p)) = Count(p)
  BY CountLawsHold, RecordedPlaces DEF Records, Places
<1>2. Mine(p) = (Found(p) + 1)..Height(p)
  BY MineInterval
<1>3. Found(p) \in Nat /\ Height(p) \in Nat /\ Count(p) \in Nat
  BY CountLawsHold, Numbers DEF MountInv
<1>4. /\ Found(p) <= Height(p) /\ Found(p) + Count(p) <= Height(p)
      /\ p \notin Unrecorded => Found(p) + Count(p) = Height(p)
      /\ \A i \in (Found(p) + 1)..Height(p) : mounts[p][i].flags
  BY DEF MountInv, RunningInv, Running
<1>5. Found(p) + Cardinality(Mine(p)) = Height(p)
  <2>1. Cardinality((Found(p) + 1)..Height(p))
          = IF Found(p) + 1 > Height(p) THEN 0 ELSE Height(p) - (Found(p) + 1) + 1
    <3> DEFINE a == Found(p) + 1
               b == Height(p)
    <3>1. a \in Int /\ b \in Int
      BY <1>3
    <3> HIDE DEF a, b
    <3>2. Cardinality(a..b) = IF a > b THEN 0 ELSE b - a + 1
      BY <3>1, FS_Interval
    <3> QED
      BY <3>2 DEF a, b
  <2> QED
    BY SMTT(30), <1>2, <1>3, <1>4, <2>1
<1>6. Cardinality(Mine(p)) \in Nat
  <2>1. IsFiniteSet((Found(p) + 1)..Height(p))
    BY <1>3, FS_Interval
  <2> QED
    BY <1>2, <2>1, FS_CardinalityType
<1> QED
  BY <1>1, <1>2, <1>3, <1>4, <1>5, <1>6

LEMMA MountInvRollback == MountInv => RollbackIsAlmostComplete
<1> SUFFICES ASSUME MountInv, Idle, call.failed
             PROVE  RollbackIsAlmostComplete
  BY DEF RollbackIsAlmostComplete
<1>1. PICK q \in FilePaths \cup Unrecorded :
        \A p \in MountPaths \ Unrecorded : Height(p) <= Found(p) + Count(p) + One(p, q)
  BY DEF MountInv, FailedInv
<1>2. ASSUME NEW p \in MountPaths \ Unrecorded, NEW i \in Mine(p)
      PROVE  p = q /\ i = Found(q) + 1
  <2>1. Found(p) \in Nat /\ Height(p) \in Nat /\ Count(p) = 0
    BY CountLawsHold, Numbers, IdleCounts DEF MountInv
  <2>2. i \in (Found(p) + 1)..Height(p)
    BY Zenon, MineInterval
  <2>3. Height(p) <= Found(p) + Count(p) + One(p, q)
    BY <1>1
  <2>4. CASE p = q
    BY <2>1, <2>2, <2>3, <2>4, OneValues
  <2>5. CASE p # q
    BY <2>1, <2>2, <2>3, <2>5, OneValues
  <2> QED
    BY <2>4, <2>5
<1>3. \A p \in MountPaths \ (FilePaths \cup Unrecorded) : Mine(p) = {}
  BY <1>2
<1> DEFINE S == UNION {{<<p, i>> : i \in Mine(p)} : p \in FilePaths \ Unrecorded}
<1>4. S \subseteq {<<q, Found(q) + 1>>}
  BY <1>2, Paths
<1>5. Cardinality(S) <= 1
  <2> HIDE DEF S
  <2> QED
    BY Zenon, <1>4, AtMostOne
<1> QED
  BY <1>3, <1>5 DEF RollbackIsAlmostComplete

LEMMA MountInvLoses == MountInv => LosesAtMostOneEarlierMount
<1> SUFFICES ASSUME MountInv
             PROVE  LosesAtMostOneEarlierMount
  OBVIOUS
<1>1. ASSUME ~call.failed, NEW p \in MountPaths, NEW i \in 1..Found(p)
      PROVE  i \in Earlier(p) /\ mounts[p][i] = call.before[p][i]
  <2>1. Found(p) <= Height(p) /\ Found(p) \in Nat /\ Height(p) \in Nat
    BY <1>1, CountLawsHold, Numbers DEF MountInv, RunningInv
  <2>2. i <= Height(p)
    BY <2>1
  <2> QED
    BY <2>2, MineInterval
<1> DEFINE S == UNION {{<<p, i>> : i \in (1..Len(call.before[p])) \ Earlier(p)} : p \in MountPaths}
<1>2. \E x : S \subseteq {x}
  <2>1. CASE ~call.failed
    <3>1. S = {}
      BY <1>1, <2>1 DEF Found
    <3> QED
      BY <3>1
  <2>2. CASE call.failed
    <3>1. PICK q \in MountPaths : \A p \in MountPaths : Found(p) + Count(p) <= Height(p) + One(p, q)
      BY <2>2 DEF MountInv, FailedInv
    <3>2. ASSUME NEW p \in MountPaths, NEW i \in (1..Found(p)) \ Earlier(p)
          PROVE  p = q /\ i = Found(q)
      <4>1. Found(p) \in Nat /\ Height(p) \in Nat /\ Count(p) \in Nat
        BY CountLawsHold, Numbers DEF MountInv
      <4>2. ~(i <= Height(p))
        BY MineInterval
      <4>3. Found(p) + Count(p) <= Height(p) + One(p, q)
        BY <3>1
      <4>4. CASE p = q
        BY SMTT(30), <4>1, <4>2, <4>3, <4>4, OneValues
      <4>5. CASE p # q
        BY SMTT(30), <4>1, <4>2, <4>3, <4>5, OneValues
      <4> QED
        BY <4>4, <4>5
    <3>3. S \subseteq {<<q, Found(q)>>}
      BY <3>2 DEF Found
    <3> QED
      BY SMTT(30), <3>3
  <2> QED
    BY <2>1, <2>2
<1>3. Cardinality(S) <= 1
  <2> HIDE DEF S
  <2> QED
    BY <1>2, AtMostOne
<1>4. ~call.failed /\ ~dead =>
        \A p \in MountPaths : \A i \in 1..Len(call.before[p]) :
          i \in Earlier(p) /\ mounts[p][i] = call.before[p][i]
  BY <1>1 DEF Found
<1> QED
  BY <1>3, <1>4 DEF LosesAtMostOneEarlierMount

LEMMA MountInvUsable == MountInv => SuccessIsUsable
<1> SUFFICES ASSUME MountInv, Idle
             PROVE  SuccessIsUsable
  BY DEF SuccessIsUsable
<1>1. ASSUME ret = 0
      PROVE  ns = "host" /\ ~call.failed /\ call.plan = <<>>
  BY <1>1 DEF MountInv, UsableInv
<1>2. ASSUME ret = 0, Cgroups, NEW d \in DeviceNodes, Mine(d) # {}
      PROVE  d \in rules
  <2>1. d \in MountPaths
    BY Paths
  <2>2. Found(d) < Height(d)
    BY SMTT(30), <1>2, <2>1, MineInterval, CountLawsHold, Numbers DEF MountInv
  <2>3. d \in rules \/ Has(call.plan, "cgroup", d)
    BY <1>1, <1>2, <2>2 DEF MountInv, UsableInv, Ahead
  <2>4. Len(call.plan) = 0
    BY <1>1, <1>2
  <2> QED
    BY <2>3, <2>4 DEF Has
<1>3. "graphics" \in opt /\ profile.file = "valid" =>
        \A g \in Gpus : mounts[g] # <<>> => g \in profile.devs
  BY DEF MountInv, ProfileInv
<1> QED
  BY <1>1, <1>2, <1>3 DEF SuccessIsUsable

(* While a call runs, the records of a path are as many as the mounts the  *)
(* call made there, each with its flags, outside the paths that nvc_mount.c *)
(* never records.                                                          *)
THEOREM RecordsAreMountedAlways == MountSpec => []RecordsAreMounted
BY MountInvariant, MountInvRecords, PTL

(* A failed call leaves at most the file mount_files was working on.       *)
THEOREM RollbackAlways == MountSpec => []RollbackIsAlmostComplete
BY MountInvariant, MountInvRollback, PTL

(* At most one mount of an earlier call is lost, and none by a success.    *)
THEOREM EarlierMountsAlways == MountSpec => []LosesAtMostOneEarlierMount
BY MountInvariant, MountInvLoses, PTL

(* After a success the mounted device nodes are allowed, the process is    *)
(* back in its namespace, and the profile names the mounted GPUs.          *)
THEOREM UsableAlways == MountSpec => []SuccessIsUsable
BY MountInvariant, MountInvUsable, PTL

(* file_create and file_remove never change what the image held.           *)
LEMMA NodesKept ==
  ASSUME NEW nd \in Nodes, NEW ms, NEW p, NEW q \in MountPaths, nd[q] = "full"
  PROVE  Created(nd, p)[q] = "full" /\ Removed(ms, nd, p)[q] = "full"
BY DEF Nodes, Created, Removed

(* What the image held at a path is there after every step: file_create    *)
(* opens with O_CREAT and truncates nothing, and file_remove, on a failure *)
(* or in unmount, leaves a file with content alone.                        *)
THEOREM ContentKept == MountSpec => KeepsContent
<1>1. ASSUME MountInv, [MountNext]_vars, NEW q \in MountPaths, node[q] = "full"
      PROVE  node'[q] = "full"
  <2>1. node \in Nodes
    BY <1>1 DEF MountInv, TypeInv, Nodes
  <2>2. ASSUME NEW p
        PROVE  Created(node, p) \in Nodes /\ Created(node, p)[q] = "full"
    BY SMTT(30), <1>1, <2>1, NodeTypes, NodesKept
  <2>3. ASSUME NEW ms, NEW p, NEW r
        PROVE  Removed(ms, node, p)[q] = "full" /\ Removed(ms, Created(node, r), p)[q] = "full"
    BY SMTT(30), <1>1, <2>1, <2>2, NodesKept
  <2>4. CASE UNCHANGED node
    BY <1>1, <2>4
  <2>5. ASSUME NEW group, NEW kept, Succeeds(group, kept)
        PROVE  node'[q] = "full"
    BY SMTT(30), <2>2, <2>5 DEF Succeeds
  <2>6. CASE DeviceFails \/ ConfigFails
    BY Zenon, <2>3, <2>4, <2>6 DEF DeviceFails, ConfigFails, Unmounts
  <2>7. CASE MountFile
    BY <2>2, <2>4, <2>5, <2>7 DEF MountFile
  <2>8. CASE mount_device \/ mount_config_file \/ mount_procfs_mig
    BY <2>5, <2>6, <2>8 DEF mount_device, mount_config_file, mount_procfs_mig
  <2>9. CASE mount_directory
    <3>1. CASE Succeeds(call.group, call.kept)
      BY <2>5, <3>1
    <3>2. ASSUME NEW ms, NEW nd \in {node, Created(node, Here)},
                 node' = nd \/ \E p \in MountPaths : Unmounts(ms, nd, p)
          PROVE  node'[q] = "full"
      BY SMTT(30), <1>1, <2>2, <2>3, <3>2 DEF Unmounts
    <3>3. ASSUME NEW s \in {<<mounts, node>>, <<mounts, Created(node, Here)>>,
                            <<Pushed(mounts, Here, FALSE), Created(node, Here)>>,
                            <<Pushed(mounts, Here, TRUE), Created(node, Here)>>}
          PROVE  s[2] \in {node, Created(node, Here)}
      <4> DEFINE m1 == Pushed(mounts, Here, FALSE)
                 m2 == Pushed(mounts, Here, TRUE)
                 n1 == Created(node, Here)
      <4>1. s \in {<<mounts, node>>, <<mounts, n1>>, <<m1, n1>>, <<m2, n1>>}
        BY ZenonT(30), <3>3
      <4> HIDE DEF m1, m2, n1
      <4>2. s[2] \in {node, n1}
        BY <4>1
      <4> QED
        BY <4>2 DEF n1
    <3> QED
      BY ZenonT(30), <2>9, <3>1, <3>2, <3>3 DEF mount_directory
  <2>10. CASE Unmount
    BY <2>3, <2>10 DEF Unmount, Unmounts
  <2>11. CASE Calls \/ Leave
    BY <2>4, <2>11 DEF Calls, Leave, Enter, nvc_driver_mount, nvc_device_mount, nvc_device_mig_caps_mount,
       nvc_mig_device_access_caps_mount, nvc_mig_config_global_caps_mount, nvc_mig_monitor_global_caps_mount
  <2>12. CASE SkipFile \/ setup_device_cgroup \/ ControlDevice \/ symlink_libraries \/ update_app_profile
              \/ filter_libraries \/ Prepare \/ OpenMinors \/ HandOver
    BY <2>4, <2>12 DEF SkipFile, setup_device_cgroup, ControlDevice, symlink_libraries, update_app_profile,
       filter_libraries, Prepare, OpenMinors, HandOver
  <2>13. CASE UNCHANGED vars
    BY <2>4, <2>13 DEF vars
  <2> QED
    BY SMTT(30), <1>1, <2>7, <2>8, <2>9, <2>10, <2>11, <2>12, <2>13 DEF MountNext, Operations
<1>2. MountInv /\ [MountNext]_vars =>
        [\A p \in MountPaths : node[p] = "full" => node'[p] = "full"]_vars
  BY <1>1
<1> QED
  BY <1>2, MountInvariant, PTL DEF MountSpec, KeepsContent
=============================================================================
