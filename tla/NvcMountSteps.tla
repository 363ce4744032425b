--------------------------- MODULE NvcMountSteps ----------------------------
(***************************************************************************)
(* The inductive invariant of the mounts of a container: facts about       *)
(* stacks of mounts and about the plans of the entry points, and the proof *)
(* that every step of NvcMount keeps the invariant.                        *)
(*                                                                         *)
(* Everything is said through heights. A stack of mounts is what the call  *)
(* found there, possibly cut, below what the call added; Found(p) is how   *)
(* high it was, and Count(p) how often the arrays that a rollback goes     *)
(* through name the path. The inductive invariant compares the height with *)
(* the sum of the two: equal while the call runs, apart from mounts that   *)
(* no array remembers; after a failure they differ at one path only,       *)
(* upwards by the file in progress or downwards by the mount that the      *)
(* failing operation took away.                                            *)
(***************************************************************************)
EXTENDS NvcMount, TLAPS

Mount == [by : Nat, flags : BOOLEAN]

Found(p)  == Len(call.before[p])
Height(p) == Len(mounts[p])

One(p, q) == IF p = q THEN 1 ELSE 0

Places(s, p) == {i \in 1..Len(s) : s[i] = p}

CountOf(group, kept, p) == Cardinality(Places(group, p)) + Cardinality(Places(kept, p))

Count(p) == CountOf(call.group, call.kept, p)

(* The operations of a plan with the paths they come with. A plan that     *)
(* forgets its local array mounts into it only what is never recorded.     *)
SharedOps ==
  [op : {"alloc", "dir", "search", "capnode", "filter", "links", "minors", "append"}, path : {""}]
    \cup [op : {"device"}, path : Ran(Ctl) \cup Gpus]
    \cup [op : {"control"}, path : Ran(Ctl)]
    \cup [op : {"config"}, path : {LdConfig}]
    \cup [op : {"config_unrecorded"}, path : {Smi}]
    \cup [op : {"mig"}, path : ProcPaths]
    \cup [op : {"directory"}, path : {CapsDir}]
    \cup [op : {"cgroup"}, path : DeviceNodes]
    \cup [op : {"profile"}, path : Gpus]

AppendingOps == SharedOps \cup [op : {"file", "store"}, path : FilePaths]

ForgettingOps ==
  SharedOps \cup [op : {"file", "store"}, path : FilePaths \cap Unrecorded]
            \cup [op : {"capdevice"}, path : CapNodes]
            \cup [op : {"forget"}, path : {""}]

(* A device that is mounted is allowed later on, and a GPU gets into the   *)
(* application profile.                                                    *)
Follows(plan, i, o) == \E j \in (i + 1)..Len(plan) : plan[j] = Op(o, plan[i].path)

Allows(plan) ==
  Cgroups => \A i \in 1..Len(plan) :
               plan[i].op \in {"device", "capdevice"} => Follows(plan, i, "cgroup")

Profiles(plan) ==
  "graphics" \in opt => \A i \in 1..Len(plan) :
                          plan[i].op = "device" /\ plan[i].path \in Gpus => Follows(plan, i, "profile")

Has(plan, o, p) == \E i \in 1..Len(plan) : plan[i] = Op(o, p)

Ahead(o, p) == Has(call.plan, o, p)

Apis == {"driver", "device", "access", "config", "monitor", "migcaps"}

CallType ==
  [api : Apis \cup {"none"}, plan : Seq(AppendingOps \cup ForgettingOps), group : Seq(MountPaths),
   kept : Seq(MountPaths), failed : BOOLEAN, before : [MountPaths -> Seq(Mount)]]

TypeInv ==
  /\ opt \in OptionChoices
  /\ ncalls \in Nat
  /\ dead \in BOOLEAN
  /\ node \in [MountPaths -> {"absent", "empty", "full"}]
  /\ mounts \in [MountPaths -> Seq(Mount)]
  /\ call \in CallType

PlanInv ==
  /\ \/ call.plan \in Seq(AppendingOps)
     \/ call.plan \in Seq(ForgettingOps) /\ call.group \in Seq(Unrecorded)
  /\ Allows(call.plan)
  /\ Profiles(call.plan)
  /\ Idle => call.group = <<>> /\ call.kept = <<>> /\ ~dead
  /\ dead => ~call.failed

(* What the call found, possibly cut, below what it added. *)
Shape(ms) ==
  \A p \in MountPaths : \A i \in 1..Len(ms[p]) :
    IF i <= Found(p) THEN ms[p][i] = call.before[p][i] ELSE ms[p][i].by = ncalls

StackInv ==
  /\ Shape(mounts)
  /\ \A p \in MountPaths : \A i \in 1..Found(p) : call.before[p][i].by < ncalls

RunningInv ==
  ~call.failed =>
    \A p \in MountPaths :
      /\ Found(p) <= Height(p)
      /\ ~Idle /\ ~dead => /\ Found(p) + Count(p) <= Height(p)
                           /\ p \notin Unrecorded => Found(p) + Count(p) = Height(p)
                           /\ \A i \in (Found(p) + 1)..Height(p) : mounts[p][i].flags

FailedInv ==
  call.failed =>
    /\ \E q \in MountPaths : \A p \in MountPaths :
         Found(p) + Count(p) <= Height(p) + One(p, q)
    /\ \E q \in FilePaths \cup Unrecorded : \A p \in MountPaths \ Unrecorded :
         Height(p) <= Found(p) + Count(p) + One(p, q)

UsableInv ==
  /\ Cgroups /\ ~call.failed =>
       \A d \in DeviceNodes : Found(d) < Height(d) => d \in rules \/ Ahead("cgroup", d)
  /\ Idle /\ ret = 0 => ns = "host" /\ ~call.failed /\ call.plan = <<>>

ProfileInv ==
  "graphics" \in opt /\ profile.file \in {"absent", "valid"} =>
    \A g \in Gpus : mounts[g] # <<>> /\ g \notin profile.devs =>
      /\ ~Idle
      /\ Height(g) <= Count(g)
      /\ call.failed \/ Ahead("profile", g)

MountInv ==
  TypeInv /\ PlanInv /\ StackInv /\ RunningInv /\ FailedInv /\ UsableInv /\ ProfileInv

LEMMA OneValues ==
  /\ \A p, q : One(p, q) \in Nat
  /\ \A p : One(p, p) = 1
  /\ \A p, q : p # q => One(p, q) = 0
BY Zenon DEF One

-----------------------------------------------------------------------------
(* Paths, and the operations they belong to. *)
LEMMA Paths ==
  /\ FilePaths \subseteq MountPaths /\ DeviceNodes \subseteq MountPaths
  /\ PlainPaths \subseteq MountPaths /\ ProcPaths \subseteq PlainPaths
  /\ {LdConfig, Smi, CapsDir} \subseteq PlainPaths
  /\ {Smi, CapsDir} \subseteq Unrecorded /\ CapNodes \subseteq Unrecorded
  /\ Gpus \subseteq DeviceNodes /\ CapNodes \subseteq DeviceNodes /\ Ran(Ctl) \subseteq DeviceNodes
  /\ DeviceNodes \cap FilePaths = {} /\ DeviceNodes \cap PlainPaths = {}
  /\ Gpus \cap Ran(Ctl) = {} /\ Gpus \cap Unrecorded = {}
BY Zenon, NvcMountPaths DEF MountPaths, PlainPaths, ProcPaths, Unrecorded, DeviceNodes, FilePaths

(* What an operation's path is, by the operation.                          *)
LEMMA OpPaths ==
  ASSUME NEW x \in AppendingOps \cup ForgettingOps
  PROVE  /\ x.op \in {"file", "store"} => x.path \in FilePaths
         /\ x.op = "device" => x.path \in Ran(Ctl) \cup Gpus
         /\ x.op = "capdevice" => x.path \in CapNodes
         /\ x.op = "control" => x.path \in Ran(Ctl)
         /\ x.op = "config" => x.path = LdConfig
         /\ x.op = "config_unrecorded" => x.path = Smi
         /\ x.op = "mig" => x.path \in ProcPaths
         /\ x.op = "directory" => x.path = CapsDir
         /\ x.op = "cgroup" => x.path \in DeviceNodes
         /\ x.op = "profile" => x.path \in Gpus
BY Zenon DEF AppendingOps, ForgettingOps, SharedOps

-----------------------------------------------------------------------------
(* Stacks of mounts. *)
LEMMA PushedType ==
  ASSUME NEW ms \in [MountPaths -> Seq(Mount)], NEW p \in MountPaths, NEW f \in BOOLEAN,
         ncalls \in Nat
  PROVE  Pushed(ms, p, f) \in [MountPaths -> Seq(Mount)]
BY DEF Pushed, Mount

(* A mount makes one stack higher by one,                                  *)
LEMMA PushedLen ==
  ASSUME NEW ms \in [MountPaths -> Seq(Mount)], NEW p \in MountPaths, NEW f,
         NEW q \in MountPaths
  PROVE  Len(Pushed(ms, p, f)[q]) = IF q = p THEN Len(ms[q]) + 1 ELSE Len(ms[q])
<1>1. CASE q = p
  <2>1. Pushed(ms, p, f)[q] = Append(ms[p], [by |-> ncalls, flags |-> f])
    BY Zenon, <1>1 DEF Pushed
  <2> QED
    BY <1>1, <2>1
<1>2. CASE q # p
  <2>1. Pushed(ms, p, f)[q] = ms[q]
    BY Zenon, <1>2 DEF Pushed
  <2> QED
    BY Zenon, <1>2, <2>1
<1> QED
  BY Zenon, <1>1, <1>2

(* is its last entry, made by the call,                                    *)
LEMMA PushedTop ==
  ASSUME NEW ms \in [MountPaths -> Seq(Mount)], NEW p \in MountPaths, NEW f
  PROVE  Pushed(ms, p, f)[p][Len(ms[p]) + 1] = [by |-> ncalls, flags |-> f]
<1> DEFINE m == [by |-> ncalls, flags |-> f]
<1>1. Pushed(ms, p, f)[p] = Append(ms[p], m)
  BY Zenon DEF Pushed
<1> HIDE DEF m
<1>2. Pushed(ms, p, f)[p][Len(ms[p]) + 1] = m
  BY <1>1
<1> QED
  BY Zenon, <1>2 DEF m

(* and leaves every entry below it.                                        *)
LEMMA PushedEntries ==
  ASSUME NEW ms \in [MountPaths -> Seq(Mount)], NEW p \in MountPaths, NEW f,
         NEW q \in MountPaths, NEW i \in 1..Len(ms[q])
  PROVE  Pushed(ms, p, f)[q][i] = ms[q][i]
<1> DEFINE m == [by |-> ncalls, flags |-> f]
<1>1. Pushed(ms, p, f)[p] = Append(ms[p], m)
  BY Zenon DEF Pushed
<1>2. q # p => Pushed(ms, p, f)[q] = ms[q]
  BY Zenon DEF Pushed
<1> HIDE DEF m
<1>3. ms[p] \in Seq(Mount)
  OBVIOUS
<1>4. CASE q = p
  BY <1>1, <1>3, <1>4
<1> QED
  BY Zenon, <1>2, <1>4

(* umount2 takes the last entry of one stack, if there is one.             *)
LEMMA PoppedStacks ==
  ASSUME NEW ms \in [MountPaths -> Seq(Mount)], NEW p \in MountPaths
  PROVE  /\ Popped(ms, p) \in [MountPaths -> Seq(Mount)]
         /\ \A q \in MountPaths :
              /\ Len(Popped(ms, p)[q]) = IF q = p /\ Len(ms[q]) > 0 THEN Len(ms[q]) - 1 ELSE Len(ms[q])
              /\ \A i \in 1..Len(Popped(ms, p)[q]) : Popped(ms, p)[q][i] = ms[q][i]
<1> DEFINE top == IF ms[p] = <<>> THEN ms[p] ELSE SubSeq(ms[p], 1, Len(ms[p]) - 1)
<1>1. Popped(ms, p) = [ms EXCEPT ![p] = top]
  BY Zenon DEF Popped
<1>2. ms[p] \in Seq(Mount) /\ Len(ms[p]) \in Nat /\ (ms[p] = <<>> <=> Len(ms[p]) = 0)
  OBVIOUS
<1>3. /\ top \in Seq(Mount)
      /\ Len(top) = IF Len(ms[p]) > 0 THEN Len(ms[p]) - 1 ELSE Len(ms[p])
      /\ \A i \in 1..Len(top) : top[i] = ms[p][i]
  BY <1>2
<1> HIDE DEF top
<1> QED
  BY Zenon, <1>1, <1>3

(* Adding to a stack that was not cut, and taking from any, keeps the shape. *)
LEMMA PushedShape ==
  ASSUME TypeInv, NEW ms \in [MountPaths -> Seq(Mount)], NEW p \in MountPaths, NEW f \in BOOLEAN,
         Shape(ms), Len(ms[p]) >= Found(p)
  PROVE  Shape(Pushed(ms, p, f))
<1>0. ncalls \in Nat /\ Found(p) \in Nat
  BY DEF TypeInv, CallType, Found
<1> SUFFICES ASSUME NEW q \in MountPaths, NEW i \in 1..Len(Pushed(ms, p, f)[q])
             PROVE  IF i <= Found(q) THEN Pushed(ms, p, f)[q][i] = call.before[q][i]
                                     ELSE Pushed(ms, p, f)[q][i].by = ncalls
  BY Zenon DEF Shape
<1> DEFINE new == Pushed(ms, p, f)
<1>a. /\ Len(new[q]) = IF q = p THEN Len(ms[q]) + 1 ELSE Len(ms[q])
      /\ \A j \in 1..Len(ms[q]) : new[q][j] = ms[q][j]
      /\ new[p][Len(ms[p]) + 1] = [by |-> ncalls, flags |-> f]
  <2>1. Len(new[q]) = IF q = p THEN Len(ms[q]) + 1 ELSE Len(ms[q])
    BY PushedLen
  <2>2. \A j \in 1..Len(ms[q]) : new[q][j] = ms[q][j]
    BY PushedEntries
  <2>3. new[p][Len(ms[p]) + 1] = [by |-> ncalls, flags |-> f]
    BY PushedTop, SMT
  <2> QED
    BY <2>1, <2>2, <2>3, Zenon
<1>b. Len(ms[q]) \in Nat
  OBVIOUS
<1> HIDE DEF new
<1>1. CASE i \in 1..Len(ms[q])
  BY Zenon, <1>a, <1>1 DEF Shape, new
<1>2. CASE i \notin 1..Len(ms[q])
  <2>1. q = p /\ i = Len(ms[p]) + 1
    BY <1>a, <1>b, <1>2 DEF One, new
  <2>2. Pushed(ms, p, f)[p][i].by = ncalls
    BY <1>a, <2>1 DEF new
  <2>3. ~(i <= Found(p))
    BY <1>0, <2>1
  <2> QED
    BY Zenon, <2>1, <2>2, <2>3
<1> QED
  BY Zenon, <1>1, <1>2

LEMMA PoppedShape ==
  ASSUME NEW ms \in [MountPaths -> Seq(Mount)], NEW p \in MountPaths, Shape(ms)
  PROVE  Shape(Popped(ms, p))
<1> SUFFICES ASSUME NEW q \in MountPaths, NEW i \in 1..Len(Popped(ms, p)[q])
             PROVE  IF i <= Found(q) THEN Popped(ms, p)[q][i] = call.before[q][i]
                                     ELSE Popped(ms, p)[q][i].by = ncalls
  BY Zenon DEF Shape
<1>1. i \in 1..Len(ms[q]) /\ Popped(ms, p)[q][i] = ms[q][i]
  BY PoppedStacks
<1> QED
  BY Zenon, <1>1 DEF Shape

-----------------------------------------------------------------------------
(* What a failing operation may have done to the mounts: one stack is      *)
(* lower by one, or one is higher by one, a file's unless nothing records  *)
(* the path anyway.                                                        *)
Running == ~Idle /\ ~dead /\ ~call.failed

Damage(ms) ==
  /\ ms \in [MountPaths -> Seq(Mount)] /\ Shape(ms)
  /\ \E q \in MountPaths : \A p \in MountPaths : Len(mounts[p]) <= Len(ms[p]) + One(p, q)
  /\ \E q \in FilePaths \cup Unrecorded :
       \A p \in MountPaths \ Unrecorded : Len(ms[p]) <= Len(mounts[p]) + One(p, q)

(* A failure that touches nothing,                                         *)
LEMMA DamageNone ==
  ASSUME TypeInv, StackInv
  PROVE  Damage(mounts)
<1>1. mounts \in [MountPaths -> Seq(Mount)] /\ Shape(mounts)
  BY Zenon DEF TypeInv, StackInv
<1>2. LdConfig \in MountPaths /\ Smi \in Unrecorded
  BY Zenon, Paths
<1>3. \A p \in MountPaths : Len(mounts[p]) \in Nat
  BY <1>1
<1> QED
  BY <1>1, <1>2, <1>3, OneValues DEF Damage

(* one after the bind mount of a file, or of a path no array records,      *)
LEMMA DamagePush ==
  ASSUME TypeInv, StackInv, RunningInv, Running,
         NEW p \in MountPaths, p \in FilePaths \cup Unrecorded, NEW f \in BOOLEAN
  PROVE  Damage(Pushed(mounts, p, f))
<1> DEFINE new == Pushed(mounts, p, f)
<1>1. mounts \in [MountPaths -> Seq(Mount)] /\ Shape(mounts) /\ ncalls \in Nat
  BY Zenon DEF TypeInv, StackInv
<1>2. \A q \in MountPaths : Len(mounts[q]) \in Nat
  BY <1>1
<1>3. Len(mounts[p]) >= Found(p)
  <2>1. Found(p) \in Nat
    BY DEF TypeInv, CallType, Found
  <2> QED
    BY Zenon, <1>2, <2>1 DEF RunningInv, Running, Height
<1>4. /\ new \in [MountPaths -> Seq(Mount)]
      /\ \A q \in MountPaths : Len(new[q]) = IF q = p THEN Len(mounts[q]) + 1 ELSE Len(mounts[q])
  <2>1. new \in [MountPaths -> Seq(Mount)]
    BY Zenon, <1>1, PushedType
  <2>2. ASSUME NEW q \in MountPaths
        PROVE  Len(new[q]) = IF q = p THEN Len(mounts[q]) + 1 ELSE Len(mounts[q])
    BY <1>1, PushedLen
  <2> QED
    BY Zenon, <2>1, <2>2
<1>5. Shape(new)
  BY Zenon, <1>1, <1>3, PushedShape
<1> HIDE DEF new
<1>6. ASSUME NEW q \in MountPaths
      PROVE  /\ Len(mounts[q]) <= Len(new[q]) + One(q, p)
             /\ Len(new[q]) <= Len(mounts[q]) + One(q, p)
  <2>1. Len(mounts[q]) \in Nat
    BY Zenon, <1>2
  <2>2. CASE q = p
    BY <1>4, <2>1, <2>2, OneValues
  <2>3. CASE q # p
    BY <1>4, <2>1, <2>3, OneValues
  <2> QED
    BY Zenon, <2>2, <2>3
<1>9. Damage(new)
  BY Zenon, <1>4, <1>5, <1>6 DEF Damage
<1> QED
  BY Zenon, <1>9 DEF new

(* one that unmounts what was there before the operation,                  *)
LEMMA DamagePop ==
  ASSUME TypeInv, StackInv, NEW p \in MountPaths
  PROVE  Damage(Popped(mounts, p))
<1> DEFINE new == Popped(mounts, p)
<1>1. mounts \in [MountPaths -> Seq(Mount)] /\ Shape(mounts)
  BY Zenon DEF TypeInv, StackInv
<1>2. \A q \in MountPaths : Len(mounts[q]) \in Nat
  BY <1>1
<1>3. /\ new \in [MountPaths -> Seq(Mount)]
      /\ \A q \in MountPaths :
           Len(new[q]) = IF q = p /\ Len(mounts[q]) > 0 THEN Len(mounts[q]) - 1 ELSE Len(mounts[q])
  BY Zenon, <1>1, PoppedStacks
<1>4. Shape(new)
  BY Zenon, <1>1, PoppedShape
<1> HIDE DEF new
<1>5. ASSUME NEW q \in MountPaths
      PROVE  /\ Len(mounts[q]) <= Len(new[q]) + One(q, p)
             /\ Len(new[q]) <= Len(mounts[q]) + One(q, Smi)
  <2>1. Len(mounts[q]) \in Nat
    BY Zenon, <1>2, OneValues
  <2>2. CASE q = p
    BY <1>3, <2>1, <2>2, OneValues
  <2>3. CASE q # p
    BY <1>3, <2>1, <2>3, OneValues
  <2> QED
    BY Zenon, <2>2, <2>3
<1>6. Smi \in Unrecorded
  BY Zenon, Paths
<1>7. Damage(new)
  BY Zenon, <1>3, <1>4, <1>5, <1>6 DEF Damage
<1> QED
  BY Zenon, <1>7 DEF new

(* and one that unmounts a path after a mount.                             *)
LEMMA DamagePushPop ==
  ASSUME TypeInv, StackInv, RunningInv, Running,
         NEW p \in MountPaths, NEW r \in MountPaths, p = r \/ p \in Unrecorded, NEW f \in BOOLEAN
  PROVE  Damage(Popped(Pushed(mounts, p, f), r))
<1> DEFINE mid == Pushed(mounts, p, f)
           new == Popped(mid, r)
<1>1. mounts \in [MountPaths -> Seq(Mount)] /\ Shape(mounts) /\ ncalls \in Nat
  BY Zenon DEF TypeInv, StackInv
<1>2. \A q \in MountPaths : Len(mounts[q]) \in Nat
  BY <1>1
<1>3. Len(mounts[p]) >= Found(p)
  <2>1. Found(p) \in Nat
    BY DEF TypeInv, CallType, Found
  <2> QED
    BY Zenon, <1>2, <2>1 DEF RunningInv, Running, Height
<1>4. /\ mid \in [MountPaths -> Seq(Mount)]
      /\ \A q \in MountPaths : Len(mid[q]) = IF q = p THEN Len(mounts[q]) + 1 ELSE Len(mounts[q])
  <2>1. mid \in [MountPaths -> Seq(Mount)]
    BY Zenon, <1>1, PushedType
  <2>2. ASSUME NEW q \in MountPaths
        PROVE  Len(mid[q]) = IF q = p THEN Len(mounts[q]) + 1 ELSE Len(mounts[q])
    BY <1>1, PushedLen
  <2> QED
    BY Zenon, <2>1, <2>2
<1>5. Shape(mid)
  BY Zenon, <1>1, <1>3, PushedShape
<1> HIDE DEF mid
<1>6. /\ new \in [MountPaths -> Seq(Mount)]
      /\ \A q \in MountPaths :
           Len(new[q]) = IF q = r /\ Len(mid[q]) > 0 THEN Len(mid[q]) - 1 ELSE Len(mid[q])
  BY Zenon, <1>4, PoppedStacks
<1>7. Shape(new)
  BY Zenon, <1>4, <1>5, PoppedShape
<1> HIDE DEF new
<1>8. ASSUME NEW q \in MountPaths
      PROVE  /\ Len(mounts[q]) <= Len(new[q]) + One(q, r)
             /\ q \notin Unrecorded => Len(new[q]) <= Len(mounts[q]) + One(q, Smi)
  <2>1. Len(mounts[q]) \in Nat
    BY Zenon, <1>2, OneValues
  <2>2. CASE q = r /\ q = p
    BY <1>4, <1>6, <2>1, <2>2, OneValues
  <2>3. CASE q = r /\ q # p
    BY <1>4, <1>6, <2>1, <2>3, OneValues
  <2>4. CASE q # r
    BY <1>4, <1>6, <2>1, <2>4, OneValues
  <2> QED
    BY Zenon, <2>2, <2>3, <2>4
<1>9. Smi \in Unrecorded
  BY Zenon, Paths
<1>11. Damage(new)
  BY Zenon, <1>6, <1>7, <1>8, <1>9 DEF Damage
<1> QED
  BY Zenon, <1>11 DEF new, mid

-----------------------------------------------------------------------------
(* Going on to the next operation of a plan. *)
LEMMA TailPlan ==
  ASSUME NEW S, NEW plan \in Seq(S), plan # <<>>, Allows(plan), Profiles(plan)
  PROVE  Allows(Tail(plan)) /\ Profiles(Tail(plan))
<1>1. /\ Tail(plan) \in Seq(S) /\ Len(Tail(plan)) = Len(plan) - 1 /\ Len(plan) \in Nat
      /\ \A i \in 1..Len(Tail(plan)) : Tail(plan)[i] = plan[i + 1]
  OBVIOUS
<1>2. ASSUME NEW i \in 1..Len(Tail(plan)), NEW o, Follows(plan, i + 1, o)
      PROVE  Follows(Tail(plan), i, o)
  <2>1. PICK j \in (i + 2)..Len(plan) : plan[j] = Op(o, plan[i + 1].path)
    BY <1>2 DEF Follows
  <2>2. j - 1 \in (i + 1)..Len(Tail(plan)) /\ Tail(plan)[j - 1] = plan[j] /\ Tail(plan)[i] = plan[i + 1]
    BY <1>1, <2>1
  <2> QED
    BY Zenon, <2>1, <2>2 DEF Follows
<1>3. \A i \in 1..Len(Tail(plan)) : i + 1 \in 1..Len(plan) /\ Tail(plan)[i] = plan[i + 1]
  BY <1>1
<1>4. Allows(Tail(plan))
  BY Zenon, <1>2, <1>3 DEF Allows
<1>5. Profiles(Tail(plan))
  BY Zenon, <1>2, <1>3 DEF Profiles
<1> QED
  BY Zenon, <1>4, <1>5

(* What is ahead stays ahead, but for the operation that is done; and what *)
(* follows the one that is done is ahead.                                  *)
LEMMA TailHas ==
  ASSUME NEW S, NEW plan \in Seq(S), plan # <<>>, NEW o, NEW p
  PROVE  /\ Has(plan, o, p) /\ Head(plan) # Op(o, p) => Has(Tail(plan), o, p)
         /\ Head(plan).path = p /\ Follows(plan, 1, o) => Has(Tail(plan), o, p)
<1>1. /\ Tail(plan) \in Seq(S) /\ Len(Tail(plan)) = Len(plan) - 1 /\ Len(plan) \in Nat
      /\ \A i \in 1..Len(Tail(plan)) : Tail(plan)[i] = plan[i + 1]
      /\ Head(plan) = plan[1]
  OBVIOUS
<1>2. ASSUME NEW i \in 2..Len(plan), plan[i] = Op(o, p)
      PROVE  Has(Tail(plan), o, p)
  <2>1. i - 1 \in 1..Len(Tail(plan)) /\ Tail(plan)[i - 1] = plan[i]
    BY <1>1
  <2> QED
    BY Zenon, <1>2, <2>1 DEF Has
<1>3. ASSUME Has(plan, o, p), Head(plan) # Op(o, p)
      PROVE  Has(Tail(plan), o, p)
  <2>1. PICK i \in 1..Len(plan) : plan[i] = Op(o, p)
    BY Zenon, <1>3 DEF Has
  <2>2. i # 1
    BY Zenon, <1>1, <1>3, <2>1
  <2> QED
    BY <1>2, <2>1, <2>2
<1>4. ASSUME Head(plan).path = p, Follows(plan, 1, o)
      PROVE  Has(Tail(plan), o, p)
  <2>1. PICK i \in 2..Len(plan) : plan[i] = Op(o, p)
    BY <1>1, <1>4 DEF Follows
  <2> QED
    BY Zenon, <1>2, <2>1
<1> QED
  BY Zenon, <1>3, <1>4

-----------------------------------------------------------------------------
Nodes == [MountPaths -> {"absent", "empty", "full"}]

(* Creating and removing a path keeps the types.                           *)
LEMMA NodeTypes ==
  ASSUME NEW nd \in Nodes, NEW ms, NEW p
  PROVE  Created(nd, p) \in Nodes /\ Removed(ms, nd, p) \in Nodes
BY Zenon DEF Nodes, Created, Removed

-----------------------------------------------------------------------------
(* Plans. A plan is put together from parts; a part may leave some devices *)
(* to be allowed, and some GPUs to be written into the profile, by a part  *)
(* that comes after it.                                                    *)
Sound(plan, A, P) ==
  /\ Cgroups => \A i \in 1..Len(plan) :
       plan[i].op \in {"device", "capdevice"} => plan[i].path \in A \/ Follows(plan, i, "cgroup")
  /\ "graphics" \in opt => \A i \in 1..Len(plan) :
       plan[i].op = "device" /\ plan[i].path \in Gpus => plan[i].path \in P \/ Follows(plan, i, "profile")

(* A plan that leaves nothing to others is one that allows its devices and *)
(* writes its profiles.                                                    *)
LEMMA SoundPlan ==
  ASSUME NEW plan
  PROVE  Sound(plan, {}, {}) <=> Allows(plan) /\ Profiles(plan)
BY Zenon DEF Sound, Allows, Profiles

(* A plan without devices leaves nothing.                                  *)
LEMMA PlainSound ==
  ASSUME NEW plan, NEW A, NEW P,
         \A i \in 1..Len(plan) : plan[i].op \notin {"device", "capdevice"}
  PROVE  Sound(plan, A, P)
BY Zenon DEF Sound

LEMMA SmallSeqs ==
  ASSUME NEW S
  PROVE  /\ <<>> \in Seq(S)
         /\ \A x \in S : <<x>> \in Seq(S)
         /\ \A x, y \in S : <<x, y>> \in Seq(S)
         /\ \A s, t \in Seq(S) : s \o t \in Seq(S)
OBVIOUS

(* What follows in a part follows in the whole, and what the second part   *)
(* has follows the first.                                                  *)
LEMMA ConcatFollows ==
  ASSUME NEW S, NEW s \in Seq(S), NEW t \in Seq(S), NEW o
  PROVE  /\ \A i \in 1..Len(s) : /\ (s \o t)[i] = s[i]
                                 /\ Follows(s, i, o) => Follows(s \o t, i, o)
                                 /\ Has(t, o, s[i].path) => Follows(s \o t, i, o)
         /\ \A i \in 1..Len(t) : /\ (s \o t)[Len(s) + i] = t[i]
                                 /\ Follows(t, i, o) => Follows(s \o t, Len(s) + i, o)
<1>1. /\ s \o t \in Seq(S) /\ Len(s \o t) = Len(s) + Len(t) /\ Len(s) \in Nat /\ Len(t) \in Nat
      /\ \A i \in 1..Len(s) : (s \o t)[i] = s[i]
      /\ \A i \in 1..Len(t) : (s \o t)[Len(s) + i] = t[i]
  OBVIOUS
<1> DEFINE u == s \o t
<1> HIDE DEF u
<1>2. ASSUME NEW i \in 1..Len(s), Follows(s, i, o)
      PROVE  Follows(u, i, o)
  <2>1. PICK j \in (i + 1)..Len(s) : s[j] = Op(o, s[i].path)
    BY Zenon, <1>2 DEF Follows
  <2>2. j \in (i + 1)..Len(u) /\ u[j] = s[j] /\ u[i] = s[i]
    BY <1>1, <2>1 DEF u
  <2> QED
    BY Zenon, <2>1, <2>2 DEF Follows
<1>3. ASSUME NEW i \in 1..Len(s), Has(t, o, s[i].path)
      PROVE  Follows(u, i, o)
  <2>1. PICK j \in 1..Len(t) : t[j] = Op(o, s[i].path)
    BY Zenon, <1>3 DEF Has
  <2>2. Len(s) + j \in (i + 1)..Len(u) /\ u[Len(s) + j] = t[j] /\ u[i] = s[i]
    BY <1>1, <2>1 DEF u
  <2> QED
    BY Zenon, <2>1, <2>2 DEF Follows
<1>4. ASSUME NEW i \in 1..Len(t), Follows(t, i, o)
      PROVE  Follows(u, Len(s) + i, o)
  <2>1. PICK j \in (i + 1)..Len(t) : t[j] = Op(o, t[i].path)
    BY Zenon, <1>4 DEF Follows
  <2>2. Len(s) + j \in (Len(s) + i + 1)..Len(u) /\ u[Len(s) + j] = t[j] /\ u[Len(s) + i] = t[i]
    BY <1>1, <2>1 DEF u
  <2> QED
    BY Zenon, <2>1, <2>2 DEF Follows
<1> QED
  BY Zenon, <1>1, <1>2, <1>3, <1>4 DEF u

(* Two parts make a sound plan when the second has what the first leaves   *)
(* to it.                                                                  *)
LEMMA ConcatSound ==
  ASSUME NEW S, NEW s \in Seq(S), NEW t \in Seq(S), NEW A, NEW P, NEW A1, NEW P1,
         Sound(s, A, P), Sound(t, A1, P1),
         Cgroups => \A x \in A : x \in A1 \/ Has(t, "cgroup", x),
         "graphics" \in opt => \A x \in P : x \in P1 \/ Has(t, "profile", x)
  PROVE  s \o t \in Seq(S) /\ Sound(s \o t, A1, P1)
<1> DEFINE u == s \o t
<1>1. u \in Seq(S) /\ Len(u) = Len(s) + Len(t) /\ Len(s) \in Nat /\ Len(t) \in Nat
  OBVIOUS
<1>2. ASSUME NEW o
      PROVE  /\ \A i \in 1..Len(s) : /\ u[i] = s[i]
                                     /\ Follows(s, i, o) => Follows(u, i, o)
                                     /\ Has(t, o, s[i].path) => Follows(u, i, o)
             /\ \A i \in 1..Len(t) : /\ u[Len(s) + i] = t[i]
                                     /\ Follows(t, i, o) => Follows(u, Len(s) + i, o)
  BY ConcatFollows, Zenon
<1> HIDE DEF u
<1>3. ASSUME Cgroups, NEW i \in 1..Len(u), u[i].op \in {"device", "capdevice"}
      PROVE  u[i].path \in A1 \/ Follows(u, i, "cgroup")
  <2>1. CASE i \in 1..Len(s)
    BY Zenon, <1>2, <1>3, <2>1 DEF Sound
  <2>2. CASE i \notin 1..Len(s)
    <3>1. i - Len(s) \in 1..Len(t) /\ i = Len(s) + (i - Len(s))
      BY <1>1, <2>2
    <3> QED
      BY Zenon, <1>2, <1>3, <3>1 DEF Sound
  <2> QED
    BY Zenon, <2>1, <2>2
<1>4. ASSUME "graphics" \in opt, NEW i \in 1..Len(u), u[i].op = "device", u[i].path \in Gpus
      PROVE  u[i].path \in P1 \/ Follows(u, i, "profile")
  <2>1. CASE i \in 1..Len(s)
    BY Zenon, <1>2, <1>4, <2>1 DEF Sound
  <2>2. CASE i \notin 1..Len(s)
    <3>1. i - Len(s) \in 1..Len(t) /\ i = Len(s) + (i - Len(s))
      BY <1>1, <2>2
    <3> QED
      BY ZenonT(30), <1>2, <1>4, <3>1 DEF Sound
  <2> QED
    BY Zenon, <2>1, <2>2
<1> QED
  BY Zenon, <1>1, <1>3, <1>4 DEF Sound, u

-----------------------------------------------------------------------------
(* The loop over the control nodes puts the operations of one node before  *)
(* the rest of the plan.                                                   *)
LEMMA ControlNodePlan ==
  ASSUME NEW d \in Ran(Ctl)
  PROVE  ControlNode(d) \in Seq(SharedOps) /\ Sound(ControlNode(d), {}, {})
<1> DEFINE a == Op("device", d)
           b == Op("cgroup", d)
           A == When(Devbind, <<a>>)
           B == When(Cgroups, <<b>>)
<1>1. a \in SharedOps /\ b \in SharedOps /\ b.op = "cgroup" /\ a.path = d /\ d \notin Gpus
  BY Zenon, Paths DEF SharedOps, Op
<1>2. ControlNode(d) \in {<<>>, A \o B}
  BY Zenon DEF ControlNode, When
<1>3. A \in {<<>>, <<a>>} /\ B \in {<<>>, <<b>>} /\ (Cgroups => B = <<b>>)
  BY Zenon DEF When
<1>4. <<b>>[1] = Op("cgroup", d) /\ Len(<<b>>) = 1
  OBVIOUS
<1> HIDE DEF a, b, A, B
<1>5. A \in Seq(SharedOps) /\ B \in Seq(SharedOps) /\ <<>> \in Seq(SharedOps)
  BY <1>1, <1>3, SmallSeqs, Zenon
<1>6. Sound(A, {d}, {})
  <2>1. \A i \in 1..Len(A) : A[i].path = d
    BY <1>1, <1>3
  <2> QED
    BY Zenon, <1>1, <2>1 DEF Sound
<1>7. Sound(B, {}, {}) /\ Sound(<<>>, {}, {})
  <2>1. /\ \A i \in 1..Len(B) : B[i].op \notin {"device", "capdevice"}
        /\ \A i \in 1..Len(<<>>) : <<>>[i].op \notin {"device", "capdevice"}
    BY <1>1, <1>3
  <2> QED
    BY <2>1, PlainSound, Zenon
<1>8. Cgroups => Has(B, "cgroup", d)
  BY <1>3, <1>4 DEF Has
<1>9. A \o B \in Seq(SharedOps) /\ Sound(A \o B, {}, {})
  BY <1>5, <1>6, <1>7, <1>8, ConcatSound, Zenon
<1> QED
  BY Zenon, <1>2, <1>5, <1>7, <1>9

(* The whole has what a part has.                                          *)
LEMMA ConcatHas ==
  ASSUME NEW S, NEW s \in Seq(S), NEW t \in Seq(S), NEW o, NEW p
  PROVE  (Has(s, o, p) \/ Has(t, o, p)) => Has(s \o t, o, p)
<1> DEFINE u == s \o t
<1>1. /\ Len(u) = Len(s) + Len(t) /\ Len(s) \in Nat /\ Len(t) \in Nat
      /\ \A i \in 1..Len(s) : u[i] = s[i]
      /\ \A i \in 1..Len(t) : u[Len(s) + i] = t[i]
  OBVIOUS
<1> HIDE DEF u
<1>2. ASSUME NEW i \in 1..Len(s), s[i] = Op(o, p)
      PROVE  Has(u, o, p)
  <2>1. i \in 1..Len(u) /\ u[i] = s[i]
    BY <1>1
  <2> QED
    BY Zenon, <1>2, <2>1 DEF Has
<1>3. ASSUME NEW i \in 1..Len(t), t[i] = Op(o, p)
      PROVE  Has(u, o, p)
  <2>1. Len(s) + i \in 1..Len(u) /\ u[Len(s) + i] = t[i]
    BY <1>1
  <2> QED
    BY Zenon, <1>3, <2>1 DEF Has
<1> QED
  BY Zenon, <1>2, <1>3 DEF Has, u

-----------------------------------------------------------------------------
(* The plans of the entry points. *)
PlainA == {x \in AppendingOps : x.op \notin {"device", "capdevice"}}

PlainF == {x \in ForgettingOps : x.op \notin {"device", "capdevice"}}

(* A plan of plain operations is sound.                                    *)
LEMMA PlainSeq ==
  ASSUME NEW plan, plan \in Seq(PlainA) \/ plan \in Seq(PlainF), NEW A, NEW P
  PROVE  /\ plan \in Seq(AppendingOps) \/ plan \in Seq(ForgettingOps)
         /\ plan \in Seq(PlainF) => plan \in Seq(ForgettingOps)
         /\ Sound(plan, A, P)
<1>1. /\ plan \in Seq(AppendingOps) \/ plan \in Seq(ForgettingOps)
      /\ plan \in Seq(PlainF) => plan \in Seq(ForgettingOps)
  BY DEF PlainA, PlainF
<1>2. \A i \in 1..Len(plan) : plan[i].op \notin {"device", "capdevice"}
  <2>1. ASSUME NEW i \in 1..Len(plan)
        PROVE  plan[i] \in PlainA \cup PlainF
    OBVIOUS
  <2> QED
    BY Zenon, <2>1 DEF PlainA, PlainF
<1> QED
  BY <1>1, <1>2, PlainSound, Zenon

(* The operations that are plain.                                          *)
LEMMA PlainMembers ==
  /\ \A o \in {"alloc", "dir", "search", "capnode", "filter", "links", "minors", "append"} :
       Op(o, "") \in PlainA /\ Op(o, "") \in PlainF
  /\ Op("forget", "") \in PlainF
  /\ \A p \in FilePaths : Op("file", p) \in PlainA
  /\ \A p \in FilePaths \cap Unrecorded : Op("file", p) \in PlainF /\ Op("store", p) \in PlainF
  /\ \A p \in Ran(Ctl) : Op("control", p) \in PlainA
  /\ Op("config", LdConfig) \in PlainF /\ Op("config_unrecorded", Smi) \in PlainF
  /\ \A p \in ProcPaths : Op("mig", p) \in PlainF
  /\ Op("directory", CapsDir) \in PlainF
  /\ \A p \in DeviceNodes : Op("cgroup", p) \in PlainF
  /\ \A p \in Gpus : Op("profile", p) \in PlainF
BY ZenonT(30) DEF PlainA, PlainF, AppendingOps, ForgettingOps, SharedOps, Op

(* One operation for each file of a list is a plan of those operations.    *)
LEMMA OpSeqPlan ==
  ASSUME NEW ps, Len(ps) \in Nat, NEW o, NEW S, \A i \in 1..Len(ps) : Op(o, ps[i]) \in S
  PROVE  OpSeq(o, ps) \in Seq(S)
BY DEF OpSeq

(* The lists of files hold paths of files, and the last ones only paths    *)
(* that no array records.                                                  *)
LEMMA Files ==
  /\ \A s \in {Bins, Libs, Libs32, Dri, DriverStore, CntLibs, Ctl} : Len(s) \in Nat
  /\ \A s \in {Bins, Libs, Libs32, Dri, DriverStore} : \A i \in 1..Len(s) : s[i] \in FilePaths
  /\ \A s \in {Dri, DriverStore} : \A i \in 1..Len(s) : s[i] \in Unrecorded
  /\ \A i \in 1..Len(Ctl) : Ctl[i] \in Ran(Ctl)
<1>1. \A s \in {Bins, Libs, Libs32, Dri, DriverStore, CntLibs, Ctl} : Len(s) \in Nat
  BY NvcMountPaths
<1>2. \A s \in {Bins, Libs, Libs32, Dri, DriverStore} : \A i \in 1..Len(s) : s[i] \in FilePaths
  BY Zenon DEF FilePaths, Ran
<1>3. \A s \in {Dri, DriverStore} : \A i \in 1..Len(s) : s[i] \in Unrecorded
  BY Zenon DEF Unrecorded, Ran
<1>4. \A i \in 1..Len(Ctl) : Ctl[i] \in Ran(Ctl)
  BY Zenon DEF Ran
<1> QED
  BY Zenon, <1>1, <1>2, <1>3, <1>4

LEMMA MountFilesPlan ==
  ASSUME NEW S, NEW files, NEW end, Len(files) \in Nat,
         Op("dir", "") \in S, Op(end, "") \in S, \A i \in 1..Len(files) : Op("file", files[i]) \in S
  PROVE  mount_files(files, end) \in Seq(S)
<1>1. OpSeq("file", files) \in Seq(S)
  BY Zenon, OpSeqPlan
<1> QED
  BY <1>1, SmallSeqs, Zenon DEF mount_files

(* nvc_driver_mount: no device by itself, all of them by the control       *)
(* operations.                                                             *)
LEMMA DriverPlanPlain == DriverPlan \in Seq(PlainA)
<1>1. <<Op("alloc", "")>> \in Seq(PlainA) /\ <<Op("links", "")>> \in Seq(PlainA)
  BY PlainMembers, SmallSeqs, Zenon
<1>2. <<Op("alloc", ""), Op("filter", "")>> \in Seq(PlainA)
  BY PlainMembers, SmallSeqs, Zenon
<1>3. \A s \in {Bins, Libs, Libs32} : mount_files(s, "append") \in Seq(PlainA)
  <2> TAKE s \in {Bins, Libs, Libs32}
  <2>1. Len(s) \in Nat /\ \A i \in 1..Len(s) : Op("file", s[i]) \in PlainA
    BY Zenon, Files, PlainMembers
  <2> QED
    BY Zenon, <2>1, PlainMembers, MountFilesPlan
<1>4. mount_files(<<>>, "append") \in Seq(PlainA)
  <2>1. Len(<<>>) \in Nat
    OBVIOUS
  <2>2. ASSUME NEW i \in 1..Len(<<>>)
        PROVE  Op("file", <<>>[i]) \in PlainA
    OBVIOUS
  <2> QED
    BY <2>1, <2>2, PlainMembers, MountFilesPlan, Zenon
<1>5. OpSeq("control", info_devs) \in Seq(PlainA)
  <2>1. info_devs \in {<<>>, Ctl}
    BY Zenon DEF info_devs, When
  <2>2. Len(info_devs) \in Nat /\ \A i \in 1..Len(info_devs) : Op("control", info_devs[i]) \in PlainA
    <3>1. CASE info_devs = Ctl
      BY Zenon, <3>1, Files, PlainMembers
    <3>2. CASE info_devs = <<>>
      BY <3>2
    <3> QED
      BY Zenon, <2>1, <3>1, <3>2
  <2> QED
    BY Zenon, <2>2, OpSeqPlan
<1> DEFINE a == When(Bins # <<>>, mount_files(Bins, "append"))
           b == When(Libs # <<>>, mount_files(Libs, "append"))
           c == When("compat32" \in opt /\ Libs32 # <<>>, mount_files(Libs32, "append"))
           d == When(cnt_libs # <<>>, <<Op("alloc", ""), Op("filter", "")>> \o mount_files(<<>>, "append"))
<1>6. a \in Seq(PlainA) /\ b \in Seq(PlainA) /\ c \in Seq(PlainA)
  BY <1>3 DEF When
<1>7. d \in Seq(PlainA)
  BY <1>2, <1>4, SmallSeqs, Zenon DEF When
<1>8. DriverPlan = <<Op("alloc", "")>> \o a \o b \o c \o <<Op("links", "")>> \o d \o OpSeq("control", info_devs)
  BY Zenon DEF DriverPlan
<1> HIDE DEF a, b, c, d
<1> QED
  BY <1>1, <1>5, <1>6, <1>7, <1>8, SmallSeqs, Zenon

(* nvc_device_mount: a GPU is allowed and gets into the profile after it   *)
(* is mounted.                                                             *)
LEMMA DevicePlanSound ==
  ASSUME NEW g \in Gpus
  PROVE  DevicePlan(g) \in Seq(ForgettingOps) /\ Sound(DevicePlan(g), {}, {})
<1>1. CASE "dxcore" \in opt
  <2>1. OpSeq("store", DriverStore) \in Seq(PlainF)
    <3>1. Len(DriverStore) \in Nat /\ \A i \in 1..Len(DriverStore) : Op("store", DriverStore[i]) \in PlainF
      BY Zenon, Files, PlainMembers
    <3> QED
      BY Zenon, <3>1, OpSeqPlan
  <2>2. mount_driverstore_files \in Seq(PlainF)
    BY <2>1, PlainMembers, SmallSeqs, Zenon DEF mount_driverstore_files
  <2> QED
    BY Zenon, <1>1, <2>2, PlainSeq DEF DevicePlan
<1>2. CASE "dxcore" \notin opt
  <2> DEFINE p1 == <<Op("search", "")>>
             p2 == When(Devbind, <<Op("device", g)>>)
             p3 == <<Op("config", LdConfig)>>
             p4 == When("graphics" \in opt, <<Op("profile", g)>>)
             p5 == When("utility" \in opt, <<Op("config_unrecorded", Smi)>>)
             p6 == When(opt \cap {"video", "graphics"} # {}, mount_files(Dri, "forget"))
             p7 == When(Cgroups, <<Op("cgroup", g)>>)
  <2>1. DevicePlan(g) = p1 \o p2 \o p3 \o p4 \o p5 \o p6 \o p7
    BY Zenon, <1>2 DEF DevicePlan, device_mount_native
  <2>2. mount_files(Dri, "forget") \in Seq(PlainF)
    <3>1. Len(Dri) \in Nat /\ \A i \in 1..Len(Dri) : Op("file", Dri[i]) \in PlainF
      BY Zenon, Files, PlainMembers
    <3> QED
      BY Zenon, <3>1, PlainMembers, MountFilesPlan
  <2>3. g \in DeviceNodes
    BY Zenon, Paths
  <2>4. p1 \in Seq(PlainF) /\ p3 \in Seq(PlainF) /\ p4 \in Seq(PlainF) /\ p5 \in Seq(PlainF)
        /\ p6 \in Seq(PlainF) /\ p7 \in Seq(PlainF)
    BY <2>2, <2>3, PlainMembers, SmallSeqs, Zenon DEF When
  <2>5. "graphics" \in opt => Has(p4, "profile", g)
    <3>1. ASSUME NEW x
          PROVE  <<x>>[1] = x /\ Len(<<x>>) = 1
      OBVIOUS
    <3> QED
      BY <3>1 DEF Has, When
  <2>6. Cgroups => Has(p7, "cgroup", g)
    <3>1. ASSUME NEW x
          PROVE  <<x>>[1] = x /\ Len(<<x>>) = 1
      OBVIOUS
    <3> QED
      BY <3>1 DEF Has, When
  <2>7. p2 \in Seq(ForgettingOps) /\ Sound(p2, {g}, {g})
    <3> DEFINE x == Op("device", g)
    <3>1. x \in ForgettingOps /\ x.path = g
      BY Zenon DEF x, Op, ForgettingOps, SharedOps
    <3>2. p2 \in {<<x>>, <<>>}
      BY Zenon DEF When, x
    <3> HIDE DEF p2, x
    <3>3. p2 \in Seq(ForgettingOps)
      BY <3>1, <3>2, SmallSeqs, Zenon
    <3>4. \A i \in 1..Len(p2) : p2[i].path = g
      BY <3>1, <3>2
    <3> QED
      BY Zenon, <3>3, <3>4 DEF Sound
  <2> HIDE DEF p1, p2, p3, p4, p5, p6, p7
  <2>8. \A A, P : /\ p1 \in Seq(ForgettingOps) /\ Sound(p1, A, P)
                  /\ p3 \in Seq(ForgettingOps) /\ Sound(p3, A, P)
                  /\ p4 \in Seq(ForgettingOps) /\ Sound(p4, A, P)
                  /\ p5 \in Seq(ForgettingOps) /\ Sound(p5, A, P)
                  /\ p6 \in Seq(ForgettingOps) /\ Sound(p6, A, P)
                  /\ p7 \in Seq(ForgettingOps) /\ Sound(p7, A, P)
    BY Zenon, <2>4, PlainSeq
  <2>9. p1 \o p2 \in Seq(ForgettingOps) /\ Sound(p1 \o p2, {g}, {g})
    BY <2>7, <2>8, ConcatSound, Zenon
  <2> DEFINE q2 == p1 \o p2
             q3 == q2 \o p3
             q4 == q3 \o p4
             q5 == q4 \o p5
             q6 == q5 \o p6
  <2> HIDE DEF q2
  <2>10. q3 \in Seq(ForgettingOps) /\ Sound(q3, {g}, {g})
    BY <2>8, <2>9, ConcatSound, Zenon DEF q2
  <2> HIDE DEF q3
  <2>11. q4 \in Seq(ForgettingOps) /\ Sound(q4, {g}, {})
    BY <2>5, <2>8, <2>10, ConcatSound, Zenon
  <2> HIDE DEF q4
  <2>12. q5 \in Seq(ForgettingOps) /\ Sound(q5, {g}, {})
    BY <2>8, <2>11, ConcatSound, Zenon
  <2> HIDE DEF q5
  <2>13. q6 \in Seq(ForgettingOps) /\ Sound(q6, {g}, {})
    BY <2>8, <2>12, ConcatSound, Zenon
  <2> HIDE DEF q6
  <2>14. q6 \o p7 \in Seq(ForgettingOps) /\ Sound(q6 \o p7, {}, {})
    BY <2>6, <2>8, <2>13, ConcatSound, Zenon
  <2> QED
    BY Zenon, <2>1, <2>14 DEF q2, q3, q4, q5, q6
<1> QED
  BY Zenon, <1>1, <1>2

(* cap_device_mount, with a device that is allowed in the same part.       *)
LEMMA CapPlanSound ==
  ASSUME NEW p \in DOMAIN CapOf
  PROVE  cap_device_mount(p) \in Seq(ForgettingOps) /\ Sound(cap_device_mount(p), {}, {})
<1> DEFINE d == CapOf[p]
<1>1. d \in CapNodes /\ d \in DeviceNodes
  BY Zenon, Paths DEF CapNodes
<1> HIDE DEF d
<1> DEFINE p1 == <<Op("capnode", "")>>
           p2 == When(Devbind, <<Op("capdevice", d)>>)
           p3 == When(Cgroups, <<Op("cgroup", d)>>)
           p4 == <<Op("forget", "")>>
<1>2. cap_device_mount(p) = p1 \o p2 \o p3 \o p4
  BY Zenon DEF cap_device_mount, d
<1>3. p1 \in Seq(PlainF) /\ p3 \in Seq(PlainF) /\ p4 \in Seq(PlainF)
  BY <1>1, PlainMembers, SmallSeqs, Zenon DEF When
<1>4. Cgroups => Has(p3, "cgroup", d)
  <2>1. ASSUME NEW x
        PROVE  <<x>>[1] = x /\ Len(<<x>>) = 1
    OBVIOUS
  <2> QED
    BY <2>1 DEF Has, When
<1>5. p2 \in Seq(ForgettingOps) /\ Sound(p2, {d}, {})
  <2> DEFINE x == Op("capdevice", d)
  <2>1. x \in ForgettingOps /\ x.path = d /\ x.op = "capdevice"
    BY Zenon, <1>1 DEF x, Op, ForgettingOps, SharedOps
  <2>2. p2 \in {<<x>>, <<>>}
    BY Zenon DEF When, x
  <2> HIDE DEF p2, x
  <2>3. p2 \in Seq(ForgettingOps)
    BY <2>1, <2>2, SmallSeqs, Zenon
  <2>4. \A i \in 1..Len(p2) : p2[i].path = d /\ p2[i].op = "capdevice"
    BY <2>1, <2>2
  <2> QED
    BY Zenon, <2>3, <2>4 DEF Sound
<1> HIDE DEF p1, p2, p3, p4
<1>6. \A A, P : /\ p1 \in Seq(ForgettingOps) /\ Sound(p1, A, P)
                /\ p3 \in Seq(ForgettingOps) /\ Sound(p3, A, P)
                /\ p4 \in Seq(ForgettingOps) /\ Sound(p4, A, P)
  BY Zenon, <1>3, PlainSeq
<1> DEFINE q2 == p1 \o p2
           q3 == q2 \o p3
<1>7. q2 \in Seq(ForgettingOps) /\ Sound(q2, {d}, {})
  <2>1. p1 \in Seq(ForgettingOps) /\ Sound(p1, {d}, {})
    BY Zenon, <1>6
  <2> QED
    BY Zenon, <1>5, <2>1, ConcatSound
<1> HIDE DEF q2
<1>8. q3 \in Seq(ForgettingOps) /\ Sound(q3, {}, {})
  BY <1>4, <1>6, <1>7, ConcatSound, Zenon
<1> HIDE DEF q3
<1>9. q3 \o p4 \in Seq(ForgettingOps) /\ Sound(q3 \o p4, {}, {})
  BY <1>6, <1>8, ConcatSound, Zenon
<1> QED
  BY Zenon, <1>2, <1>9 DEF q2, q3

(* nvc_mig_device_access_caps_mount: a GPU instance and a compute          *)
(* instance.                                                               *)
LEMMA MigAccessPlanSound ==
  ASSUME NEW d \in Migs
  PROVE  MigAccessPlan(d) \in Seq(ForgettingOps) /\ Sound(MigAccessPlan(d), {}, {})
<1>1. /\ GiOf[d] \in DOMAIN CapOf /\ CiOf[d] \in DOMAIN CapOf
      /\ GiOf[d] \in ProcPaths /\ CiOf[d] \in ProcPaths
  BY Zenon, NvcMountPaths DEF ProcPaths
<1> DEFINE p1 == <<Op("mig", GiOf[d])>>
           p2 == When("nvcaps" \in opt, cap_device_mount(GiOf[d]))
           p3 == <<Op("mig", CiOf[d])>>
           p4 == When("nvcaps" \in opt, cap_device_mount(CiOf[d]))
<1>2. MigAccessPlan(d) = p1 \o p2 \o p3 \o p4
  BY Zenon DEF MigAccessPlan
<1>3. p1 \in Seq(PlainF) /\ p3 \in Seq(PlainF) /\ <<>> \in Seq(PlainF)
  BY <1>1, PlainMembers, SmallSeqs, Zenon
<1>4. /\ p1 \in Seq(ForgettingOps) /\ Sound(p1, {}, {})
      /\ p3 \in Seq(ForgettingOps) /\ Sound(p3, {}, {})
      /\ <<>> \in Seq(ForgettingOps) /\ Sound(<<>>, {}, {})
  BY <1>3, PlainSeq, Zenon
<1>5. /\ p2 \in Seq(ForgettingOps) /\ Sound(p2, {}, {})
      /\ p4 \in Seq(ForgettingOps) /\ Sound(p4, {}, {})
  BY <1>1, <1>4, CapPlanSound, Zenon DEF When
<1> HIDE DEF p1, p2, p3, p4
<1> DEFINE q2 == p1 \o p2
           q3 == q2 \o p3
<1>6. q2 \in Seq(ForgettingOps) /\ Sound(q2, {}, {})
  BY <1>4, <1>5, ConcatSound, Zenon
<1> HIDE DEF q2
<1>7. q3 \in Seq(ForgettingOps) /\ Sound(q3, {}, {})
  BY <1>4, <1>6, ConcatSound, Zenon
<1> HIDE DEF q3
<1>8. q3 \o p4 \in Seq(ForgettingOps) /\ Sound(q3 \o p4, {}, {})
  BY <1>5, <1>7, ConcatSound, Zenon
<1> QED
  BY Zenon, <1>2, <1>8 DEF q2, q3

(* The other entry points mount no device but through their capabilities.  *)
LEMMA MigPlansPlain ==
  /\ \A file \in {"config", "monitor"} : MigGlobalPlan(file) \in Seq(PlainF)
  /\ \A g \in Gpus : MigCapsPlan(g) \in Seq(PlainF)
<1>1. ASSUME NEW file \in {"config", "monitor"}
      PROVE  MigGlobalPlan(file) \in Seq(PlainF)
  <2>1. CapOf[file] \in DeviceNodes /\ CapsProc \in ProcPaths
    BY Zenon, Paths, NvcMountPaths DEF CapNodes, ProcPaths
  <2> QED
    BY <2>1, PlainMembers, SmallSeqs, Zenon DEF MigGlobalPlan, When
<1>2. ASSUME NEW g \in Gpus
      PROVE  MigCapsPlan(g) \in Seq(PlainF)
  <2>1. MinorsOf[g] \in Seq(CapNodes)
    BY Zenon, NvcMountPaths
  <2>2. Len(MinorsOf[g]) \in Nat /\ \A i \in 1..Len(MinorsOf[g]) : MinorsOf[g][i] \in CapNodes
    BY <2>1
  <2>3. OpSeq("cgroup", MinorsOf[g]) \in Seq(PlainF)
    BY Zenon, <2>2, Paths, PlainMembers, OpSeqPlan
  <2> QED
    BY <2>3, PlainMembers, SmallSeqs, Zenon DEF MigCapsPlan, setup_mig_minor_cgroups, When
<1> QED
  BY Zenon, <1>1, <1>2

-----------------------------------------------------------------------------
(* Counting the places of a path in an array. The laws are all that the    *)
(* steps need of cardinalities; NvcMountProofs shows that they hold.       *)
CountLaws ==
  \A p :
    /\ Cardinality(Places(<<>>, p)) = 0
    /\ \A s \in Seq(MountPaths) :
         /\ Cardinality(Places(s, p)) \in Nat
         /\ \A x \in MountPaths : Cardinality(Places(Append(s, x), p)) = Cardinality(Places(s, p)) + One(x, p)
         /\ \A t \in Seq(MountPaths) :
              Cardinality(Places(s \o t, p)) = Cardinality(Places(s, p)) + Cardinality(Places(t, p))

LEMMA PlacesNone ==
  ASSUME CountLaws, NEW p
  PROVE  Cardinality(Places(<<>>, p)) = 0
BY Zenon DEF CountLaws

LEMMA PlacesNat ==
  ASSUME CountLaws, NEW s \in Seq(MountPaths), NEW p
  PROVE  Cardinality(Places(s, p)) \in Nat
BY Zenon DEF CountLaws

LEMMA PlacesAppend ==
  ASSUME CountLaws, NEW s \in Seq(MountPaths), NEW x \in MountPaths, NEW p
  PROVE  Cardinality(Places(Append(s, x), p)) = Cardinality(Places(s, p)) + One(x, p)
BY Zenon DEF CountLaws

LEMMA PlacesConcat ==
  ASSUME CountLaws, NEW s \in Seq(MountPaths), NEW t \in Seq(MountPaths), NEW p
  PROVE  Cardinality(Places(s \o t, p)) = Cardinality(Places(s, p)) + Cardinality(Places(t, p))
BY Zenon DEF CountLaws

LEMMA PlacesCons ==
  ASSUME CountLaws, NEW s \in Seq(MountPaths), NEW x \in MountPaths, NEW p
  PROVE  Cardinality(Places(<<x>> \o s, p)) = Cardinality(Places(s, p)) + One(x, p)
<1>1. Append(<<>>, x) = <<x>> /\ <<>> \in Seq(MountPaths) /\ <<x>> \in Seq(MountPaths)
  OBVIOUS
<1>2. Cardinality(Places(Append(<<>>, x), p)) = Cardinality(Places(<<>>, p)) + One(x, p)
  BY <1>1, PlacesAppend, Zenon
<1>3. Cardinality(Places(<<x>> \o s, p)) = Cardinality(Places(<<x>>, p)) + Cardinality(Places(s, p))
  BY ZenonT(30), <1>1, PlacesConcat
<1>4. /\ Cardinality(Places(<<>>, p)) = 0 /\ Cardinality(Places(s, p)) \in Nat
      /\ One(x, p) \in Nat
  BY Zenon, PlacesNone, PlacesNat, OneValues
<1> QED
  BY <1>1, <1>2, <1>3, <1>4

LEMMA PlacesTail ==
  ASSUME CountLaws, NEW s \in Seq(MountPaths), s # <<>>, NEW p
  PROVE  Cardinality(Places(s, p)) = Cardinality(Places(Tail(s), p)) + One(Head(s), p)
<1>1. Head(s) \in MountPaths /\ Tail(s) \in Seq(MountPaths) /\ s = <<Head(s)>> \o Tail(s)
  OBVIOUS
<1>2. Cardinality(Places(<<Head(s)>> \o Tail(s), p)) = Cardinality(Places(Tail(s), p)) + One(Head(s), p)
  BY <1>1, PlacesCons, Zenon
<1> QED
  BY Zenon, <1>1, <1>2

-----------------------------------------------------------------------------
(* Counts are natural numbers, and so are heights. *)
LEMMA Numbers ==
  ASSUME CountLaws, TypeInv, NEW p \in MountPaths
  PROVE  /\ Count(p) \in Nat /\ Height(p) \in Nat /\ Found(p) \in Nat
         /\ (mounts[p] = <<>> <=> Height(p) = 0)
<1>1. call.group \in Seq(MountPaths) /\ call.kept \in Seq(MountPaths)
  BY Zenon DEF TypeInv, CallType
<1>2. Cardinality(Places(call.group, p)) \in Nat /\ Cardinality(Places(call.kept, p)) \in Nat
  BY Zenon, <1>1, PlacesNat
<1>3. mounts[p] \in Seq(Mount) /\ call.before[p] \in Seq(Mount)
  BY Zenon DEF TypeInv, CallType
<1> QED
  BY <1>2, <1>3 DEF Count, CountOf, Height, Found

(* An operation fails: the plan stays, and the rollback begins.            *)
LEMMA FailKeeps ==
  ASSUME CountLaws, MountInv, Running, Fails, Damage(mounts'),
         UNCHANGED <<opt, ncalls, dead, ret, ns>>,
         node' \in [MountPaths -> {"absent", "empty", "full"}],
         profile' = profile \/ profile'.file \notin {"absent", "valid"}
  PROVE  MountInv'
<1>1. /\ call'.api = call.api /\ call'.plan = call.plan /\ call'.group = call.group
      /\ call'.kept = call.kept /\ call'.before = call.before /\ call'.failed = TRUE
      /\ call' \in CallType
  BY Zenon DEF MountInv, TypeInv, CallType, Fails
<1>2. TypeInv'
  BY Zenon, <1>1 DEF MountInv, TypeInv, Damage
<1>3. ~Idle' /\ ~dead'
  BY Zenon, <1>1 DEF Idle, Running
<1>4. PlanInv'
  <2>1. Allows(call.plan)' /\ Profiles(call.plan)'
    BY <1>1 DEF MountInv, PlanInv, Allows, Profiles, Follows, Cgroups
  <2> QED
    BY Zenon, <1>1, <1>3, <2>1 DEF MountInv, PlanInv
<1>5. \A p : Found(p)' = Found(p) /\ Count(p)' = Count(p) /\ Height(p)' = Len(mounts'[p])
  BY Zenon, <1>1 DEF Found, Count, Height
<1>6. StackInv'
  <2>1. Shape(mounts')
    BY Zenon DEF Damage
  <2> QED
    BY Zenon, <1>1, <1>5, <2>1 DEF MountInv, StackInv, Shape
<1>7. RunningInv'
  BY Zenon, <1>1 DEF RunningInv
<1>8. ASSUME NEW p \in MountPaths
      PROVE  /\ Count(p) \in Nat /\ Found(p) \in Nat
             /\ Len(mounts[p]) \in Nat /\ Len(mounts'[p]) \in Nat
             /\ Found(p) + Count(p) <= Len(mounts[p])
             /\ p \notin Unrecorded => Found(p) + Count(p) = Len(mounts[p])
  <2>1. Len(mounts'[p]) \in Nat
    BY <1>2 DEF TypeInv
  <2> QED
    BY Zenon, <2>1, Numbers DEF MountInv, RunningInv, Running, Height
<1>9. FailedInv'
  <2>1. PICK q \in MountPaths : \A p \in MountPaths : Len(mounts[p]) <= Len(mounts'[p]) + One(p, q)
    BY Zenon DEF Damage
  <2>2. ASSUME NEW p \in MountPaths
        PROVE  (Found(p) + Count(p) <= Height(p) + One(p, q))'
    <3>1. One(p, q) \in Nat /\ Len(mounts[p]) <= Len(mounts'[p]) + One(p, q)
      BY Zenon, <2>1, OneValues
    <3>2. Found(p) + Count(p) <= Len(mounts'[p]) + One(p, q)
      BY SMTT(30), <1>8, <3>1
    <3> QED
      BY Zenon, <1>5, <3>2 DEF One
  <2>3. PICK r \in FilePaths \cup Unrecorded :
          \A p \in MountPaths \ Unrecorded : Len(mounts'[p]) <= Len(mounts[p]) + One(p, r)
    BY Zenon DEF Damage
  <2>4. ASSUME NEW p \in MountPaths \ Unrecorded
        PROVE  (Height(p) <= Found(p) + Count(p) + One(p, r))'
    <3>1. One(p, r) \in Nat /\ Len(mounts'[p]) <= Len(mounts[p]) + One(p, r)
      BY Zenon, <2>3, OneValues
    <3>2. Len(mounts'[p]) <= Found(p) + Count(p) + One(p, r)
      BY Zenon, <1>8, <3>1
    <3> QED
      BY Zenon, <1>5, <3>2 DEF One
  <2> QED
    BY Zenon, <2>2, <2>4 DEF FailedInv
<1>10. UsableInv'
  BY Zenon, <1>1, <1>3 DEF UsableInv
<1>11. ProfileInv'
  <2> SUFFICES ASSUME "graphics" \in opt', profile'.file \in {"absent", "valid"},
                      NEW g \in Gpus, mounts'[g] # <<>>, g \notin profile'.devs
               PROVE  Len(mounts'[g]) <= Count(g)
    BY Zenon, <1>1, <1>3, <1>5 DEF ProfileInv
  <2>1. g \in MountPaths /\ g \notin Unrecorded /\ g \notin FilePaths
    BY Zenon, Paths
  <2>2. Len(mounts'[g]) <= Len(mounts[g])
    <3>1. PICK r \in FilePaths \cup Unrecorded :
            \A p \in MountPaths \ Unrecorded : Len(mounts'[p]) <= Len(mounts[p]) + One(p, r)
      BY Zenon DEF Damage
    <3> QED
      BY <1>8, <2>1, <3>1, OneValues
  <2>3. mounts[g] # <<>>
    BY <1>2, <1>8, <2>1, <2>2 DEF TypeInv
  <2>4. Len(mounts[g]) <= Count(g)
    BY Zenon, <2>3 DEF MountInv, ProfileInv, Height
  <2> QED
    BY <1>8, <2>1, <2>2, <2>4
<1> QED
  BY Zenon, <1>2, <1>4, <1>6, <1>7, <1>9, <1>10, <1>11 DEF MountInv

(* The call goes on with the next operation of its plan. *)
GoesOn ==
  /\ Running /\ call.plan # <<>> /\ UNCHANGED <<opt, ncalls, dead, ret, ns>>
  /\ call' \in CallType /\ call'.plan = Tail(call.plan)
  /\ call'.api = call.api /\ call'.failed = call.failed /\ call'.before = call.before
  /\ call.plan \in Seq(ForgettingOps) /\ call.group \in Seq(Unrecorded) =>
       call'.group \in Seq(Unrecorded)
  /\ node' \in [MountPaths -> {"absent", "empty", "full"}]

(* The rest of the plan is as good as the plan.                            *)
LEMMA GoesOnPlan ==
  ASSUME CountLaws, MountInv, GoesOn
  PROVE  PlanInv' /\ ~Idle' /\ ~dead' /\ ~call'.failed
<1>1. ~Idle' /\ ~dead' /\ ~call'.failed
  BY Zenon DEF GoesOn, Running, Idle
<1>2. call.plan \in Seq(AppendingOps \cup ForgettingOps) /\ call.plan # <<>>
  BY Zenon DEF MountInv, TypeInv, CallType, GoesOn
<1>3. Allows(Tail(call.plan)) /\ Profiles(Tail(call.plan))
  BY Zenon, <1>2, TailPlan DEF MountInv, PlanInv
<1>4. Allows(call.plan)' /\ Profiles(call.plan)'
  BY ZenonT(30), <1>3 DEF GoesOn, Allows, Profiles, Follows, Cgroups
<1>5. \/ call'.plan \in Seq(AppendingOps)
      \/ call'.plan \in Seq(ForgettingOps) /\ call'.group \in Seq(Unrecorded)
  BY <1>2 DEF MountInv, PlanInv, GoesOn
<1> QED
  BY Zenon, <1>1, <1>4, <1>5 DEF PlanInv

(* An operation that mounts nothing. *)
LEMMA AdvanceKeeps ==
  ASSUME CountLaws, MountInv, GoesOn, mounts' = mounts,
         \A p \in MountPaths : /\ CountOf(call'.group, call'.kept, p) <= Count(p)
                               /\ p \notin Unrecorded => CountOf(call'.group, call'.kept, p) = Count(p),
         rules \subseteq rules',
         Head(call.plan).op = "cgroup" => Here \in rules',
         \/ profile' = profile /\ Head(call.plan).op # "profile"
         \/ profile'.devs = profile.devs \cup {Here} /\ profile.file \in {"absent", "valid"}
         \/ profile'.file \notin {"absent", "valid"}
  PROVE  MountInv'
<1>1. PlanInv' /\ ~Idle' /\ ~dead' /\ ~call'.failed
  BY Zenon, GoesOnPlan
<1>2. TypeInv'
  BY Zenon DEF MountInv, TypeInv, GoesOn
<1>3. \A p : Found(p)' = Found(p) /\ Height(p)' = Height(p) /\ Count(p)' = CountOf(call'.group, call'.kept, p)
  BY Zenon DEF Found, Height, Count, CountOf, GoesOn
<1>4. StackInv'
  BY Zenon, <1>3 DEF MountInv, StackInv, Shape, GoesOn
<1>5. ASSUME NEW p \in MountPaths
      PROVE  /\ Count(p)' <= Count(p) /\ (p \notin Unrecorded => Count(p)' = Count(p))
             /\ Count(p)' \in Nat /\ Count(p) \in Nat /\ Found(p) \in Nat /\ Height(p) \in Nat
  <2>1. Count(p)' \in Nat
    BY <1>2, <1>3, PlacesNat DEF TypeInv, CallType, CountOf
  <2> QED
    BY Zenon, <1>3, <2>1, Numbers DEF MountInv
<1>6. RunningInv'
  <2> SUFFICES ASSUME NEW p \in MountPaths
               PROVE  /\ Found(p) <= Height(p)
                      /\ Found(p) + Count(p)' <= Height(p)
                      /\ p \notin Unrecorded => Found(p) + Count(p)' = Height(p)
                      /\ \A i \in (Found(p) + 1)..Height(p) : mounts[p][i].flags
    BY Zenon, <1>3 DEF RunningInv
  <2>1. /\ Found(p) <= Height(p)
        /\ Found(p) + Count(p) <= Height(p)
        /\ p \notin Unrecorded => Found(p) + Count(p) = Height(p)
        /\ \A i \in (Found(p) + 1)..Height(p) : mounts[p][i].flags
    BY Zenon DEF MountInv, RunningInv, GoesOn, Running
  <2> QED
    BY <1>5, <2>1
<1>7. FailedInv'
  BY Zenon, <1>1 DEF FailedInv
<1>8. call.plan \in Seq(AppendingOps \cup ForgettingOps) /\ call.plan # <<>>
  BY Zenon DEF MountInv, TypeInv, CallType, GoesOn
<1>9. UsableInv'
  <2> SUFFICES ASSUME Cgroups, NEW d \in DeviceNodes, Found(d) < Height(d)
               PROVE  d \in rules' \/ Has(Tail(call.plan), "cgroup", d)
    BY Zenon, <1>1, <1>3 DEF UsableInv, Ahead, Cgroups, GoesOn
  <2>1. d \in rules \/ Has(call.plan, "cgroup", d)
    BY Zenon DEF MountInv, UsableInv, GoesOn, Running, Ahead
  <2>2. Head(call.plan) = Op("cgroup", d) => d \in rules'
    BY DEF Op, Here
  <2> QED
    BY Zenon, <1>8, <2>1, <2>2, TailHas
<1>10. ProfileInv'
  <2> SUFFICES ASSUME "graphics" \in opt, profile'.file \in {"absent", "valid"},
                      NEW g \in Gpus, mounts[g] # <<>>, g \notin profile'.devs
               PROVE  Height(g) <= Count(g)' /\ Has(Tail(call.plan), "profile", g)
    BY Zenon, <1>1, <1>3 DEF ProfileInv, Ahead, GoesOn
  <2>1. g \in MountPaths /\ g \notin Unrecorded
    BY Zenon, Paths
  <2>2. profile.file \in {"absent", "valid"} /\ g \notin profile.devs
    OBVIOUS
  <2>3. Height(g) <= Count(g) /\ Has(call.plan, "profile", g)
    BY Zenon, <2>2 DEF MountInv, ProfileInv, GoesOn, Running, Ahead
  <2>4. Head(call.plan) # Op("profile", g)
    BY DEF Op, Here
  <2> QED
    BY Zenon, <1>5, <1>8, <2>1, <2>3, <2>4, TailHas
<1> QED
  BY Zenon, <1>1, <1>2, <1>4, <1>6, <1>7, <1>9, <1>10 DEF MountInv

(* An operation that mounts something, and records it if its path is       *)
(* recorded at all.                                                        *)
MountOps == {"file", "store", "device", "capdevice", "config", "config_unrecorded", "mig", "directory"}

LEMMA MountedKeeps ==
  ASSUME CountLaws, MountInv, GoesOn, mounts' = Pushed(mounts, Here, TRUE), Head(call.plan).op \in MountOps,
         \A p \in MountPaths :
           /\ CountOf(call'.group, call'.kept, p) <= Count(p) + One(Here, p)
           /\ p \notin Unrecorded => CountOf(call'.group, call'.kept, p) = Count(p) + One(Here, p),
         UNCHANGED <<rules, profile>>
  PROVE  MountInv'
<1>1. PlanInv' /\ ~Idle' /\ ~dead' /\ ~call'.failed
  BY Zenon, GoesOnPlan
<1>2. call.plan \in Seq(AppendingOps \cup ForgettingOps) /\ call.plan # <<>>
  BY Zenon DEF MountInv, TypeInv, CallType, GoesOn
<1>3. Head(call.plan) \in AppendingOps \cup ForgettingOps /\ Head(call.plan) = call.plan[1]
      /\ 1 \in 1..Len(call.plan)
  BY <1>2
<1>4. Here \in MountPaths
  BY <1>3, OpPaths, Paths DEF Here, MountOps
<1>5. mounts \in [MountPaths -> Seq(Mount)] /\ ncalls \in Nat /\ Shape(mounts)
  BY Zenon DEF MountInv, TypeInv, StackInv
<1> DEFINE m == [by |-> ncalls, flags |-> TRUE]
<1>a. /\ mounts'[Here] = Append(mounts[Here], m)
      /\ \A p \in MountPaths : p # Here => mounts'[p] = mounts[p]
  BY Zenon, <1>4, <1>5 DEF Pushed
<1>b. m.flags /\ m \in Mount
  BY Zenon, <1>5 DEF Mount
<1> HIDE DEF m
<1>c. /\ mounts[Here] \in Seq(Mount)
      /\ Len(mounts'[Here]) = Len(mounts[Here]) + 1
      /\ \A i \in 1..Len(mounts[Here]) : mounts'[Here][i] = mounts[Here][i]
      /\ mounts'[Here][Len(mounts[Here]) + 1] = m
  <2>1. mounts[Here] \in Seq(Mount)
    BY Zenon, <1>4, <1>5
  <2> DEFINE old == mounts[Here]
  <2> HIDE DEF old
  <2>2. /\ Len(Append(old, m)) = Len(old) + 1
        /\ \A i \in 1..Len(old) : Append(old, m)[i] = old[i]
        /\ Append(old, m)[Len(old) + 1] = m
    BY <1>b, <2>1 DEF old
  <2> QED
    BY Zenon, <1>a, <2>1, <2>2 DEF old
<1>6. TypeInv'
  BY Zenon, <1>4, <1>5, PushedType DEF MountInv, TypeInv, GoesOn
<1>7. \A p : Found(p)' = Found(p) /\ Count(p)' = CountOf(call'.group, call'.kept, p)
  BY Zenon DEF Found, Height, Count, CountOf, GoesOn
<1>8. ASSUME NEW p \in MountPaths
      PROVE  /\ Height(p)' = IF p = Here THEN Height(p) + 1 ELSE Height(p)
             /\ Count(p)' \in Nat /\ Count(p) \in Nat /\ Found(p) \in Nat /\ Height(p) \in Nat
             /\ Found(p) <= Height(p) /\ Found(p) + Count(p) <= Height(p)
             /\ p \notin Unrecorded => Found(p) + Count(p) = Height(p)
             /\ \A i \in (Found(p) + 1)..Height(p) : mounts[p][i].flags
  <2>1. Count(p)' \in Nat
    BY <1>6, <1>7, PlacesNat DEF TypeInv, CallType, CountOf
  <2>2. Height(p)' = IF p = Here THEN Height(p) + 1 ELSE Height(p)
    <3>1. CASE p = Here
      BY Zenon, <1>c, <3>1 DEF Height
    <3>2. CASE p # Here
      BY Zenon, <1>a, <3>2 DEF Height
    <3> QED
      BY Zenon, <3>1, <3>2
  <2>3. Count(p) \in Nat /\ Found(p) \in Nat /\ Height(p) \in Nat
    BY Zenon, Numbers DEF MountInv
  <2>4. /\ Found(p) <= Height(p) /\ Found(p) + Count(p) <= Height(p)
        /\ p \notin Unrecorded => Found(p) + Count(p) = Height(p)
        /\ \A i \in (Found(p) + 1)..Height(p) : mounts[p][i].flags
    BY Zenon DEF MountInv, RunningInv, GoesOn, Running
  <2> QED
    BY Zenon, <2>1, <2>2, <2>3, <2>4
<1>9. StackInv'
  <2>1. Shape(Pushed(mounts, Here, TRUE))
    BY Zenon, <1>4, <1>5, <1>8, PushedShape DEF MountInv, Height
  <2> QED
    BY Zenon, <1>7, <2>1 DEF MountInv, StackInv, Shape, GoesOn
<1>10. RunningInv'
  <2> SUFFICES ASSUME NEW p \in MountPaths
               PROVE  /\ Found(p) <= Height(p)'
                      /\ Found(p) + Count(p)' <= Height(p)'
                      /\ p \notin Unrecorded => Found(p) + Count(p)' = Height(p)'
                      /\ \A i \in (Found(p) + 1)..Height(p)' : mounts'[p][i].flags
    BY Zenon, <1>7 DEF RunningInv
  <2>1. CASE p = Here
    <3>1. Height(p)' = Height(p) + 1
      BY Zenon, <1>8, <2>1
    <3>2. Count(p)' <= Count(p) + 1 /\ (p \notin Unrecorded => Count(p)' = Count(p) + 1)
      BY Zenon, <1>7, <2>1, OneValues
    <3>3. /\ Found(p) <= Height(p)' /\ Found(p) + Count(p)' <= Height(p)'
          /\ p \notin Unrecorded => Found(p) + Count(p)' = Height(p)'
      BY <1>8, <3>1, <3>2
    <3>4. /\ \A i \in 1..Height(p) : mounts'[p][i] = mounts[p][i]
          /\ mounts'[p][Height(p) + 1].flags
      BY Zenon, <1>b, <1>c, <2>1 DEF Height
    <3>5. ASSUME NEW i \in (Found(p) + 1)..Height(p)'
          PROVE  mounts'[p][i].flags
      <4>1. Found(p) \in Nat /\ Height(p) \in Nat /\ i \in (Found(p) + 1)..(Height(p) + 1)
        BY Zenon, <1>8, <3>1
      <4>2. CASE i = Height(p) + 1
        BY Zenon, <3>4, <4>2
      <4>3. CASE i # Height(p) + 1
        <5>1. i \in (Found(p) + 1)..Height(p) /\ i \in 1..Height(p)
          BY <4>1, <4>3
        <5> QED
          BY Zenon, <1>8, <3>4, <5>1
      <4> QED
        BY Zenon, <4>2, <4>3
    <3> QED
      BY Zenon, <3>3, <3>5
  <2>2. CASE p # Here
    <3>1. Height(p)' = Height(p)
      BY Zenon, <1>8, <2>2
    <3>2. Count(p)' <= Count(p) /\ (p \notin Unrecorded => Count(p)' = Count(p))
      BY <1>7, <1>8, <2>2, OneValues
    <3>3. mounts'[p] = mounts[p]
      BY Zenon, <1>a, <2>2
    <3>4. Found(p) + Count(p)' <= Height(p)
      BY <1>8, <3>2
    <3>5. p \notin Unrecorded => Found(p) + Count(p)' = Height(p)
      BY Zenon, <1>8, <3>2
    <3> QED
      BY Zenon, <1>8, <3>1, <3>3, <3>4, <3>5
  <2> QED
    BY Zenon, <2>1, <2>2
<1>11. FailedInv'
  BY Zenon, <1>1 DEF FailedInv
<1>12. UsableInv'
  <2> SUFFICES ASSUME Cgroups, NEW d \in DeviceNodes, Found(d) < Height(d)'
               PROVE  d \in rules \/ Has(Tail(call.plan), "cgroup", d)
    BY Zenon, <1>1, <1>7 DEF UsableInv, Ahead, Cgroups, GoesOn
  <2>0. d \in MountPaths
    BY Zenon, Paths
  <2>1. CASE d = Here
    <3>1. Head(call.plan).op \in {"device", "capdevice"}
      BY <1>3, <2>1, OpPaths, Paths DEF Here, MountOps
    <3>2. Follows(call.plan, 1, "cgroup")
      BY Zenon, <1>3, <3>1 DEF MountInv, PlanInv, Allows
    <3> QED
      BY Zenon, <1>2, <2>1, <3>2, TailHas DEF Here
  <2>2. CASE d # Here
    <3>1. d \in rules \/ Has(call.plan, "cgroup", d)
      BY Zenon, <1>8, <2>0, <2>2 DEF MountInv, UsableInv, GoesOn, Running, Ahead
    <3>2. Head(call.plan) # Op("cgroup", d)
      BY DEF Op, MountOps
    <3> QED
      BY Zenon, <1>2, <3>1, <3>2, TailHas
  <2> QED
    BY Zenon, <2>1, <2>2
<1>13. ProfileInv'
  <2> SUFFICES ASSUME "graphics" \in opt, profile.file \in {"absent", "valid"},
                      NEW g \in Gpus, mounts'[g] # <<>>, g \notin profile.devs
               PROVE  Height(g)' <= Count(g)' /\ Has(Tail(call.plan), "profile", g)
    BY Zenon, <1>1 DEF ProfileInv, Ahead, GoesOn
  <2>0. g \in MountPaths /\ g \notin Unrecorded
    BY Zenon, Paths
  <2>1. mounts[g] # <<>> => Height(g) <= Count(g) /\ Has(call.plan, "profile", g)
    BY Zenon DEF MountInv, ProfileInv, GoesOn, Running, Ahead
  <2>2. CASE g = Here
    <3>1. Head(call.plan).op = "device"
      BY <1>3, <2>2, OpPaths, Paths DEF Here, MountOps
    <3>2. Follows(call.plan, 1, "profile")
      BY Zenon, <1>3, <2>2, <3>1 DEF MountInv, PlanInv, Profiles, Here
    <3>3. Has(Tail(call.plan), "profile", g)
      BY Zenon, <1>2, <2>2, <3>2, TailHas DEF Here
    <3>4. Height(g) <= Count(g)
      BY <1>8, <2>0, <2>1, Numbers DEF MountInv
    <3>5. Count(g)' = Count(g) + 1 /\ Height(g)' = Height(g) + 1
      BY Zenon, <1>7, <1>8, <2>0, <2>2, OneValues
    <3> QED
      BY <1>8, <2>0, <3>3, <3>4, <3>5
  <2>3. CASE g # Here
    <3>1. mounts'[g] = mounts[g]
      BY Zenon, <1>5, <2>0, <2>3 DEF Pushed
    <3>2. Count(g)' = Count(g) /\ Height(g)' = Height(g)
      BY <1>7, <1>8, <2>0, <2>3, OneValues
    <3>3. Head(call.plan) # Op("profile", g)
      BY DEF Op, MountOps
    <3> QED
      BY Zenon, <1>2, <2>1, <3>1, <3>2, <3>3, TailHas
  <2> QED
    BY Zenon, <2>2, <2>3
<1> QED
  BY Zenon, <1>1, <1>6, <1>9, <1>10, <1>11, <1>12, <1>13 DEF MountInv

(* The operation at the head of the plan, with its type.                   *)
LEMMA NextOp ==
  ASSUME CountLaws, MountInv, NEW o, Next_is(o)
  PROVE  /\ Running /\ call.plan # <<>> /\ Head(call.plan).op = o
         /\ call.plan \in Seq(AppendingOps \cup ForgettingOps)
         /\ Head(call.plan) \in AppendingOps \cup ForgettingOps
BY DEF MountInv, TypeInv, CallType, Next_is, Running

(* An operation is done that records nothing.                              *)
LEMMA DoneSame ==
  ASSUME CountLaws, MountInv, Running, call.plan # <<>>, Done(call.group, call.kept),
         UNCHANGED <<opt, ncalls, dead, ret, ns>>, node' \in Nodes
  PROVE  /\ GoesOn
         /\ \A p \in MountPaths : CountOf(call'.group, call'.kept, p) = Count(p) /\ Count(p) \in Nat
<1>1. /\ call' \in CallType /\ call'.plan = Tail(call.plan) /\ call'.api = call.api
      /\ call'.failed = call.failed /\ call'.before = call.before
      /\ call'.group = call.group /\ call'.kept = call.kept
  <2>1. call \in CallType
    BY Zenon DEF MountInv, TypeInv
  <2>2. Tail(call.plan) \in Seq(AppendingOps \cup ForgettingOps)
    BY <2>1 DEF CallType
  <2> QED
    BY Zenon, <2>1, <2>2 DEF CallType, Done
<1> QED
  BY Zenon, <1>1, Numbers DEF GoesOn, Count, Nodes, MountInv

(* The process crashes: mounts may have been added, outside the devices.   *)
LEMMA CrashKeeps ==
  ASSUME CountLaws, MountInv, Running, dead' = TRUE, UNCHANGED <<opt, ns, call, ncalls, ret, profile, rules>>,
         node' \in Nodes, Damage(mounts'),
         \A p \in MountPaths : Len(mounts[p]) <= Len(mounts'[p]),
         \A d \in DeviceNodes : mounts'[d] = mounts[d]
  PROVE  MountInv'
<1>1. TypeInv'
  BY Zenon DEF MountInv, TypeInv, Nodes, Damage
<1>2. PlanInv'
  <2>1. Allows(call.plan)' /\ Profiles(call.plan)'
    BY Zenon DEF MountInv, PlanInv, Allows, Profiles, Follows, Cgroups
  <2> QED
    BY Zenon, <2>1 DEF MountInv, PlanInv, Running, Idle
<1>3. StackInv'
  <2>1. Shape(mounts')
    BY Zenon DEF Damage
  <2> QED
    BY Zenon, <2>1 DEF MountInv, StackInv, Shape, Found
<1>4. RunningInv'
  <2> SUFFICES ASSUME NEW p \in MountPaths
               PROVE  Found(p) <= Len(mounts'[p])
    BY Zenon DEF RunningInv, Height, Found
  <2>1. Found(p) <= Len(mounts[p]) /\ Found(p) \in Nat /\ Len(mounts[p]) \in Nat
    BY Zenon, Numbers DEF MountInv, RunningInv, Running, Height
  <2>2. Len(mounts'[p]) \in Nat
    BY <1>1 DEF TypeInv
  <2> QED
    BY <2>1, <2>2
<1>5. FailedInv'
  BY Zenon DEF FailedInv, Running
<1>6. UsableInv'
  BY Zenon DEF MountInv, UsableInv, Running, Idle, Cgroups, Ahead, Height, Found
<1>7. ProfileInv'
  BY Zenon, Paths DEF MountInv, ProfileInv, Running, Idle, Ahead, Height, Count
<1> QED
  BY Zenon, <1>1, <1>2, <1>3, <1>4, <1>5, <1>6, <1>7 DEF MountInv

(* A step that leaves paths and mounts alone does no damage.               *)
LEMMA Still ==
  ASSUME CountLaws, MountInv, UNCHANGED <<node, mounts>>
  PROVE  /\ node \in Nodes /\ node' \in Nodes /\ Damage(mounts')
         /\ \A p \in MountPaths : Len(mounts[p]) <= Len(mounts'[p])
         /\ \A d \in DeviceNodes : mounts'[d] = mounts[d]
<1>1. Damage(mounts)
  BY Zenon, DamageNone DEF MountInv
<1>2. \A p \in MountPaths : Len(mounts[p]) \in Nat
  BY DEF MountInv, TypeInv
<1>3. Damage(mounts')
  BY Zenon, <1>1
<1> QED
  BY <1>2, <1>3 DEF MountInv, TypeInv, Nodes

(* Steps that change nothing but the plan. *)
LEMMA SkipFileKeeps ==
  ASSUME CountLaws, MountInv, SkipFile
  PROVE  MountInv'
<1>1. Running /\ call.plan # <<>> /\ Head(call.plan).op = "file"
  BY Zenon, NextOp DEF SkipFile
<1>2. Done(call.group, call.kept) /\ UNCHANGED <<opt, ns, node, mounts, profile, rules, ncalls, ret, dead>>
  BY Zenon DEF SkipFile, Others
<1>3. node' \in Nodes
  BY Zenon, <1>2, Still
<1> QED
  BY <1>1, <1>2, <1>3, DoneSame, AdvanceKeeps

LEMMA PrepareKeeps ==
  ASSUME CountLaws, MountInv, Prepare
  PROVE  MountInv'
<1>1. Running /\ call.plan # <<>> /\ Head(call.plan).op \in {"alloc", "dir", "search", "capnode"}
  BY Zenon, NextOp DEF Prepare
<1>2. UNCHANGED <<opt, ns, node, mounts, profile, rules, ncalls, ret, dead>>
  BY Zenon DEF Prepare, Others
<1>3. node' \in Nodes /\ Damage(mounts')
  BY Zenon, <1>2, Still
<1>4. CASE Done(call.group, call.kept)
  BY <1>1, <1>2, <1>3, <1>4, DoneSame, AdvanceKeeps
<1>5. CASE Fails
  BY Zenon, <1>1, <1>2, <1>3, <1>5, FailKeeps DEF Nodes
<1> QED
  BY Zenon, <1>4, <1>5 DEF Prepare

LEMMA OpenMinorsKeeps ==
  ASSUME CountLaws, MountInv, OpenMinors
  PROVE  MountInv'
<1>1. Running /\ call.plan # <<>> /\ Head(call.plan).op = "minors"
  BY Zenon, NextOp DEF OpenMinors
<1>2. UNCHANGED <<opt, ns, node, mounts, profile, rules, ncalls, ret>>
  BY Zenon DEF OpenMinors, Others
<1>3. node' \in Nodes /\ Damage(mounts')
  BY Zenon, <1>2, Still
<1>4. CASE Done(call.group, call.kept) /\ UNCHANGED dead
  BY <1>1, <1>2, <1>3, <1>4, DoneSame, AdvanceKeeps
<1>5. CASE dead' = TRUE /\ UNCHANGED call
  BY Zenon, <1>1, <1>2, <1>3, <1>5, Still, CrashKeeps
<1> QED
  BY Zenon, <1>4, <1>5 DEF OpenMinors

LEMMA FilterKeeps ==
  ASSUME CountLaws, MountInv, filter_libraries
  PROVE  MountInv'
<1>1. Running /\ call.plan # <<>> /\ Head(call.plan).op = "filter"
  BY Zenon, NextOp DEF filter_libraries
<1>2. UNCHANGED <<opt, ns, node, mounts, profile, rules, ncalls, ret>>
  BY Zenon DEF filter_libraries, Others
<1>3. node' \in Nodes /\ Damage(mounts')
  BY <1>2, Still
<1>4. CASE Done(call.group, call.kept) /\ UNCHANGED dead
  BY <1>1, <1>2, <1>3, <1>4, DoneSame, AdvanceKeeps
<1>5. CASE dead' = TRUE /\ UNCHANGED call
  BY Zenon, <1>1, <1>2, <1>3, <1>5, Still, CrashKeeps
<1> QED
  BY Zenon, <1>4, <1>5 DEF filter_libraries

LEMMA SymlinkKeeps ==
  ASSUME CountLaws, MountInv, symlink_libraries
  PROVE  MountInv'
<1>1. Running /\ call.plan # <<>> /\ Head(call.plan).op = "links"
  BY Zenon, NextOp DEF symlink_libraries
<1>2. UNCHANGED <<opt, ns, node, mounts, profile, rules, ncalls, ret, dead>>
  BY Zenon DEF symlink_libraries
<1>3. node' \in Nodes /\ Damage(mounts')
  BY <1>2, Still
<1>4. CASE Done(call.group, call.kept)
  BY <1>1, <1>2, <1>3, <1>4, DoneSame, AdvanceKeeps
<1>5. CASE Fails
  BY Zenon, <1>1, <1>2, <1>3, <1>5, FailKeeps DEF Nodes
<1> QED
  BY Zenon, <1>4, <1>5 DEF symlink_libraries

LEMMA CgroupKeeps ==
  ASSUME CountLaws, MountInv, setup_device_cgroup
  PROVE  MountInv'
<1>1. Running /\ call.plan # <<>> /\ Head(call.plan).op = "cgroup"
  BY Zenon, NextOp DEF setup_device_cgroup
<1>2. UNCHANGED <<opt, ns, node, mounts, profile, ncalls, ret, dead>>
  BY Zenon DEF setup_device_cgroup, Others
<1>3. node' \in Nodes /\ Damage(mounts')
  BY <1>2, Still
<1>4. CASE Done(call.group, call.kept) /\ rules' = rules \cup {Here}
  BY <1>1, <1>2, <1>3, <1>4, DoneSame, AdvanceKeeps
<1>5. CASE Fails
  BY Zenon, <1>1, <1>2, <1>3, <1>5, FailKeeps DEF Nodes
<1> QED
  BY Zenon, <1>4, <1>5 DEF setup_device_cgroup

(* The application profile. What is made of a file that was cut is not     *)
(* taken for a valid one again.                                            *)
LEMMA ProfileKeeps ==
  ASSUME CountLaws, MountInv, update_app_profile
  PROVE  MountInv'
<1>1. Running /\ call.plan # <<>> /\ Head(call.plan).op = "profile"
  BY Zenon, NextOp DEF update_app_profile
<1>2. UNCHANGED <<opt, ns, node, mounts, rules, ncalls, ret>>
  BY Zenon DEF update_app_profile
<1>3. node' \in Nodes /\ Damage(mounts')
  BY Zenon, <1>2, Still
<1>4. CASE UNCHANGED <<profile, dead>> /\ Fails
  BY Zenon, <1>1, <1>2, <1>3, <1>4, FailKeeps DEF Nodes
<1>5. ASSUME NEW devs, ProfileWritten(Here, devs), UNCHANGED dead,
             (profile.file \in {"absent", "valid", "salvaged"} /\ devs = profile.devs) \/ profile.file = "cut"
      PROVE  MountInv'
  <2>1. CASE Done(call.group, call.kept) /\ profile' = [file |-> IF profile.file \in {"cut", "salvaged"} THEN "salvaged" ELSE "valid",
                                                       devs |-> devs \cup {Here}]
    <3>1. \/ profile'.devs = profile.devs \cup {Here} /\ profile.file \in {"absent", "valid"}
          \/ profile'.file \notin {"absent", "valid"}
      BY Zenon, <1>5, <2>1
    <3> QED
      BY <1>1, <1>2, <1>3, <1>5, <2>1, <3>1, DoneSame, AdvanceKeeps
  <2>2. ASSUME NEW f \in {"empty", "cut"}, profile' = [file |-> f, devs |-> {}], Fails
        PROVE  MountInv'
    <3>1. profile'.file \notin {"absent", "valid"}
      BY Zenon, <2>2
    <3> QED
      BY Zenon, <1>1, <1>2, <1>3, <1>5, <2>2, <3>1, FailKeeps DEF Nodes
  <2> QED
    BY Zenon, <1>5, <2>1, <2>2 DEF ProfileWritten
<1>6. CASE dead' = TRUE /\ UNCHANGED <<profile, call>>
  BY Zenon, <1>1, <1>2, <1>3, <1>6, Still, CrashKeeps
<1> QED
  BY Zenon, <1>4, <1>5, <1>6 DEF update_app_profile

(* The end of mount_files and of cap_device_mount: forgetting the local    *)
(* array loses no record of a path that is ever recorded.                  *)
LEMMA HandOverKeeps ==
  ASSUME CountLaws, MountInv, HandOver
  PROVE  MountInv'
<1>1. Running /\ call.plan # <<>> /\ Head(call.plan).op \in {"append", "forget"}
  BY Zenon, NextOp DEF HandOver
<1>2. UNCHANGED <<opt, ns, node, mounts, profile, rules, ncalls, ret, dead>>
  BY Zenon DEF HandOver, Others
<1>3. node' \in Nodes
  BY Zenon, <1>2, Still
<1>4. /\ call \in CallType /\ Tail(call.plan) \in Seq(AppendingOps \cup ForgettingOps)
      /\ call.group \in Seq(MountPaths) /\ call.kept \in Seq(MountPaths)
      /\ call.kept \o call.group \in Seq(MountPaths) /\ <<>> \in Seq(MountPaths) /\ <<>> \in Seq(Unrecorded)
  BY <1>1 DEF MountInv, TypeInv, CallType
<1>5. ASSUME NEW p \in MountPaths
      PROVE  /\ Cardinality(Places(call.group, p)) \in Nat /\ Cardinality(Places(call.kept, p)) \in Nat
             /\ Cardinality(Places(<<>>, p)) = 0
             /\ Count(p) = Cardinality(Places(call.group, p)) + Cardinality(Places(call.kept, p))
  BY Zenon, <1>4, PlacesNone, PlacesNat DEF Count, CountOf
<1>6. CASE Next_is("append") /\ Done(<<>>, call.kept \o call.group)
  <2>1. /\ GoesOn /\ call'.group = <<>> /\ call'.kept = call.kept \o call.group
    BY Zenon, <1>1, <1>2, <1>3, <1>4, <1>6 DEF Done, CallType, GoesOn, Nodes
  <2>2. ASSUME NEW p \in MountPaths
        PROVE  CountOf(call'.group, call'.kept, p) = Count(p) /\ Count(p) \in Nat
    <3>1. Cardinality(Places(call.kept \o call.group, p))
            = Cardinality(Places(call.kept, p)) + Cardinality(Places(call.group, p))
      BY <1>4, PlacesConcat
    <3> QED
      BY <1>5, <2>1, <3>1 DEF CountOf
  <2>3. Head(call.plan).op = "append"
    BY Zenon, <1>6, NextOp
  <2> QED
    BY <1>2, <2>1, <2>2, <2>3, AdvanceKeeps
<1>7. CASE Next_is("forget") /\ Done(<<>>, call.kept)
  <2>1. /\ GoesOn /\ call'.group = <<>> /\ call'.kept = call.kept
    BY Zenon, <1>1, <1>2, <1>3, <1>4, <1>7 DEF Done, CallType, GoesOn, Nodes
  <2>2. Head(call.plan).op = "forget"
    BY Zenon, <1>7, NextOp
  <2>3. call.group \in Seq(Unrecorded)
    <3>1. Head(call.plan) \notin AppendingOps
      BY Zenon, <2>2 DEF AppendingOps, SharedOps
    <3>2. call.plan \notin Seq(AppendingOps)
      BY <1>1, <3>1
    <3> QED
      BY Zenon, <3>2 DEF MountInv, PlanInv
  <2>4. ASSUME NEW p \in MountPaths
        PROVE  /\ CountOf(call'.group, call'.kept, p) <= Count(p)
               /\ p \notin Unrecorded => CountOf(call'.group, call'.kept, p) = Count(p)
    <3>1. CountOf(call'.group, call'.kept, p) = Cardinality(Places(call.kept, p))
      BY <1>5, <2>1 DEF CountOf
    <3>2. ASSUME p \notin Unrecorded
          PROVE  Cardinality(Places(call.group, p)) = 0
      <4>1. Places(call.group, p) = {} /\ Places(<<>>, p) = {}
        BY <2>3, <3>2 DEF Places
      <4> QED
        BY Zenon, <4>1, PlacesNone
    <3> QED
      BY <1>5, <3>1, <3>2
  <2> QED
    BY Zenon, <1>2, <2>1, <2>2, <2>4, AdvanceKeeps
<1> QED
  BY Zenon, <1>6, <1>7 DEF HandOver

-----------------------------------------------------------------------------
(* The operations that mount something. *)
LEMMA SucceedsKeeps ==
  ASSUME CountLaws, MountInv, Running, call.plan # <<>>, Head(call.plan).op \in MountOps,
         NEW group \in Seq(MountPaths), NEW kept \in Seq(MountPaths), Succeeds(group, kept),
         call.plan \in Seq(ForgettingOps) /\ call.group \in Seq(Unrecorded) => group \in Seq(Unrecorded),
         \A p \in MountPaths :
           /\ CountOf(group, kept, p) <= Count(p) + One(Here, p)
           /\ p \notin Unrecorded => CountOf(group, kept, p) = Count(p) + One(Here, p)
  PROVE  MountInv'
<1>1. call \in CallType /\ Tail(call.plan) \in Seq(AppendingOps \cup ForgettingOps) /\ node \in Nodes
  BY SMTT(30) DEF MountInv, TypeInv, CallType, Nodes
<1>2. node' \in Nodes
  BY Zenon, <1>1, NodeTypes DEF Succeeds
<1>3. UNCHANGED <<opt, ns, profile, rules, ncalls, ret, dead>> /\ mounts' = Pushed(mounts, Here, TRUE)
  BY Zenon DEF Succeeds, Others
<1>4. GoesOn /\ call'.group = group /\ call'.kept = kept
  BY Zenon, <1>1, <1>2, <1>3 DEF Succeeds, Done, CallType, GoesOn, Nodes
<1> QED
  BY Zenon, <1>3, <1>4, MountedKeeps

(* Wherever a path is recorded, its count grows by one.                    *)
LEMMA RecordCounts ==
  ASSUME CountLaws, MountInv, Here \in MountPaths, NEW p \in MountPaths
  PROVE  /\ CountOf(Append(call.group, Here), call.kept, p) = Count(p) + One(Here, p)
         /\ CountOf(call.group, Append(call.kept, Here), p) = Count(p) + One(Here, p)
         /\ CountOf(call.group, <<Here>> \o call.kept, p) = Count(p) + One(Here, p)
         /\ Count(p) \in Nat /\ One(Here, p) \in Nat
<1>1. call.group \in Seq(MountPaths) /\ call.kept \in Seq(MountPaths)
  BY Zenon DEF MountInv, TypeInv, CallType
<1>2. One(Here, p) \in Nat
  BY Zenon, OneValues
<1>3. /\ Cardinality(Places(Append(call.group, Here), p)) = Cardinality(Places(call.group, p)) + One(Here, p)
      /\ Cardinality(Places(Append(call.kept, Here), p)) = Cardinality(Places(call.kept, p)) + One(Here, p)
  BY Zenon, <1>1, PlacesAppend
<1>4. Cardinality(Places(<<Here>> \o call.kept, p)) = Cardinality(Places(call.kept, p)) + One(Here, p)
  BY Zenon, <1>1, PlacesCons
<1>5. Cardinality(Places(call.group, p)) \in Nat /\ Cardinality(Places(call.kept, p)) \in Nat
  BY Zenon, <1>1, PlacesNat
<1> QED
  BY <1>2, <1>3, <1>4, <1>5 DEF Count, CountOf

(* mount_files: the array grows last, so that a failure before it leaves a *)
(* mount that nothing records.                                             *)
LEMMA MountFileKeeps ==
  ASSUME CountLaws, MountInv, MountFile
  PROVE  MountInv'
<1>1. /\ Running /\ call.plan # <<>> /\ Head(call.plan).op \in {"file", "store"}
      /\ Head(call.plan) \in AppendingOps \cup ForgettingOps
  BY Zenon, NextOp DEF MountFile
<1>2. Here \in FilePaths /\ Here \in MountPaths
  BY Zenon, <1>1, OpPaths, Paths DEF Here
<1>3. CASE Succeeds(Append(call.group, Here), call.kept)
  <2>1. call.group \in Seq(MountPaths) /\ call.kept \in Seq(MountPaths)
    BY Zenon DEF MountInv, TypeInv, CallType
  <2>2. Append(call.group, Here) \in Seq(MountPaths)
    BY <1>2, <2>1
  <2>3. ASSUME call.plan \in Seq(ForgettingOps), call.group \in Seq(Unrecorded)
        PROVE  Append(call.group, Here) \in Seq(Unrecorded)
    <3>1. Head(call.plan) \in ForgettingOps
      BY <1>1, <2>3
    <3>2. Here \in Unrecorded
      BY Zenon, <1>1, <3>1 DEF ForgettingOps, SharedOps, Here
    <3> QED
      BY <2>3, <3>2
  <2>4. \A p \in MountPaths : CountOf(Append(call.group, Here), call.kept, p) = Count(p) + One(Here, p)
                              /\ Count(p) \in Nat /\ One(Here, p) \in Nat
    BY Zenon, <1>2, RecordCounts
  <2>5. \A p \in MountPaths :
          /\ CountOf(Append(call.group, Here), call.kept, p) <= Count(p) + One(Here, p)
          /\ p \notin Unrecorded => CountOf(Append(call.group, Here), call.kept, p) = Count(p) + One(Here, p)
    BY <2>4
  <2>6. Head(call.plan).op \in MountOps
    BY Zenon, <1>1 DEF MountOps
  <2> QED
    BY <1>1, <1>3, <2>1, <2>2, <2>3, <2>5, <2>6, SucceedsKeeps, Zenon
<1>4. CASE /\ Fails
           /\ \/ UNCHANGED <<node, mounts>>
              \/ node' = Created(node, Here) /\ UNCHANGED mounts
              \/ \E flags \in BOOLEAN :
                   node' = Created(node, Here) /\ mounts' = Pushed(mounts, Here, flags)
           /\ UNCHANGED <<rules, dead>> /\ Others
  <2>1. node \in Nodes
    BY Zenon DEF MountInv, TypeInv, Nodes
  <2>2. node' \in Nodes
    BY Zenon, <1>4, <2>1, NodeTypes
  <2>3. Damage(mounts')
    <3>1. Damage(mounts)
      BY Zenon, DamageNone DEF MountInv
    <3>2. \A flags \in BOOLEAN : Damage(Pushed(mounts, Here, flags))
      BY Zenon, <1>1, <1>2, DamagePush DEF MountInv
    <3> QED
      BY Zenon, <1>4, <3>1, <3>2
  <2> QED
    BY Zenon, <1>1, <1>4, <2>2, <2>3, FailKeeps DEF Nodes, Others
<1> QED
  BY Zenon, <1>3, <1>4 DEF MountFile

(* A failure that unmounts the path of the operation. *)
LEMMA UndoneKeeps ==
  ASSUME CountLaws, MountInv, Running, Here \in MountPaths, DeviceFails \/ ConfigFails
  PROVE  MountInv'
<1>1. Fails /\ UNCHANGED <<opt, ns, profile, rules, ncalls, ret, dead>>
  BY Zenon DEF DeviceFails, ConfigFails, Others
<1>2. node \in Nodes /\ Created(node, Here) \in Nodes
  BY Zenon, NodeTypes DEF MountInv, TypeInv, Nodes
<1>3. node' \in Nodes
  BY Zenon, <1>2, NodeTypes DEF DeviceFails, ConfigFails, Unmounts
<1>4. \/ mounts' = mounts
      \/ mounts' = Popped(mounts, Here)
      \/ mounts' = Popped(Pushed(mounts, Here, TRUE), Here)
  BY Zenon DEF DeviceFails, ConfigFails, Unmounts
<1>5. Damage(mounts')
  <2>1. Damage(mounts) /\ Damage(Popped(mounts, Here))
    BY Zenon, DamageNone, DamagePop DEF MountInv
  <2>2. Damage(Popped(Pushed(mounts, Here, TRUE), Here))
    BY Zenon, DamagePushPop DEF MountInv
  <2> QED
    BY Zenon, <1>4, <2>1, <2>2
<1> QED
  BY Zenon, <1>1, <1>3, <1>5, FailKeeps DEF Nodes

(* A mount that is recorded in one of three ways, or whose path is never   *)
(* recorded.                                                               *)
LEMMA RecordedKeeps ==
  ASSUME CountLaws, MountInv, Running, call.plan # <<>>, Head(call.plan).op \in MountOps, Here \in MountPaths,
         \/ Succeeds(call.group, Append(call.kept, Here))
         \/ Succeeds(call.group, <<Here>> \o call.kept)
         \/ Here \in Unrecorded /\ Succeeds(call.group, call.kept)
         \/ Here \in Unrecorded /\ Succeeds(Append(call.group, Here), call.kept)
  PROVE  MountInv'
<1>1. call.group \in Seq(MountPaths) /\ call.kept \in Seq(MountPaths)
  BY Zenon DEF MountInv, TypeInv, CallType
<1>2. /\ Append(call.group, Here) \in Seq(MountPaths) /\ Append(call.kept, Here) \in Seq(MountPaths)
      /\ <<Here>> \o call.kept \in Seq(MountPaths)
      /\ Here \in Unrecorded /\ call.group \in Seq(Unrecorded) => Append(call.group, Here) \in Seq(Unrecorded)
  BY <1>1
<1>3. ASSUME NEW p \in MountPaths
      PROVE  /\ CountOf(Append(call.group, Here), call.kept, p) = Count(p) + One(Here, p)
             /\ CountOf(call.group, Append(call.kept, Here), p) = Count(p) + One(Here, p)
             /\ CountOf(call.group, <<Here>> \o call.kept, p) = Count(p) + One(Here, p)
             /\ CountOf(call.group, call.kept, p) = Count(p)
             /\ Count(p) \in Nat /\ One(Here, p) \in Nat
  BY Zenon, RecordCounts DEF Count
<1>4. CASE Succeeds(call.group, Append(call.kept, Here))
  <2>1. \A p \in MountPaths :
          /\ CountOf(call.group, Append(call.kept, Here), p) <= Count(p) + One(Here, p)
          /\ p \notin Unrecorded => CountOf(call.group, Append(call.kept, Here), p) = Count(p) + One(Here, p)
    BY <1>3
  <2> QED
    BY <1>1, <1>2, <1>4, <2>1, SucceedsKeeps, Zenon
<1>5. CASE Succeeds(call.group, <<Here>> \o call.kept)
  <2>1. \A p \in MountPaths :
          /\ CountOf(call.group, <<Here>> \o call.kept, p) <= Count(p) + One(Here, p)
          /\ p \notin Unrecorded => CountOf(call.group, <<Here>> \o call.kept, p) = Count(p) + One(Here, p)
    BY <1>3
  <2> QED
    BY <1>1, <1>2, <1>5, <2>1, SucceedsKeeps, Zenon
<1>6. CASE Here \in Unrecorded /\ Succeeds(call.group, call.kept)
  <2>1. \A p \in MountPaths :
          /\ CountOf(call.group, call.kept, p) <= Count(p) + One(Here, p)
          /\ p \notin Unrecorded => CountOf(call.group, call.kept, p) = Count(p) + One(Here, p)
    BY <1>3, <1>6, OneValues
  <2> QED
    BY <1>1, <1>6, <2>1, SucceedsKeeps, Zenon
<1>7. CASE Here \in Unrecorded /\ Succeeds(Append(call.group, Here), call.kept)
  <2>1. \A p \in MountPaths :
          /\ CountOf(Append(call.group, Here), call.kept, p) <= Count(p) + One(Here, p)
          /\ p \notin Unrecorded => CountOf(Append(call.group, Here), call.kept, p) = Count(p) + One(Here, p)
    BY <1>3
  <2> QED
    BY <1>1, <1>2, <1>7, <2>1, SucceedsKeeps, Zenon
<1> QED
  BY Zenon, <1>4, <1>5, <1>6, <1>7

LEMMA MountDeviceKeeps ==
  ASSUME CountLaws, MountInv, mount_device
  PROVE  MountInv'
<1>1. /\ Running /\ call.plan # <<>> /\ Head(call.plan) \in AppendingOps \cup ForgettingOps
      /\ Head(call.plan).op \in MountOps
      /\ \/ Head(call.plan).op = "device" /\ Succeeds(call.group, Append(call.kept, Here))
         \/ Head(call.plan).op = "capdevice" /\ Succeeds(Append(call.group, Here), call.kept)
         \/ Head(call.plan).op \in {"device", "capdevice"} /\ DeviceFails
  BY Zenon, NextOp DEF mount_device, MountOps
<1>2. Here \in MountPaths /\ (Head(call.plan).op = "capdevice" => Here \in Unrecorded)
  BY Zenon, <1>1, OpPaths, Paths DEF Here
<1> QED
  BY Zenon, <1>1, <1>2, RecordedKeeps, UndoneKeeps

LEMMA MountConfigKeeps ==
  ASSUME CountLaws, MountInv, mount_config_file
  PROVE  MountInv'
<1>1. /\ Running /\ call.plan # <<>> /\ Head(call.plan) \in AppendingOps \cup ForgettingOps
      /\ Head(call.plan).op \in MountOps
      /\ \/ Head(call.plan).op = "config" /\ Succeeds(call.group, <<Here>> \o call.kept)
         \/ Head(call.plan).op = "config_unrecorded" /\ Succeeds(call.group, call.kept)
         \/ Head(call.plan).op \in {"config", "config_unrecorded"} /\ ConfigFails
  BY Zenon, NextOp DEF mount_config_file, MountOps
<1>2. Here \in MountPaths /\ (Head(call.plan).op = "config_unrecorded" => Here \in Unrecorded)
  BY Zenon, <1>1, OpPaths, Paths DEF Here
<1> QED
  BY Zenon, <1>1, <1>2, RecordedKeeps, UndoneKeeps

LEMMA MountMigKeeps ==
  ASSUME CountLaws, MountInv, mount_procfs_mig
  PROVE  MountInv'
<1>1. /\ Running /\ call.plan # <<>> /\ Head(call.plan) \in AppendingOps \cup ForgettingOps
      /\ Head(call.plan).op \in MountOps /\ Head(call.plan).op = "mig"
      /\ Succeeds(call.group, Append(call.kept, Here)) \/ ConfigFails
  BY Zenon, NextOp DEF mount_procfs_mig, MountOps
<1>2. Here \in MountPaths
  BY Zenon, <1>1, OpPaths, Paths DEF Here
<1> QED
  BY Zenon, <1>1, <1>2, RecordedKeeps, UndoneKeeps

(* mount_directory unmounts a path it did not choose, or crashes.          *)
LEMMA MountDirectoryKeeps ==
  ASSUME CountLaws, MountInv, mount_directory
  PROVE  MountInv'
<1>1. /\ Running /\ call.plan # <<>> /\ Head(call.plan) \in AppendingOps \cup ForgettingOps
      /\ Head(call.plan).op \in MountOps /\ Head(call.plan).op = "directory"
  BY Zenon, NextOp DEF mount_directory, MountOps
<1>2. Here \in MountPaths /\ Here \in Unrecorded /\ Here \notin DeviceNodes
  BY Zenon, <1>1, OpPaths, Paths DEF Here
<1>3. CASE Succeeds(call.group, call.kept)
  BY Zenon, <1>1, <1>2, <1>3, RecordedKeeps
<1>4. ASSUME NEW ms \in {mounts, Pushed(mounts, Here, FALSE), Pushed(mounts, Here, TRUE)},
             NEW nd \in {node, Created(node, Here)}, UNCHANGED rules, Others,
             \/ mounts' = ms /\ node' = nd /\ Fails /\ UNCHANGED dead
             \/ \E p \in MountPaths : Unmounts(ms, nd, p) /\ Fails /\ UNCHANGED dead
             \/ mounts' = ms /\ node' = nd /\ dead' = TRUE /\ UNCHANGED call
      PROVE  MountInv'
  <2>1. nd \in Nodes
    BY Zenon, NodeTypes DEF MountInv, TypeInv, Nodes
  <2>2. node' \in Nodes
    BY Zenon, <1>4, <2>1, NodeTypes DEF Unmounts
  <2>3. Damage(ms)
    BY Zenon, <1>1, <1>2, DamageNone, DamagePush DEF MountInv
  <2>4. \A p \in MountPaths : Damage(Popped(ms, p))
    BY Zenon, <1>1, <1>2, DamagePop, DamagePushPop DEF MountInv
  <2>5. UNCHANGED <<opt, ns, profile, rules, ncalls, ret>>
    BY Zenon, <1>4 DEF Others
  <2>6. CASE mounts' = ms /\ Fails /\ UNCHANGED dead
    BY Zenon, <1>1, <2>2, <2>3, <2>5, <2>6, FailKeeps DEF Nodes
  <2>7. ASSUME NEW p \in MountPaths, mounts' = Popped(ms, p), Fails, UNCHANGED dead
        PROVE  MountInv'
    BY Zenon, <1>1, <2>2, <2>4, <2>5, <2>7, FailKeeps DEF Nodes
  <2>8. CASE mounts' = ms /\ dead' = TRUE /\ UNCHANGED call
    <3>1. mounts \in [MountPaths -> Seq(Mount)]
      BY Zenon DEF MountInv, TypeInv
    <3>2. \A d \in DeviceNodes : ms[d] = mounts[d]
      BY Zenon, <1>2, <3>1, Paths DEF Pushed
    <3>3. ASSUME NEW p \in MountPaths, NEW f
          PROVE  Len(mounts[p]) <= Len(Pushed(mounts, Here, f)[p]) /\ Len(mounts[p]) \in Nat
      <4>1. Len(Pushed(mounts, Here, f)[p]) = IF p = Here THEN Len(mounts[p]) + 1 ELSE Len(mounts[p])
        BY <1>2, <3>1, PushedLen
      <4>2. Len(mounts[p]) \in Nat
        BY <3>1
      <4> QED
        BY <4>1, <4>2
    <3>4. ASSUME NEW p \in MountPaths
          PROVE  Len(mounts[p]) <= Len(ms[p])
      <4>1. CASE ms = mounts
        BY <3>3, <4>1
      <4>2. ASSUME NEW f, ms = Pushed(mounts, Here, f)
            PROVE  Len(mounts[p]) <= Len(ms[p])
        BY Zenon, <3>3, <4>2
      <4> QED
        BY Zenon, <4>1, <4>2
    <3> QED
      BY Zenon, <1>1, <2>2, <2>3, <2>5, <2>8, <3>2, <3>4, CrashKeeps
  <2> QED
    BY Zenon, <1>4, <2>6, <2>7, <2>8 DEF Unmounts
<1>5. ASSUME NEW s \in {<<mounts, node>>, <<mounts, Created(node, Here)>>,
                        <<Pushed(mounts, Here, FALSE), Created(node, Here)>>,
                        <<Pushed(mounts, Here, TRUE), Created(node, Here)>>}
      PROVE  /\ s[1] \in {mounts, Pushed(mounts, Here, FALSE), Pushed(mounts, Here, TRUE)}
             /\ s[2] \in {node, Created(node, Here)}
  <2> DEFINE m1 == Pushed(mounts, Here, FALSE)
             m2 == Pushed(mounts, Here, TRUE)
             n1 == Created(node, Here)
  <2>1. s \in {<<mounts, node>>, <<mounts, n1>>, <<m1, n1>>, <<m2, n1>>}
    BY Zenon, <1>5
  <2> HIDE DEF m1, m2, n1
  <2>2. s[1] \in {mounts, m1, m2} /\ s[2] \in {node, n1}
    BY <2>1
  <2> QED
    BY Zenon, <2>2 DEF m1, m2, n1
<1> QED
  BY <1>3, <1>4, <1>5, Zenon DEF mount_directory

LEMMA ControlDeviceKeeps ==
  ASSUME CountLaws, MountInv, ControlDevice
  PROVE  MountInv'
<1>1. /\ Running /\ call.plan # <<>> /\ Head(call.plan).op = "control"
      /\ call.plan \in Seq(AppendingOps \cup ForgettingOps)
      /\ Head(call.plan) \in AppendingOps \cup ForgettingOps
  BY Zenon, NextOp DEF ControlDevice
<1>2. Here \in Ran(Ctl)
  BY Zenon, <1>1, OpPaths DEF Here
<1>3. UNCHANGED <<opt, ns, node, mounts, profile, rules, ncalls, ret, dead>>
  BY Zenon DEF ControlDevice, Others
<1> DEFINE c == ControlNode(Here)
           t == Tail(call.plan)
           u == c \o t
<1>4. c \in Seq(SharedOps) /\ Sound(c, {}, {})
  BY Zenon, <1>2, ControlNodePlan
<1>5. t \in Seq(AppendingOps \cup ForgettingOps) /\ Sound(t, {}, {})
  BY <1>1, TailPlan, SoundPlan DEF MountInv, PlanInv
<1>6. SharedOps \subseteq AppendingOps /\ SharedOps \subseteq ForgettingOps
  BY Zenon DEF AppendingOps, ForgettingOps
<1>7. /\ call.plan \in Seq(AppendingOps) => u \in Seq(AppendingOps)
      /\ call.plan \in Seq(ForgettingOps) => u \in Seq(ForgettingOps)
  <2> HIDE DEF c
  <2> QED
    BY <1>1, <1>4, <1>6
<1>8. c \in Seq(AppendingOps \cup ForgettingOps)
  <2> HIDE DEF c
  <2> QED
    BY <1>4, <1>6
<1>9. u \in Seq(AppendingOps \cup ForgettingOps) /\ Sound(u, {}, {})
  <2> HIDE DEF c, t
  <2> QED
    BY Zenon, <1>4, <1>5, <1>8, ConcatSound
<1>10. \A o, p : Has(call.plan, o, p) /\ o # "control" => Has(u, o, p)
  <2>1. ASSUME NEW o, NEW p, Has(call.plan, o, p), o # "control"
        PROVE  Has(t, o, p)
    <3>1. Head(call.plan) # Op(o, p)
      BY <1>1, <2>1 DEF Op
    <3> QED
      BY Zenon, <1>1, <2>1, <3>1, TailHas
  <2> HIDE DEF c, t
  <2> QED
    BY Zenon, <1>5, <1>8, <2>1, ConcatHas
<1>11. /\ call'.plan = u /\ call'.api = call.api /\ call'.failed = call.failed
       /\ call'.group = call.group /\ call'.kept = call.kept /\ call'.before = call.before
       /\ call' \in CallType
  <2>1. call \in CallType
    BY Zenon DEF MountInv, TypeInv
  <2>2. call' = [call EXCEPT !.plan = u]
    BY Zenon DEF ControlDevice
  <2> HIDE DEF u
  <2> QED
    BY Zenon, <1>9, <2>1, <2>2 DEF CallType
<1> HIDE DEF u
<1>12. TypeInv'
  BY Zenon, <1>3, <1>11 DEF MountInv, TypeInv
<1>13. PlanInv'
  <2>1. Allows(u) /\ Profiles(u)
    BY Zenon, <1>9, SoundPlan
  <2>2. Allows(call.plan)' /\ Profiles(call.plan)'
    BY Zenon, <1>3, <1>11, <2>1 DEF Allows, Profiles, Follows, Cgroups
  <2>3. ~Idle' /\ ~dead'
    BY Zenon, <1>1, <1>3, <1>11 DEF Running, Idle
  <2> QED
    BY Zenon, <1>7, <1>11, <2>2, <2>3 DEF MountInv, PlanInv
<1>14. \A p : Found(p)' = Found(p) /\ Height(p)' = Height(p) /\ Count(p)' = Count(p)
  BY Zenon, <1>3, <1>11 DEF Found, Height, Count, CountOf
<1>15. StackInv'
  BY Zenon, <1>3, <1>11, <1>14 DEF MountInv, StackInv, Shape
<1>16. RunningInv'
  BY Zenon, <1>3, <1>11, <1>14 DEF MountInv, RunningInv, Idle
<1>17. FailedInv'
  BY Zenon, <1>1, <1>11 DEF FailedInv, Running
<1>18. UsableInv'
  BY Zenon, <1>1, <1>3, <1>10, <1>11, <1>14 DEF MountInv, UsableInv, Idle, Cgroups, Ahead, Running
<1>19. ProfileInv'
  BY Zenon, <1>1, <1>3, <1>10, <1>11, <1>14 DEF MountInv, ProfileInv, Idle, Ahead, Running
<1> QED
  BY Zenon, <1>12, <1>13, <1>15, <1>16, <1>17, <1>18, <1>19 DEF MountInv

-----------------------------------------------------------------------------
(* Undoing a recorded mount keeps the difference between the height and    *)
(* the records; a stack that is empty already had lost that mount.         *)
LEMMA RecordedPlaces ==
  ASSUME CountLaws, MountInv, NEW p \in MountPaths
  PROVE  /\ Recorded \in Seq(MountPaths)
         /\ Cardinality(Places(Recorded, p)) = Count(p)
<1>1. call.group \in Seq(MountPaths) /\ call.kept \in Seq(MountPaths)
  BY Zenon DEF MountInv, TypeInv, CallType
<1> QED
  BY <1>1, PlacesConcat DEF Recorded, Count, CountOf

(* unmount of a recorded path, first to last.                              *)
LEMMA UnmountKeeps ==
  ASSUME CountLaws, MountInv, Unmount
  PROVE  MountInv'
<1>1. ~Idle /\ ~dead /\ call.failed /\ Recorded # <<>>
  BY Zenon DEF Unmount
<1>2. UNCHANGED <<opt, ns, profile, rules, ncalls, ret, dead>>
  BY Zenon DEF Unmount, Others
<1> DEFINE h == Head(Recorded)
<1>3. Recorded \in Seq(MountPaths)
  BY DEF MountInv, TypeInv, CallType, Recorded
<1>4. h \in MountPaths /\ Tail(Recorded) \in Seq(MountPaths)
  BY <1>1, <1>3
<1>5. call \in CallType /\ node \in Nodes /\ mounts \in [MountPaths -> Seq(Mount)]
  BY Zenon DEF MountInv, TypeInv, Nodes
<1>6. /\ call'.plan = call.plan /\ call'.api = call.api /\ call'.failed = TRUE
      /\ call'.group = <<>> /\ call'.kept = Tail(Recorded) /\ call'.before = call.before
      /\ call' \in CallType
  <2> DEFINE t == Tail(Recorded)
  <2>1. call' = [call EXCEPT !.group = <<>>, !.kept = t]
    BY Zenon DEF Unmount
  <2>2. t \in Seq(MountPaths) /\ <<>> \in Seq(MountPaths) /\ call.failed = TRUE
    BY <1>1, <1>4, <1>5 DEF CallType
  <2> HIDE DEF t
  <2>3. /\ call'.plan = call.plan /\ call'.api = call.api /\ call'.failed = TRUE
        /\ call'.group = <<>> /\ call'.kept = t /\ call'.before = call.before
        /\ call' \in CallType
    BY Zenon, <1>5, <2>1, <2>2 DEF CallType
  <2> QED
    BY Zenon, <2>3 DEF t
<1>7. mounts' = Popped(mounts, h) /\ node' \in Nodes
  BY Zenon, <1>5, NodeTypes DEF Unmount, Unmounts
<1> HIDE DEF h
<1>8. /\ mounts' \in [MountPaths -> Seq(Mount)]
      /\ \A p \in MountPaths : Len(mounts'[p]) = IF p = h /\ Len(mounts[p]) > 0 THEN Len(mounts[p]) - 1 ELSE Len(mounts[p])
  BY Zenon, <1>4, <1>5, <1>7, PoppedStacks
<1>9. TypeInv'
  BY Zenon, <1>2, <1>6, <1>7, <1>8 DEF MountInv, TypeInv, Nodes
<1>10. ASSUME NEW p \in MountPaths
       PROVE  /\ Found(p)' = Found(p) /\ Found(p) \in Nat /\ Count(p) \in Nat /\ Count(p)' \in Nat
              /\ Height(p) \in Nat /\ Height(p)' \in Nat
              /\ Count(p) = Count(p)' + One(h, p)
              /\ Height(p)' = IF p = h /\ Height(p) > 0 THEN Height(p) - 1 ELSE Height(p)
  <2>1. Cardinality(Places(Recorded, p)) = Cardinality(Places(Tail(Recorded), p)) + One(h, p)
    BY Zenon, <1>1, <1>3, PlacesTail DEF h
  <2>2. Cardinality(Places(Recorded, p)) = Count(p)
    BY Zenon, RecordedPlaces
  <2>3. Cardinality(Places(Tail(Recorded), p)) \in Nat
    BY Zenon, <1>4, PlacesNat
  <2>4. Count(p)' = Cardinality(Places(Tail(Recorded), p))
    <3>2. Cardinality(Places(<<>>, p)) = 0
      BY Zenon, PlacesNone
    <3>3. Count(p)' = Cardinality(Places(<<>>, p)) + Cardinality(Places(Tail(Recorded), p))
      BY Zenon, <1>6 DEF Count, CountOf, Places
    <3> QED
      BY <2>3, <3>2, <3>3
  <2>5. Found(p)' = Found(p) /\ Found(p) \in Nat /\ Count(p) \in Nat /\ Height(p) \in Nat
    BY Zenon, <1>6, Numbers DEF Found, MountInv
  <2>6. Height(p)' = IF p = h /\ Height(p) > 0 THEN Height(p) - 1 ELSE Height(p)
    BY Zenon, <1>8 DEF Height
  <2>7. Height(p)' \in Nat
    BY <2>5, <2>6
  <2> QED
    BY Zenon, <2>1, <2>2, <2>3, <2>4, <2>5, <2>6, <2>7
<1>11. PlanInv'
  <2>1. Allows(call.plan)' /\ Profiles(call.plan)'
    BY <1>2, <1>6 DEF MountInv, PlanInv, Allows, Profiles, Follows, Cgroups
  <2>2. ~Idle' /\ ~dead'
    BY Zenon, <1>1, <1>2, <1>6 DEF Idle
  <2>3. <<>> \in Seq(Unrecorded)
    OBVIOUS
  <2> QED
    BY ZenonT(30), <1>6, <2>1, <2>2, <2>3 DEF MountInv, PlanInv
<1>12. StackInv'
  <2>1. Shape(mounts')
    BY Zenon, <1>4, <1>5, <1>7, PoppedShape DEF MountInv, StackInv
  <2> QED
    BY Zenon, <1>2, <1>6, <2>1 DEF MountInv, StackInv, Shape, Found
<1>13. RunningInv'
  BY Zenon, <1>6 DEF RunningInv
<1>14. FailedInv'
  <2>1. PICK q \in MountPaths : \A p \in MountPaths : Found(p) + Count(p) <= Height(p) + One(p, q)
    BY Zenon, <1>1 DEF MountInv, FailedInv
  <2>2. ASSUME NEW p \in MountPaths
        PROVE  (Found(p) + Count(p) <= Height(p) + One(p, q))'
    <3>1. Found(p) + Count(p) <= Height(p) + One(p, q) /\ One(p, q) \in {0, 1} /\ One(p, q)' = One(p, q)
      BY Zenon, <2>1 DEF One
    <3>2. CASE p = h
      BY <1>10, <3>1, <3>2, OneValues
    <3>3. CASE p # h
      BY <1>10, <3>1, <3>3, OneValues
    <3> QED
      BY Zenon, <3>2, <3>3
  <2>3. PICK r \in FilePaths \cup Unrecorded :
          \A p \in MountPaths \ Unrecorded : Height(p) <= Found(p) + Count(p) + One(p, r)
    BY Zenon, <1>1 DEF MountInv, FailedInv
  <2>4. ASSUME NEW p \in MountPaths \ Unrecorded
        PROVE  (Height(p) <= Found(p) + Count(p) + One(p, r))'
    <3>1. Height(p) <= Found(p) + Count(p) + One(p, r) /\ One(p, r) \in {0, 1} /\ One(p, r)' = One(p, r)
      BY Zenon, <2>3 DEF One
    <3>2. CASE p = h
      BY <1>10, <3>1, <3>2, OneValues
    <3>3. CASE p # h
      BY <1>10, <3>1, <3>3, OneValues
    <3> QED
      BY Zenon, <3>2, <3>3
  <2> QED
    BY Zenon, <2>2, <2>4 DEF FailedInv
<1>15. UsableInv'
  BY Zenon, <1>1, <1>6 DEF UsableInv, Idle
<1>16. ProfileInv'
  <2> SUFFICES ASSUME "graphics" \in opt, profile.file \in {"absent", "valid"},
                      NEW g \in Gpus, mounts'[g] # <<>>, g \notin profile.devs
               PROVE  Height(g)' <= Count(g)'
    BY Zenon, <1>1, <1>2, <1>6 DEF ProfileInv, Idle
  <2>1. g \in MountPaths
    BY Zenon, Paths
  <2>2. Height(g)' # 0
    BY <1>9, <2>1 DEF Height, TypeInv
  <2>3. Height(g) # 0
    BY <1>10, <2>1, <2>2
  <2>4. mounts[g] # <<>>
    BY Zenon, <2>1, <2>3, Numbers DEF MountInv
  <2>5. Height(g) <= Count(g)
    BY Zenon, <2>4 DEF MountInv, ProfileInv
  <2>6. CASE g = h
    BY SMTT(30), <1>10, <2>1, <2>3, <2>5, <2>6, OneValues
  <2>7. CASE g # h
    BY SMTT(30), <1>10, <2>1, <2>5, <2>7, OneValues
  <2> QED
    BY Zenon, <2>6, <2>7
<1> QED
  BY <1>9, <1>11, <1>12, <1>13, <1>14, <1>15, <1>16 DEF MountInv

(* The call returns: everything was undone, or the plan is done.           *)
LEMMA LeaveKeeps ==
  ASSUME CountLaws, MountInv, Leave
  PROVE  MountInv'
<1>1. ~Idle /\ ~dead
  BY Zenon DEF Leave
<1>2. UNCHANGED <<opt, node, mounts, profile, rules, ncalls, dead>>
  BY Zenon DEF Leave
<1>3. call \in CallType
  BY DEF MountInv, TypeInv
<1>4. /\ call'.plan = call.plan /\ call'.api = "none" /\ call'.failed = call.failed
      /\ call'.group = <<>> /\ call'.kept = <<>> /\ call'.before = call.before
      /\ call' \in CallType
  <2>1. call' = [call EXCEPT !.api = "none", !.group = <<>>, !.kept = <<>>]
    BY Zenon DEF Leave
  <2>2. <<>> \in Seq(MountPaths)
    OBVIOUS
  <2> QED
    BY Zenon, <1>3, <2>1, <2>2 DEF CallType
<1>5. \/ call.failed /\ Recorded = <<>> /\ ret' = -1
      \/ ~call.failed /\ call.plan = <<>> /\ ((ret' = 0 /\ ns' = "host") \/ ret' = -1)
  BY Zenon DEF Leave
<1>6. TypeInv'
  BY Zenon, <1>2, <1>4 DEF MountInv, TypeInv
<1>7. PlanInv'
  <2>1. Allows(call.plan)' /\ Profiles(call.plan)'
    BY SMTT(30), <1>2, <1>4 DEF MountInv, PlanInv, Allows, Profiles, Follows, Cgroups
  <2>2. <<>> \in Seq(Unrecorded)
    OBVIOUS
  <2> QED
    BY ZenonT(30), <1>1, <1>2, <1>4, <2>1, <2>2 DEF MountInv, PlanInv
<1>8. ASSUME NEW p \in MountPaths
      PROVE  /\ Found(p)' = Found(p) /\ Height(p)' = Height(p) /\ Count(p)' = 0
             /\ call.failed => Count(p) = 0
             /\ Found(p) \in Nat /\ Height(p) \in Nat
  <2>2. Cardinality(Places(<<>>, p)) = 0
    BY PlacesNone
  <2>3. Count(p)' = Cardinality(Places(<<>>, p)) + Cardinality(Places(<<>>, p))
    BY Zenon, <1>4 DEF Count, CountOf, Places
  <2>4. call.failed => Count(p) = 0
    BY Zenon, <1>5, <2>2, RecordedPlaces
  <2> QED
    BY <1>2, <1>4, <2>2, <2>3, <2>4, Numbers DEF Found, Height, MountInv
<1>9. StackInv'
  BY Zenon, <1>2, <1>4, <1>8 DEF MountInv, StackInv, Shape
<1>10. RunningInv'
  BY Zenon, <1>4, <1>8 DEF MountInv, RunningInv, Idle
<1>11. FailedInv'
  <2> SUFFICES ASSUME call.failed
               PROVE  FailedInv'
    BY Zenon, <1>4 DEF FailedInv
  <2>1. PICK q \in MountPaths : \A p \in MountPaths : Found(p) + Count(p) <= Height(p) + One(p, q)
    BY Zenon DEF MountInv, FailedInv
  <2>2. ASSUME NEW p \in MountPaths
        PROVE  (Found(p) + Count(p) <= Height(p) + One(p, q))'
    BY Zenon, <1>8, <2>1 DEF One
  <2>3. PICK r \in FilePaths \cup Unrecorded :
          \A p \in MountPaths \ Unrecorded : Height(p) <= Found(p) + Count(p) + One(p, r)
    BY Zenon DEF MountInv, FailedInv
  <2>4. ASSUME NEW p \in MountPaths \ Unrecorded
        PROVE  (Height(p) <= Found(p) + Count(p) + One(p, r))'
    BY Zenon, <1>8, <2>3 DEF One
  <2> QED
    BY Zenon, <2>2, <2>4 DEF FailedInv
<1>12. UsableInv'
  <2>1. Cgroups /\ ~call.failed =>
          \A d \in DeviceNodes : Found(d)' < Height(d)' => d \in rules \/ Ahead("cgroup", d)
    BY Zenon, <1>8, Paths DEF MountInv, UsableInv
  <2> QED
    BY <1>2, <1>4, <1>5, <2>1 DEF UsableInv, Cgroups, Ahead, Has
<1>13. ProfileInv'
  <2> SUFFICES ASSUME "graphics" \in opt, profile.file \in {"absent", "valid"},
                      NEW g \in Gpus, mounts[g] # <<>>, g \notin profile.devs
               PROVE  FALSE
    BY Zenon, <1>2 DEF ProfileInv
  <2>1. g \in MountPaths
    BY Zenon, Paths
  <2>2. Height(g) <= Count(g) /\ (call.failed \/ Has(call.plan, "profile", g))
    BY Zenon DEF MountInv, ProfileInv, Ahead
  <2>3. CASE call.failed
    BY <1>8, <2>1, <2>2, <2>3, Numbers DEF MountInv
  <2>4. CASE ~call.failed
    <3>1. Len(call.plan) = 0
      BY <1>5, <2>4
    <3> QED
      BY <2>2, <2>4, <3>1 DEF Has
  <2> QED
    BY Zenon, <2>3, <2>4
<1> QED
  BY <1>6, <1>7, <1>9, <1>10, <1>11, <1>12, <1>13 DEF MountInv

(* A call begins, or returns at once. *)
LEMMA EnterKeeps ==
  ASSUME CountLaws, MountInv, NEW api \in Apis, NEW plan, Enter(api, plan),
         plan \in Seq(AppendingOps) \/ plan \in Seq(ForgettingOps), Sound(plan, {}, {})
  PROVE  MountInv'
<1>1. Idle /\ ~dead /\ ncalls' = ncalls + 1 /\ UNCHANGED <<opt, node, mounts, links, profile, rules, dead>>
  BY Zenon DEF Enter
<1>2. call \in CallType /\ mounts \in [MountPaths -> Seq(Mount)] /\ ncalls \in Nat
  BY Zenon DEF MountInv, TypeInv
<1>3. call.group = <<>> /\ call.kept = <<>>
  BY Zenon, <1>1 DEF MountInv, PlanInv
<1>4. /\ call'.before = mounts /\ call'.failed = FALSE /\ call'.group = <<>> /\ call'.kept = <<>>
      /\ \/ call'.api = api /\ call'.plan = plan
         \/ call'.api = "none" /\ call'.plan = call.plan /\ ret' = -1
      /\ call' \in CallType
  <2>1. CASE call' = [api |-> api, plan |-> plan, group |-> <<>>, kept |-> <<>>,
                      failed |-> FALSE, before |-> mounts]
    <3>1. plan \in Seq(AppendingOps \cup ForgettingOps)
      OBVIOUS
    <3> QED
      BY <1>2, <2>1, <3>1 DEF CallType
  <2>2. CASE call' = [call EXCEPT !.failed = FALSE, !.before = mounts] /\ ret' = -1
    BY ZenonT(30), <1>1, <1>2, <1>3, <2>2 DEF CallType, Idle
  <2> QED
    BY ZenonT(30), <2>1, <2>2 DEF Enter
<1>5. TypeInv'
  BY <1>1, <1>2, <1>4 DEF MountInv, TypeInv
<1>6. PlanInv'
  <2>1. Allows(plan) /\ Profiles(plan)
    BY Zenon, SoundPlan
  <2>2. Allows(call.plan)' /\ Profiles(call.plan)'
    <3>1. CASE call'.plan = plan
      BY Zenon, <1>1, <2>1, <3>1 DEF Allows, Profiles, Follows, Cgroups
    <3>2. CASE call'.plan = call.plan
      BY Zenon, <1>1, <3>2 DEF MountInv, PlanInv, Allows, Profiles, Follows, Cgroups
    <3> QED
      BY Zenon, <1>4, <3>1, <3>2
  <2>3. <<>> \in Seq(Unrecorded)
    OBVIOUS
  <2> QED
    BY Zenon, <1>1, <1>4, <2>2, <2>3 DEF MountInv, PlanInv
<1>7. ASSUME NEW p \in MountPaths
      PROVE  /\ Found(p)' = Height(p) /\ Height(p)' = Height(p) /\ Count(p)' = 0 /\ Height(p) \in Nat
             /\ mounts'[p] = mounts[p] /\ call'.before[p] = mounts[p]
  <2>2. Cardinality(Places(<<>>, p)) = 0
    BY Zenon, PlacesNone
  <2>3. Count(p)' = Cardinality(Places(<<>>, p)) + Cardinality(Places(<<>>, p))
    BY Zenon, <1>4 DEF Count, CountOf, Places
  <2>4. Count(p)' = 0
    <3> HIDE DEF Count
    <3> QED
      BY <2>2, <2>3
  <2>5. Height(p) \in Nat
    BY Zenon, <1>1, Numbers DEF MountInv
  <2>6. mounts'[p] = mounts[p] /\ call'.before[p] = mounts[p]
    BY Zenon, <1>1, <1>4
  <2> QED
    BY Zenon, <2>4, <2>5, <2>6 DEF Found, Height
<1>8. StackInv'
  <2>1. ASSUME NEW p \in MountPaths, NEW i \in 1..Height(p)
        PROVE  mounts[p][i].by < ncalls'
    <3>1. mounts[p] \in Seq(Mount) /\ Found(p) \in Nat
      BY ZenonT(30), <1>2, Numbers DEF MountInv
    <3>2. (mounts[p][i] = call.before[p][i] /\ i \in 1..Found(p)) \/ mounts[p][i].by = ncalls
      BY <3>1 DEF MountInv, StackInv, Shape, Height
    <3>3. mounts[p][i].by \in Nat
      <4>1. mounts[p][i] \in Mount
        BY <3>1 DEF Height
      <4> QED
        BY Zenon, <4>1 DEF Mount
    <3> QED
      BY <1>1, <1>2, <3>2, <3>3 DEF MountInv, StackInv
  <2>2. Shape(mounts)'
    BY <1>7 DEF Shape, Height
  <2> QED
    BY Zenon, <1>7, <2>1, <2>2 DEF StackInv
<1>9. RunningInv'
  BY <1>7 DEF RunningInv
<1>10. FailedInv'
  BY Zenon, <1>4 DEF FailedInv
<1>11. UsableInv'
  <2>1. \A d \in DeviceNodes : ~(Found(d)' < Height(d)')
    BY <1>7, Paths
  <2> QED
    BY <1>4, <2>1 DEF UsableInv, Idle, Apis
<1>12. ProfileInv'
  BY Zenon, <1>1 DEF MountInv, ProfileInv
<1> QED
  BY Zenon, <1>5, <1>6, <1>8, <1>9, <1>10, <1>11, <1>12 DEF MountInv

(* Each entry point comes with a sound plan.                               *)
LEMMA CallsKeep ==
  ASSUME CountLaws, MountInv, Calls
  PROVE  MountInv'
<1>1. \A file \in {"config", "monitor"} :
        MigGlobalPlan(file) \in Seq(ForgettingOps) /\ Sound(MigGlobalPlan(file), {}, {})
  BY Zenon, MigPlansPlain, PlainSeq
<1>2. \A g \in Gpus : MigCapsPlan(g) \in Seq(ForgettingOps) /\ Sound(MigCapsPlan(g), {}, {})
  BY Zenon, MigPlansPlain, PlainSeq
<1>3. CASE nvc_driver_mount
  <2>1. (DriverPlan \in Seq(AppendingOps) \/ DriverPlan \in Seq(ForgettingOps)) /\ Sound(DriverPlan, {}, {})
    BY Zenon, DriverPlanPlain, PlainSeq
  <2> QED
    BY Zenon, <1>3, <2>1, EnterKeeps DEF nvc_driver_mount, Apis
<1>4. ASSUME NEW g \in Gpus, nvc_device_mount(g)
      PROVE  MountInv'
  BY Zenon, <1>4, DevicePlanSound, EnterKeeps DEF nvc_device_mount, Apis
<1>5. ASSUME NEW g \in Gpus, nvc_device_mig_caps_mount(g)
      PROVE  MountInv'
  BY Zenon, <1>2, <1>5, EnterKeeps DEF nvc_device_mig_caps_mount, Apis
<1>6. ASSUME NEW d \in Migs, nvc_mig_device_access_caps_mount(d)
      PROVE  MountInv'
  BY Zenon, <1>6, MigAccessPlanSound, EnterKeeps DEF nvc_mig_device_access_caps_mount, Apis
<1>7. CASE nvc_mig_config_global_caps_mount
  BY Zenon, <1>1, <1>7, EnterKeeps DEF nvc_mig_config_global_caps_mount, Apis
<1>8. CASE nvc_mig_monitor_global_caps_mount
  BY Zenon, <1>1, <1>8, EnterKeeps DEF nvc_mig_monitor_global_caps_mount, Apis
<1> QED
  BY Zenon, <1>3, <1>4, <1>5, <1>6, <1>7, <1>8 DEF Calls

-----------------------------------------------------------------------------
(* A container to which nothing was mounted yet.                           *)
LEMMA InitMountInv == MountInit => MountInv
<1> SUFFICES ASSUME MountInit
             PROVE  MountInv
  OBVIOUS
<1>1. mounts \in [MountPaths -> Seq(Mount)] /\ \A p \in MountPaths : mounts[p] = <<>>
  <2>1. mounts = [p \in MountPaths |-> <<>>]
    BY Zenon DEF MountInit
  <2>2. <<>> \in Seq(Mount)
    OBVIOUS
  <2> QED
    BY Zenon, <2>1, <2>2
<1>2. /\ call.api = "none" /\ call.plan = <<>> /\ call.group = <<>> /\ call.kept = <<>>
      /\ call.failed = FALSE /\ call.before = mounts /\ call \in CallType
  <2>1. call = [api |-> "none", plan |-> <<>>, group |-> <<>>, kept |-> <<>>,
                failed |-> FALSE, before |-> mounts]
    BY Zenon DEF MountInit
  <2>2. <<>> \in Seq(MountPaths) /\ <<>> \in Seq(AppendingOps \cup ForgettingOps)
    OBVIOUS
  <2> QED
    BY Zenon, <1>1, <2>1, <2>2 DEF CallType
<1>3. TypeInv
  BY ZenonT(30), <1>1, <1>2, NvcMountAssumption DEF MountInit, TypeInv
<1>4. PlanInv
  <2>1. <<>> \in Seq(AppendingOps) /\ Len(<<>>) = 0
    OBVIOUS
  <2> QED
    BY <1>2, <2>1 DEF MountInit, PlanInv, Allows, Profiles
<1>5. \A p \in MountPaths : Height(p) = 0 /\ Found(p) = 0
  BY <1>1, <1>2 DEF Height, Found
<1>6. StackInv
  BY <1>5 DEF StackInv, Shape, Height
<1>7. RunningInv
  BY <1>2, <1>5 DEF RunningInv, Idle
<1>8. FailedInv
  BY Zenon, <1>2 DEF FailedInv
<1>9. UsableInv
  <2>1. \A d \in DeviceNodes : ~(Found(d) < Height(d))
    BY <1>5, Paths
  <2> QED
    BY Zenon, <1>2, <2>1 DEF MountInit, UsableInv
<1>10. ProfileInv
  BY Zenon, <1>1, Paths DEF ProfileInv
<1> QED
  BY Zenon, <1>3, <1>4, <1>6, <1>7, <1>8, <1>9, <1>10 DEF MountInv

(* No step.                                                                *)
LEMMA StutterMountInv ==
  ASSUME CountLaws, MountInv, UNCHANGED vars
  PROVE  MountInv'
<1>1. UNCHANGED <<opt, ns, node, mounts, profile, rules, call, ncalls, ret, dead>>
  BY Zenon DEF vars
<1>2. TypeInv'
  BY Zenon, <1>1 DEF MountInv, TypeInv
<1>3. PlanInv'
  <2>1. Allows(call.plan)' /\ Profiles(call.plan)'
    BY Zenon, <1>1 DEF MountInv, PlanInv, Allows, Profiles, Follows, Cgroups
  <2> QED
    BY Zenon, <1>1, <2>1 DEF MountInv, PlanInv, Idle
<1>4. \A p : Found(p)' = Found(p) /\ Height(p)' = Height(p) /\ Count(p)' = Count(p)
  BY Zenon, <1>1 DEF Found, Height, Count, CountOf
<1>5. StackInv'
  BY Zenon, <1>1, <1>4 DEF MountInv, StackInv, Shape
<1>6. RunningInv'
  BY Zenon, <1>1, <1>4 DEF MountInv, RunningInv, Idle
<1>7. FailedInv'
  BY Zenon, <1>1, <1>4 DEF MountInv, FailedInv, One
<1>8. UsableInv'
  BY Zenon, <1>1, <1>4 DEF MountInv, UsableInv, Idle, Cgroups, Ahead
<1>9. ProfileInv'
  BY Zenon, <1>1, <1>4 DEF MountInv, ProfileInv, Idle, Ahead
<1> QED
  BY Zenon, <1>2, <1>3, <1>5, <1>6, <1>7, <1>8, <1>9 DEF MountInv

(* Every step keeps the invariant.                                         *)
LEMMA MountStep ==
  ASSUME CountLaws, MountInv, [MountNext]_vars
  PROVE  MountInv'
<1>1. CASE Calls
  BY Zenon, <1>1, CallsKeep
<1>2. CASE Operations
  BY ZenonT(30), <1>2, SkipFileKeeps, MountFileKeeps, MountDeviceKeeps, MountConfigKeeps, MountMigKeeps,
     MountDirectoryKeeps, CgroupKeeps, ControlDeviceKeeps, SymlinkKeeps, ProfileKeeps,
     FilterKeeps, PrepareKeeps, OpenMinorsKeeps, HandOverKeeps DEF Operations
<1>3. CASE Unmount
  BY <1>3, UnmountKeeps
<1>4. CASE Leave
  BY <1>4, LeaveKeeps
<1>5. CASE UNCHANGED vars
  BY Zenon, <1>5, StutterMountInv
<1> QED
  BY Zenon, <1>1, <1>2, <1>3, <1>4, <1>5 DEF MountNext
=============================================================================
