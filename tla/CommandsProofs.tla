--------------------------- MODULE CommandsProofs ---------------------------
(***************************************************************************)
(* The properties of the commands, for every machine, command line, number *)
(* of GPUs and credentials, and those of the language of requirements, for *)
(* every predicate and version.                                            *)
(***************************************************************************)
EXTENDS Commands, Dsl, SequenceTheorems, FiniteSetTheorems, WellFoundedInduction, TLAPS

(* Before nvc_init, no service runs. *)
NoService == {"load", "parse", "permitted", "init_caps", "done"}

(* From the capabilities of the first stage on, a process of root may      *)
(* signal its services.                                                    *)
MaySignal == cred.uid = 0 => "KILL" \in cred.E

(* Credentials have a user and an effective set. *)
Fields(c) == {"uid", "E"} \subseteq DOMAIN c

ServicesInv ==
  /\ conf \in Starts /\ Fields(cred) /\ svc \in BOOLEAN
  /\ pc \in NoService => ~svc
  /\ pc \notin NoService => ~svc \/ MaySignal
  /\ pc = "init" => MaySignal

(* What the container requires, of which nothing is lost on the way to the *)
(* check.                                                                  *)
Required == Range(conf.reqs) \ (IF major = 0 THEN Special ELSE {})

Met == \A r \in Required, g \in Checked : conf.holds[r, g]

BeforeCheck == {"load", "parse", "permitted", "init_caps", "init", "container_caps", "container", "info_caps",
                "info", "select", "select_all", "mig", "require", "print"}

RequirementsInv ==
  /\ pc \notin {"load", "parse"} /\ conf.cmd = "configure" => reqs = Required \/ (mounted = <<>> /\ pc = "done")
  /\ pc \in {"select", "select_all", "mig"} => conf.cmd # "info"
  /\ pc \in {"require", "mount_caps", "driver"} => conf.cmd = "configure"
  /\ pc \in BeforeCheck => mounted = <<>>
  /\ pc \in {"mount_caps", "driver", "device"} \/ mounted # <<>> => Met
  /\ conf \in Starts
-----------------------------------------------------------------------------
(* Every capability stage has KILL. *)
LEMMA StagesKeepKill ==
  \A t \in {"init", "kmods", "shutdown", "container", "info", "mount", "ldcache"} :
    ecaps[t] \in SUBSET Caps /\ "KILL" \in ecaps[t]
  BY DEF ecaps, Caps

(* The operations on credentials keep the record, and change of it what    *)
(* they say.                                                               *)
LEMMA OperationsKeep ==
  ASSUME NEW c, Fields(c), NEW S, NEW u
  PROVE  /\ Fields(SetPermitted(c, S)) /\ Fields(SetInheritable(c, S)) /\ Fields(SetBounds(c, S))
         /\ Fields(SetEffective(c, S)) /\ SetEffective(c, S).E = S
         /\ Fields(FileCreated(c, u)) /\ FileCreated(c, u).uid = c.uid
         /\ c.E \ FsCaps \subseteq FileCreated(c, u).E
<1>1. Fields(SetPermitted(c, S)) /\ Fields(SetInheritable(c, S)) /\ Fields(SetBounds(c, S))
  BY DEF Fields, SetPermitted, SetInheritable, SetBounds
<1>2. Fields(SetEffective(c, S)) /\ SetEffective(c, S).E = S
  BY DEF Fields, SetEffective
<1> DEFINE E == CASE c.uid = 0 /\ u # 0 -> c.E \cup (c.P \cap FsCaps)
                  [] c.uid # 0 /\ u = 0 -> (c.E \ FsCaps) \cup (c.P \cap {"DAC_OVERRIDE"})
                  [] OTHER -> c.E \cup (c.P \cap {"DAC_OVERRIDE"})
<1>3. c.E \ FsCaps \subseteq E
  OBVIOUS
<1>4. FileCreated(c, u) = [c EXCEPT !.E = E]
  BY DEF FileCreated
<1> HIDE DEF E
<1> QED
  BY <1>1, <1>2, <1>3, <1>4 DEF Fields

(* A change of the effective set is refused, and ends the command, or      *)
(* leaves a set that has KILL.                                             *)
LEMMA StageKeeps ==
  ASSUME ServicesInv, NEW from, NEW t \in {"init", "kmods", "shutdown", "container", "info", "mount", "ldcache"},
         NEW to, Stage(from, t, to)
  PROVE  Fields(cred') /\ ((pc' = "fail" /\ cred' = cred) \/ (pc' = to /\ MaySignal'))
<1>1. CASE cred' = SetEffective(cred, ecaps[t]) /\ pc' = to
  <2>1. Fields(cred') /\ cred'.E = ecaps[t]
    BY Zenon, <1>1, OperationsKeep DEF ServicesInv
  <2> QED
    BY Zenon, <1>1, <2>1, StagesKeepKill DEF MaySignal
<1>2. CASE cred' = cred /\ (pc' = "fail" \/ (pc' = to /\ cred.uid # 0))
  BY Zenon, <1>2 DEF MaySignal, ServicesInv
<1> QED
  BY Zenon, <1>1, <1>2 DEF Stage, Goto, run_as_root

(* The creation of a file for the owner leaves KILL alone. *)
LEMMA MountKeeps ==
  ASSUME ServicesInv, cred' = FileCreated(cred, conf.owner)
  PROVE  Fields(cred') /\ (MaySignal => MaySignal')
<1>1. Fields(cred)
  BY Zenon DEF ServicesInv
<1>2. Fields(cred') /\ cred'.uid = cred.uid /\ cred.E \ FsCaps \subseteq cred'.E
  BY Zenon, <1>1, OperationsKeep
<1> QED
  BY Zenon, <1>2 DEF MaySignal, FsCaps

(* Every step keeps the invariant of the services. *)
LEMMA ServicesStep == ServicesInv /\ [CommandsNext]_vars => ServicesInv'
<1> SUFFICES ASSUME ServicesInv, [CommandsNext]_vars PROVE ServicesInv'
  OBVIOUS
<1> USE DEF NoService, Goto
<1>1. CASE load_libnvc
  BY Zenon, <1>1 DEF load_libnvc, ServicesInv, MaySignal, Lib, Input
<1>2. CASE BadArgument
  BY Zenon, <1>2 DEF BadArgument, ServicesInv, MaySignal, Lib, Input
<1>3. CASE configure_parser
  BY Zenon, <1>3 DEF configure_parser, ServicesInv, MaySignal, Lib, Input
<1>4. CASE list_parser
  BY Zenon, <1>4 DEF list_parser, ServicesInv, MaySignal, Lib, Input
<1>5. CASE info_parser
  BY Zenon, <1>5 DEF info_parser, ServicesInv, MaySignal, Lib, Input
<1>6. CASE nvc_init
  BY Zenon, <1>6 DEF nvc_init, ServicesInv, MaySignal, Lib, Input
<1>7. CASE nvc_container_new
  BY Zenon, <1>7 DEF nvc_container_new, ServicesInv, MaySignal, Lib, Input
<1>8. CASE Information
  BY Zenon, <1>8 DEF Information, ServicesInv, MaySignal, Lib, Input
<1>9. CASE select_devices
  BY Zenon, <1>9 DEF select_devices, ServicesInv, MaySignal, Lib, Input
<1>10. CASE select_mig_devices
  BY Zenon, <1>10 DEF select_mig_devices, ServicesInv, MaySignal, Lib, Input
<1>11. CASE CheckRequirements
  BY Zenon, <1>11 DEF CheckRequirements, ServicesInv, MaySignal, Lib, Input
<1>12. CASE DevicesMounted
  BY Zenon, <1>12 DEF DevicesMounted, ServicesInv, MaySignal, Lib, Input
<1>13. CASE nvc_ldcache_update
  BY Zenon, <1>13 DEF nvc_ldcache_update, ServicesInv, MaySignal, Lib, Input
<1>14. CASE ListNodes
  BY Zenon, <1>14 DEF ListNodes, ServicesInv, MaySignal, Lib, Input
<1>15. CASE PrintDevices
  BY Zenon, <1>15 DEF PrintDevices, ServicesInv, MaySignal, Lib, Input
<1>16. CASE nvc_shutdown
  BY Zenon, <1>16 DEF nvc_shutdown, ServicesInv, MaySignal, Lib, Input
<1>17. CASE SetPermissions
  <2>1. conf' = conf /\ pc = "permitted" /\ svc' = svc /\ pc' \in {"init_caps", "done"}
    BY Zenon, <1>17 DEF SetPermissions, Lib, Input
  <2>2. Fields(cred')
    BY Zenon, <1>17, OperationsKeep DEF SetPermissions, ServicesInv
  <2> QED
    BY Zenon, <2>1, <2>2 DEF ServicesInv
<1>18. CASE InitCaps
  <2>1. Fields(cred') /\ ((pc' = "fail" /\ cred' = cred) \/ (pc' = "init" /\ MaySignal'))
    BY Zenon, <1>18, StageKeeps DEF InitCaps
  <2> QED
    BY Zenon, <1>18, <2>1 DEF InitCaps, Stage, ServicesInv, Lib, Input
<1>19. CASE ContainerCaps
  <2>1. Fields(cred') /\ ((pc' = "fail" /\ cred' = cred) \/ (pc' = "container" /\ MaySignal'))
    BY Zenon, <1>19, StageKeeps DEF ContainerCaps
  <2> QED
    BY Zenon, <1>19, <2>1 DEF ContainerCaps, Stage, ServicesInv, MaySignal, Lib, Input
<1>20. CASE InfoCaps
  <2>1. Fields(cred') /\ ((pc' = "fail" /\ cred' = cred) \/ (pc' = "info" /\ MaySignal'))
    BY Zenon, <1>20, StageKeeps DEF InfoCaps
  <2> QED
    BY Zenon, <1>20, <2>1 DEF InfoCaps, Stage, ServicesInv, MaySignal, Lib, Input
<1>21. CASE MountCaps
  <2>1. Fields(cred') /\ ((pc' = "fail" /\ cred' = cred) \/ (pc' = "driver" /\ MaySignal'))
    BY Zenon, <1>21, StageKeeps DEF MountCaps
  <2> QED
    BY Zenon, <1>21, <2>1 DEF MountCaps, Stage, ServicesInv, MaySignal, Lib, Input
<1>22. CASE LdcacheCaps
  <2>1. Fields(cred') /\ ((pc' = "fail" /\ cred' = cred) \/ (pc' = "ldcache" /\ MaySignal'))
    BY Zenon, <1>22, StageKeeps DEF LdcacheCaps
  <2> QED
    BY Zenon, <1>22, <2>1 DEF LdcacheCaps, Stage, ServicesInv, MaySignal, Lib, Input
<1>23. CASE ShutdownCaps
  <2>1. CASE cred' = cred
    BY Zenon, <1>23, <2>1 DEF ShutdownCaps, ServicesInv, MaySignal, Lib, Input
  <2>2. CASE cred' = SetEffective(cred, ecaps["shutdown"])
    <3>1. Fields(cred') /\ cred'.E = ecaps["shutdown"]
      BY Zenon, <2>2, OperationsKeep DEF ServicesInv
    <3> QED
      BY Zenon, <1>23, <3>1, StagesKeepKill DEF ShutdownCaps, ServicesInv, MaySignal, Lib, Input
  <2> QED
    BY Zenon, <1>23, <2>1, <2>2 DEF ShutdownCaps
<1>24. CASE nvc_driver_mount
  <2>1. Fields(cred') /\ (MaySignal => MaySignal')
    BY Zenon, <1>24, MountKeeps DEF nvc_driver_mount
  <2> QED
    BY Zenon, <1>24, <2>1 DEF nvc_driver_mount, ServicesInv, Input
<1>25. CASE nvc_device_mount
  <2>1. Fields(cred') /\ (MaySignal => MaySignal')
    BY Zenon, <1>25, MountKeeps DEF nvc_device_mount
  <2> QED
    BY Zenon, <1>25, <2>1 DEF nvc_device_mount, ServicesInv, Input
<1>26. CASE UNCHANGED vars
  BY Zenon, <1>26 DEF vars, ServicesInv, MaySignal
<1>27. CASE select_all_devices
  BY ZenonT(30), <1>27 DEF select_all_devices, ServicesInv, MaySignal, Input
<1> QED
  BY SMTT(30), <1>1, <1>2, <1>3, <1>4, <1>5, <1>6, <1>7, <1>8, <1>9, <1>10, <1>11, <1>12, <1>13,
     <1>14, <1>15, <1>16, <1>17, <1>18, <1>19, <1>20, <1>21, <1>22, <1>23, <1>24, <1>25, <1>26,
     <1>27 DEF CommandsNext

(* Every step keeps the invariant of the requirements. *)
LEMMA RequirementsStep == RequirementsInv /\ [CommandsNext]_vars => RequirementsInv'
<1> SUFFICES ASSUME RequirementsInv, [CommandsNext]_vars PROVE RequirementsInv'
  OBVIOUS
<1> USE DEF BeforeCheck, RequirementsInv, Goto, Input
<1>1. CASE load_libnvc
  BY Zenon, <1>1 DEF load_libnvc, Lib, Required, Met
<1>2. CASE BadArgument
  BY Zenon, <1>2 DEF BadArgument, Lib, Required, Met
<1>3. CASE configure_parser
  BY Zenon, <1>3 DEF configure_parser, Lib, Required, Met
<1>4. CASE list_parser
  BY Zenon, <1>4 DEF list_parser, Lib, Required, Met
<1>5. CASE info_parser
  BY Zenon, <1>5 DEF info_parser, Lib, Required, Met
<1>6. CASE SetPermissions
  BY Zenon, <1>6 DEF SetPermissions, Lib, Required, Met
<1>7. CASE InitCaps
  BY Zenon, <1>7 DEF InitCaps, Stage, Lib, Required, Met, Checked
<1>8. CASE ContainerCaps
  BY Zenon, <1>8 DEF ContainerCaps, Stage, Lib, Required, Met, Checked
<1>9. CASE InfoCaps
  BY Zenon, <1>9 DEF InfoCaps, Stage, Lib, Required, Met, Checked
<1>10. CASE MountCaps
  BY Zenon, <1>10 DEF MountCaps, Stage, Lib, Required, Met, Checked
<1>11. CASE LdcacheCaps
  BY Zenon, <1>11 DEF LdcacheCaps, Stage, Lib, Required, Met, Checked
<1>12. CASE nvc_init
  BY Zenon, <1>12, CommandsAssumption DEF nvc_init, Lib, Required, Met
<1>13. CASE nvc_container_new
  BY Zenon, <1>13, CommandsAssumption DEF nvc_container_new, Lib, Required, Met
<1>14. CASE Information
  BY Zenon, <1>14, CommandsAssumption DEF Information, Lib, Required, Met
<1>15. CASE select_devices
  BY Zenon, <1>15, CommandsAssumption DEF select_devices, Lib, Required, Met
<1>16. CASE select_mig_devices
  BY Zenon, <1>16, CommandsAssumption DEF select_mig_devices, Lib, Required, Met
<1>17. CASE CheckRequirements
  BY Zenon, <1>17 DEF CheckRequirements, Lib, Required, Met, Checked
<1>18. CASE nvc_driver_mount
  BY Zenon, <1>18 DEF nvc_driver_mount, Lib, Required, Met, Checked
<1>19. CASE nvc_device_mount
  BY Zenon, <1>19 DEF nvc_device_mount, Lib, Required, Met, Checked
<1>20. CASE DevicesMounted
  BY Zenon, <1>20 DEF DevicesMounted, Lib, Required, Met, Checked
<1>21. CASE nvc_ldcache_update
  BY Zenon, <1>21 DEF nvc_ldcache_update, Lib, Required, Met, Checked
<1>22. CASE ListNodes
  BY Zenon, <1>22 DEF ListNodes, Lib, Required, Met, Checked
<1>23. CASE PrintDevices
  BY Zenon, <1>23 DEF PrintDevices, Lib, Required, Met, Checked
<1>24. CASE ShutdownCaps
  BY Zenon, <1>24 DEF ShutdownCaps, Lib, Required, Met, Checked
<1>25. CASE nvc_shutdown
  BY Zenon, <1>25 DEF nvc_shutdown, Lib, Required, Met, Checked
<1>26. CASE UNCHANGED vars
  BY Zenon, <1>26 DEF vars, Required, Met, Checked
<1>27. CASE select_all_devices
  BY Zenon, <1>27 DEF select_all_devices, Required, Met
<1> QED
  BY ZenonT(30), <1>1, <1>2, <1>3, <1>4, <1>5, <1>6, <1>7, <1>8, <1>9, <1>10, <1>11, <1>12, <1>13,
     <1>14, <1>15, <1>16, <1>17, <1>18, <1>19, <1>20, <1>21, <1>22, <1>23, <1>24, <1>25, <1>26,
     <1>27 DEF CommandsNext

(* Whatever step of a command fails, on any machine and for any command    *)
(* line, no service outlives it.                                           *)
THEOREM NoServiceIsLeft == CommandsSpec => []ServicesEnd
<1>1. CommandsInit => ServicesInv
  <2>1. \A c \in Cred : Fields(c)
    BY DEF Cred, Fields
  <2> QED
    BY Zenon, <2>1, CommandsAssumption DEF CommandsInit, ServicesInv, NoService
<1>2. ServicesInv => ServicesEnd
  BY Zenon DEF ServicesInv, ServicesEnd, NoService
<1> QED
  BY <1>1, <1>2, ServicesStep, PTL DEF CommandsSpec

(* Nothing is mounted for any list of requirements and any selection of    *)
(* GPUs one of which does not meet them.                                   *)
THEOREM RequirementsAreMet == CommandsSpec => []MountsMeetRequirements
<1>1. CommandsInit => RequirementsInv
  BY Zenon DEF CommandsInit, RequirementsInv
<1>2. RequirementsInv => MountsMeetRequirements
  <2> SUFFICES ASSUME RequirementsInv, mounted # <<>>,
                      NEW r \in Range(conf.reqs) \ (IF major = 0 THEN Special ELSE {})
               PROVE  IF devices.gpus = <<>> THEN conf.holds[r, None]
                      ELSE \A g \in Range(devices.gpus) : conf.holds[r, g]
    BY Zenon DEF MountsMeetRequirements
  <2>1. \A g \in Checked : conf.holds[r, g]
    BY Zenon DEF RequirementsInv, Met, Required
  <2> QED
    BY Zenon, <2>1 DEF Checked
<1> QED
  BY <1>1, <1>2, RequirementsStep, PTL DEF CommandsSpec
-----------------------------------------------------------------------------
(* The array of selected devices has GPUs of the machine, none twice:      *)
(* no more of them than the machine has.                                   *)
Good(d) ==
  /\ d = [gpus |-> d.gpus, all |-> d.all, exceeds |-> FALSE]
  /\ d.gpus \in Seq(0 .. conf.ngpus - 1)
  /\ \A i, j \in 1 .. Len(d.gpus) : d.gpus[i] = d.gpus[j] => i = j
  /\ Cardinality(Range(d.gpus)) = Len(d.gpus)

(* It never exceeds the array. *)
LEMMA NotExceeded == ASSUME NEW d, Good(d) PROVE d.exceeds = FALSE
<1> DEFINE s == d.gpus
           a == d.all
<1>1. d = [gpus |-> s, all |-> a, exceeds |-> FALSE]
  BY Zenon DEF Good
<1> HIDE DEF s, a
<1>2. [gpus |-> s, all |-> a, exceeds |-> FALSE].exceeds = FALSE
  BY Zenon
<1> QED
  BY Zenon, <1>1, <1>2

(* A GPU that is added is in the array, as are those that were. *)
LEMMA AddGpu ==
  ASSUME conf.ngpus \in Nat, NEW d, Good(d), NEW g \in 0 .. conf.ngpus - 1
  PROVE  /\ Good(add_gpu_device(d, g)) /\ add_gpu_device(d, g).all = d.all
         /\ g \in Range(add_gpu_device(d, g).gpus)
         /\ \A x : x \in Range(d.gpus) => x \in Range(add_gpu_device(d, g).gpus)
<1> DEFINE S == 0 .. conf.ngpus - 1
           s == d.gpus
           t == Append(s, g)
<1>1. CASE g \in Range(s)
  BY Zenon, <1>1 DEF add_gpu_device, already_present
<1>2. CASE g \notin Range(s)
  <2>1. s \in Seq(S) /\ Len(s) \in Nat /\ DOMAIN s = 1 .. Len(s) /\ Cardinality(Range(s)) = Len(s)
    BY Zenon, LenProperties DEF Good
  <2>2. Range(s) \subseteq S /\ g \notin Range(s)
    BY Zenon, <1>2, <2>1, ElementOfSeq DEF Range
  <2>3. IsFiniteSet(S) /\ Cardinality(S) = conf.ngpus
    <3>1. 0 \in Int /\ conf.ngpus - 1 \in Int
      OBVIOUS
    <3>2. IsFiniteSet(S) /\ Cardinality(S) = IF 0 > conf.ngpus - 1 THEN 0 ELSE (conf.ngpus - 1) - 0 + 1
      BY Zenon, <3>1, FS_Interval
    <3> QED
      BY <3>2
  <2>4. IsFiniteSet(Range(s))
    BY Zenon, <2>2, <2>3, FS_Subset
  <2>5. Cardinality(Range(s) \cup {g}) = Cardinality(Range(s)) + 1
    BY Zenon, <2>2, <2>4, FS_AddElement
  <2>6. Cardinality(Range(s) \cup {g}) <= Cardinality(S)
    <3>1. Range(s) \cup {g} \in SUBSET S
      BY Zenon, <2>2
    <3> QED
      BY Zenon, <2>3, <3>1, FS_Subset
  <2>7. ~(Len(s) + 1 > conf.ngpus)
    <3>1. Len(s) + 1 <= conf.ngpus
      BY Zenon, <2>1, <2>3, <2>5, <2>6
    <3> QED
      BY <2>1, <3>1
  <2>8. add_gpu_device(d, g) = [d EXCEPT !.gpus = t]
    BY Zenon, <1>2, <2>7 DEF add_gpu_device, already_present
  <2>9. /\ t \in Seq(S) /\ Len(t) = Len(s) + 1 /\ \A i \in 1 .. Len(s) : t[i] = s[i]
        /\ t[Len(s) + 1] = g /\ DOMAIN t = 1 .. Len(t)
    BY <2>1, AppendProperties, LenProperties
  <2> HIDE DEF t
  <2>10. \A i \in 1 .. Len(t) : i = Len(s) + 1 \/ i \in 1 .. Len(s)
    BY <2>1, <2>9
  <2>11. (\A i \in 1 .. Len(s) : i \in 1 .. Len(t)) /\ Len(s) + 1 \in 1 .. Len(t)
    BY <2>1, <2>9
  <2>12. \A i, j \in 1 .. Len(t) : t[i] = t[j] => i = j
    BY Zenon, <1>2, <2>1, <2>9, <2>10 DEF Good, Range
  <2>13. Range(t) = Range(s) \cup {g}
    BY Zenon, <2>1, <2>9, <2>10, <2>11 DEF Range
  <2>14. g \in Range(t) /\ \A x : x \in Range(s) => x \in Range(t)
    BY Zenon, <2>1, <2>9, <2>11 DEF Range
  <2>15. [d EXCEPT !.gpus = t] = [gpus |-> t, all |-> d.all, exceeds |-> FALSE]
    <3> DEFINE a == d.all
               f == FALSE
    <3>1. d = [gpus |-> s, all |-> a, exceeds |-> f]
      BY Zenon DEF Good
    <3> HIDE DEF a, s, f
    <3>2. [d EXCEPT !.gpus = t] = [gpus |-> t, all |-> a, exceeds |-> f]
      BY <3>1
    <3> QED
      BY Zenon, <3>2 DEF a, f
  <2> DEFINE e == [gpus |-> t, all |-> d.all, exceeds |-> FALSE]
  <2>16. e.gpus = t /\ e.all = d.all /\ e = [gpus |-> e.gpus, all |-> e.all, exceeds |-> FALSE]
    BY Zenon
  <2>17. add_gpu_device(d, g) = e
    BY Zenon, <2>8, <2>15
  <2> HIDE DEF e
  <2>18. Good(e)
    BY Zenon, <2>1, <2>5, <2>9, <2>12, <2>13, <2>16 DEF Good
  <2> QED
    BY Zenon, <2>14, <2>16, <2>17, <2>18
<1> QED
  BY Zenon, <1>1, <1>2
-----------------------------------------------------------------------------
(* Before devices are selected, and after. *)
Early == {"load", "parse", "permitted", "init_caps", "init", "container_caps", "container", "info_caps", "info"}
Late == {"mig", "require", "mount_caps", "driver", "device", "ldcache_caps", "ldcache", "print", "shutdown_caps"}

(* The names before position k were found. The name before a UUID that is  *)
(* the last one may stand for the GPU of that UUID, which is then refused. *)
Done(k) ==
  \A i \in 1 .. k - 1 :
    /\ Named[i].kind \notin {"uuid", "all"}
    /\ \/ Named[i].kind = "empty" \/ Named[i].gpu \in Range(devices.gpus)
       \/ i + 1 = Len(Named) /\ Named[i + 1].kind = "uuid"

(* Every GPU is selected, as by "all". *)
AllSelected == \A g \in 0 .. conf.ngpus - 1 : g \in Range(devices.gpus)

(* What select_devices promises when it returns: every GPU after "all",    *)
(* otherwise those of all the names.                                       *)
Selected ==
  conf.cmd # "info" /\ conf.ngpus > 0 =>
    \/ devices.all = TRUE /\ AllSelected
    \/ /\ devices.all = FALSE
       /\ \A i \in 1 .. Len(Named) :
            /\ Named[i].kind # "all"
            /\ Named[i].kind = "empty" \/ Named[i].gpu \in Range(devices.gpus)

(* The loops keep this on the way there. *)
SelectionInv ==
  /\ conf \in Starts /\ tok \in Nat \ {0} /\ gpu \in Nat /\ Good(devices)
  /\ pc \in Early => tok = 1 /\ devices.all = FALSE
  /\ pc \in {"select", "select_all"} => conf.cmd # "info" /\ devices.all = FALSE
  /\ pc = "select" => tok <= Len(Named) + 1 /\ Done(tok)
  /\ pc = "select_all" => \A g \in 0 .. gpu - 1 : g \in Range(devices.gpus)
  /\ pc \in Late => Selected
  /\ rv = "EXIT_SUCCESS" => Selected /\ pc \in {"fail", "done"}

(* The other steps leave the selection alone, and none goes back. *)
LEMMA OtherSteps ==
  ASSUME [CommandsNext]_vars, ~select_devices, ~select_all_devices
  PROVE  /\ UNCHANGED <<conf, tok, gpu, devices>>
         /\ pc' \in Early => pc \in Early
         /\ pc' = "select" => pc = pc' \/ (pc = "info" /\ conf.cmd # "info")
         /\ pc' = "select_all" => pc = pc'
         /\ pc' \in Late => pc \in Late \/ (pc = "info" /\ ~(conf.cmd # "info" /\ conf.ngpus > 0))
         /\ rv' = rv \/ (pc = "shutdown_caps" /\ pc' = "fail")
         /\ pc \in {"fail", "done"} => pc' \in {"fail", "done"}
<1> USE DEF Early, Late, Input, Lib, Goto
<1>1. CASE load_libnvc \/ BadArgument \/ configure_parser \/ list_parser \/ info_parser
  BY Zenon, <1>1 DEF load_libnvc, BadArgument, configure_parser, list_parser, info_parser
<1>2. CASE SetPermissions \/ nvc_init \/ nvc_container_new \/ Information
  BY Zenon, <1>2 DEF SetPermissions, nvc_init, nvc_container_new, Information
<1>3. CASE InitCaps \/ ContainerCaps \/ InfoCaps \/ MountCaps \/ LdcacheCaps
  BY Zenon, <1>3 DEF InitCaps, ContainerCaps, InfoCaps, MountCaps, LdcacheCaps, Stage
<1>4. CASE select_mig_devices \/ CheckRequirements \/ nvc_driver_mount \/ nvc_device_mount \/ DevicesMounted
  BY Zenon, <1>4 DEF select_mig_devices, CheckRequirements, nvc_driver_mount, nvc_device_mount, DevicesMounted
<1>5. CASE nvc_ldcache_update \/ ListNodes \/ PrintDevices \/ ShutdownCaps \/ nvc_shutdown
  BY Zenon, <1>5 DEF nvc_ldcache_update, ListNodes, PrintDevices, ShutdownCaps, nvc_shutdown
<1>6. CASE UNCHANGED vars
  BY Zenon, <1>6 DEF vars
<1> QED
  BY Zenon, <1>1, <1>2, <1>3, <1>4, <1>5, <1>6 DEF CommandsNext

(* The list of devices is a sequence of tokens. *)
LEMMA NamedType ==
  ASSUME conf \in Starts
  PROVE  /\ conf.ngpus \in Nat /\ Len(Named) \in Nat
         /\ conf.bare => Named = <<>> \/ Named = <<[kind |-> "all", gpu |-> 0]>>
<1>1. conf.ngpus \in 0 .. MaxGpus /\ MaxGpus \in Nat /\ conf.toks \in Seq(Token) /\ (conf.bare => conf.toks = <<>>)
  BY Zenon, CommandsAssumption
<1>2. conf.ngpus \in Nat /\ Len(conf.toks) \in Nat /\ Len(<<[kind |-> "all", gpu |-> 0]>>) \in Nat
  BY <1>1, LenProperties
<1> QED
  BY Zenon, <1>1, <1>2 DEF Named

(* What select_gpu_device finds is a GPU of the machine: the one named,    *)
(* but for an index before a last UUID.                                    *)
LEMMA Found ==
  ASSUME conf.ngpus \in Nat, Len(Named) \in Nat, NEW i \in Nat \ {0}, i <= Len(Named),
         Named[i].kind \notin {"empty", "all"}, select_gpu_device(i) # None
  PROVE  /\ select_gpu_device(i) \in 0 .. conf.ngpus - 1
         /\ Named[i].kind \notin {"uuid", "all"}
         /\ select_gpu_device(i) = Named[i].gpu \/ (i + 1 = Len(Named) /\ Named[i + 1].kind = "uuid")
<1>1. ~Available(None)
  BY DEF Available, None
<1> QED
  BY Zenon, <1>1 DEF select_gpu_device, UuidAt, Available

(* A turn of select_devices. *)
LEMMA SelectStep ==
  ASSUME SelectionInv, select_devices
  PROVE  SelectionInv'
<1>1. /\ pc = "select" /\ UNCHANGED <<conf, rv>> /\ conf \in Starts /\ tok \in Nat \ {0} /\ gpu \in Nat
      /\ Good(devices) /\ conf.cmd # "info" /\ devices.all = FALSE /\ tok <= Len(Named) + 1 /\ Done(tok)
      /\ rv # "EXIT_SUCCESS"
  BY Zenon DEF SelectionInv, select_devices, Input
<1>2. conf.ngpus \in Nat /\ Len(Named) \in Nat
  BY Zenon, <1>1, NamedType
<1>3. Named' = Named
  BY Zenon, <1>1 DEF Named
<1> USE DEF Goto, Early, Late
<1>4. CASE tok > Len(Named) /\ pc' = "mig" /\ UNCHANGED <<tok, gpu, devices>>
  <2>1. \A i \in 1 .. Len(Named) : i \in 1 .. tok - 1 /\ (i + 1 = Len(Named) => Len(Named) \in 1 .. tok - 1)
    BY <1>1, <1>2, <1>4
  <2>2. \A i \in 1 .. Len(Named) :
          Named[i].kind # "all" /\ (Named[i].kind = "empty" \/ Named[i].gpu \in Range(devices.gpus))
    BY Zenon, <1>1, <2>1 DEF Done
  <2>3. Selected
    BY Zenon, <1>1, <2>2 DEF Selected
  <2>4. Selected' /\ Good(devices)'
    BY Zenon, <1>1, <1>3, <1>4, <2>3 DEF Selected, AllSelected, Good
  <2> QED
    BY Zenon, <1>1, <1>4, <2>4 DEF SelectionInv
<1>5. CASE Named[tok].kind = "all" /\ pc' = "select_all" /\ gpu' = 0 /\ UNCHANGED <<tok, devices>>
  <2>1. Good(devices)'
    BY Zenon, <1>1, <1>5 DEF Good
  <2>2. (0 .. gpu' - 1) = {} /\ gpu' \in Nat
    BY <1>5
  <2> QED
    BY Zenon, <1>1, <1>5, <2>1, <2>2 DEF SelectionInv
<1>6. CASE pc' = "fail" /\ UNCHANGED <<tok, gpu, devices>>
  <2>1. Good(devices)'
    BY Zenon, <1>1, <1>6 DEF Good
  <2> QED
    BY Zenon, <1>1, <1>6, <2>1 DEF SelectionInv
<1>7. CASE /\ ~(tok > Len(Named)) /\ tok' = tok + 1 /\ gpu' = gpu
           /\ \/ Named[tok].kind = "empty" /\ UNCHANGED <<pc, devices>>
              \/ /\ Named[tok].kind \notin {"empty", "all"} /\ select_gpu_device(tok) # None
                 /\ devices' = add_gpu_device(devices, select_gpu_device(tok))
                 /\ pc' = IF add_gpu_device(devices, select_gpu_device(tok)).exceeds THEN "fail" ELSE "select"
  <2>1. /\ tok <= Len(Named) /\ tok' \in Nat \ {0} /\ tok' <= Len(Named) + 1
        /\ \A i \in 1 .. tok' - 1 : i = tok \/ i \in 1 .. tok - 1
    BY <1>1, <1>2, <1>7
  <2>2. /\ Good(devices') /\ devices'.all = FALSE /\ \A x : x \in Range(devices.gpus) => x \in Range(devices'.gpus)
        /\ Named[tok].kind \notin {"uuid", "all"}
        /\ \/ Named[tok].kind = "empty" \/ Named[tok].gpu \in Range(devices'.gpus)
           \/ tok + 1 = Len(Named) /\ Named[tok + 1].kind = "uuid"
        /\ pc' = "select"
    <3>1. CASE Named[tok].kind = "empty" /\ UNCHANGED <<pc, devices>>
      <4>1. "empty" \notin {"uuid", "all"}
        OBVIOUS
      <4> QED
        BY Zenon, <1>1, <3>1, <4>1
    <3>2. CASE /\ Named[tok].kind \notin {"empty", "all"} /\ select_gpu_device(tok) # None
               /\ devices' = add_gpu_device(devices, select_gpu_device(tok))
               /\ pc' = IF add_gpu_device(devices, select_gpu_device(tok)).exceeds THEN "fail" ELSE "select"
      <4> DEFINE g == select_gpu_device(tok)
      <4>1. /\ g \in 0 .. conf.ngpus - 1 /\ Named[tok].kind \notin {"uuid", "all"}
            /\ g = Named[tok].gpu \/ (tok + 1 = Len(Named) /\ Named[tok + 1].kind = "uuid")
        BY Zenon, <1>1, <1>2, <2>1, <3>2, Found
      <4> HIDE DEF g
      <4>2. /\ Good(add_gpu_device(devices, g)) /\ add_gpu_device(devices, g).all = devices.all
            /\ g \in Range(add_gpu_device(devices, g).gpus)
            /\ \A x : x \in Range(devices.gpus) => x \in Range(add_gpu_device(devices, g).gpus)
        BY Zenon, <1>1, <1>2, <4>1, AddGpu
      <4>3. ~add_gpu_device(devices, g).exceeds
        BY Zenon, <4>2, NotExceeded
      <4>4. devices' = add_gpu_device(devices, g) /\ pc' = "select"
        BY Zenon, <3>2, <4>3 DEF g
      <4> QED
        BY Zenon, <1>1, <4>1, <4>2, <4>4
    <3> QED
      BY Zenon, <1>7, <3>1, <3>2
  <2>3. Done(tok)'
    BY Zenon, <1>1, <1>3, <2>1, <2>2 DEF Done
  <2>4. Good(devices)'
    BY Zenon, <1>1, <2>2 DEF Good
  <2> QED
    BY ZenonT(30), <1>1, <1>3, <1>7, <2>1, <2>2, <2>3, <2>4 DEF SelectionInv
<1> QED
  BY Zenon, <1>4, <1>5, <1>6, <1>7 DEF select_devices

(* A turn of select_all_gpu_devices. *)
LEMMA SelectAllStep ==
  ASSUME SelectionInv, select_all_devices
  PROVE  SelectionInv'
<1>1. /\ pc = "select_all" /\ UNCHANGED <<conf, rv, tok>> /\ conf \in Starts /\ tok \in Nat \ {0} /\ gpu \in Nat
      /\ Good(devices) /\ conf.cmd # "info" /\ devices.all = FALSE /\ rv # "EXIT_SUCCESS"
      /\ \A g \in 0 .. gpu - 1 : g \in Range(devices.gpus)
  BY Zenon DEF SelectionInv, select_all_devices, Input
<1>2. conf.ngpus \in Nat /\ Len(Named) \in Nat
  BY Zenon, <1>1, NamedType
<1> USE DEF Goto, Early, Late
<1>3. CASE /\ gpu < conf.ngpus /\ gpu' = gpu + 1 /\ devices' = add_gpu_device(devices, gpu)
           /\ pc' = IF devices'.exceeds THEN "fail" ELSE "select_all"
  <2>1. gpu \in 0 .. conf.ngpus - 1 /\ gpu' \in Nat /\ \A g \in 0 .. gpu' - 1 : g = gpu \/ g \in 0 .. gpu - 1
    BY <1>1, <1>2, <1>3
  <2>2. /\ Good(devices') /\ devices'.all = devices.all /\ gpu \in Range(devices'.gpus)
        /\ \A x : x \in Range(devices.gpus) => x \in Range(devices'.gpus)
    BY Zenon, <1>1, <1>2, <1>3, <2>1, AddGpu
  <2>3. pc' = "select_all" /\ Good(devices)'
    <3>1. devices'.exceeds = FALSE
      BY Zenon, <2>2, NotExceeded
    <3> QED
      BY Zenon, <1>1, <1>3, <2>2, <3>1 DEF Good
  <2> QED
    BY Zenon, <1>1, <2>1, <2>2, <2>3 DEF SelectionInv
<1>4. CASE gpu >= conf.ngpus /\ devices' = [devices EXCEPT !.all = TRUE] /\ pc' = "mig" /\ UNCHANGED gpu
  <2>1. \A g \in 0 .. conf.ngpus - 1 : g \in 0 .. gpu - 1
    BY <1>1, <1>2, <1>4
  <2>2. devices' = [gpus |-> devices.gpus, all |-> TRUE, exceeds |-> FALSE]
    <3> DEFINE s == devices.gpus
               a == devices.all
               b == TRUE
               f == FALSE
    <3>1. devices = [gpus |-> s, all |-> a, exceeds |-> f]
      BY Zenon, <1>1 DEF Good
    <3> HIDE DEF s, a, b, f
    <3>2. [devices EXCEPT !.all = b] = [gpus |-> s, all |-> b, exceeds |-> f]
      BY <3>1
    <3> QED
      BY Zenon, <1>4, <3>2 DEF s, b, f
  <2>3. /\ devices'.gpus = devices.gpus /\ devices'.all = TRUE
        /\ devices' = [gpus |-> devices'.gpus, all |-> devices'.all, exceeds |-> FALSE]
    BY Zenon, <2>2
  <2>4. Good(devices)'
    BY Zenon, <1>1, <2>3 DEF Good
  <2>5. Selected'
    BY Zenon, <1>1, <2>1, <2>3 DEF Selected, AllSelected
  <2> QED
    BY Zenon, <1>1, <1>4, <2>4, <2>5 DEF SelectionInv
<1> QED
  BY Zenon, <1>3, <1>4 DEF select_all_devices

(* Every step keeps the invariant of the selection. *)
LEMMA SelectionStep == SelectionInv /\ [CommandsNext]_vars => SelectionInv'
<1> SUFFICES ASSUME SelectionInv, [CommandsNext]_vars, ~select_devices, ~select_all_devices PROVE SelectionInv'
  BY Zenon, SelectStep, SelectAllStep
<1>1. /\ UNCHANGED <<conf, tok, gpu, devices>>
      /\ pc' \in Early => pc \in Early
      /\ pc' = "select" => pc = pc' \/ (pc = "info" /\ conf.cmd # "info")
      /\ pc' = "select_all" => pc = pc'
      /\ pc' \in Late => pc \in Late \/ (pc = "info" /\ ~(conf.cmd # "info" /\ conf.ngpus > 0))
      /\ rv' = rv \/ (pc = "shutdown_caps" /\ pc' = "fail")
      /\ pc \in {"fail", "done"} => pc' \in {"fail", "done"}
  BY Zenon, OtherSteps
<1>2. Named' = Named
  BY Zenon, <1>1 DEF Named
<1>3. /\ conf \in Starts /\ tok \in Nat \ {0} /\ gpu \in Nat /\ Good(devices)
      /\ pc \in Early => tok = 1 /\ devices.all = FALSE
      /\ pc \in {"select", "select_all"} => conf.cmd # "info" /\ devices.all = FALSE
      /\ pc = "select" => tok <= Len(Named) + 1 /\ Done(tok)
      /\ pc = "select_all" => \A g \in 0 .. gpu - 1 : g \in Range(devices.gpus)
      /\ pc \in Late => Selected
      /\ rv = "EXIT_SUCCESS" => Selected /\ pc \in {"fail", "done"}
  BY Zenon DEF SelectionInv
<1>4. Good(devices)' /\ (Selected => Selected') /\ \A k : Done(k) => Done(k)'
  BY Zenon, <1>1, <1>2, <1>3 DEF Good, Selected, AllSelected, Done
<1>5. tok = 1 => tok <= Len(Named) + 1 /\ Done(tok)
  <2>1. Len(Named) \in Nat
    BY Zenon, <1>3, NamedType
  <2>2. tok = 1 => tok <= Len(Named) + 1 /\ 1 .. tok - 1 = {}
    BY <2>1
  <2> QED
    BY Zenon, <2>2 DEF Done
<1>6. "info" \in Early /\ "shutdown_caps" \in Late
  BY DEF Early, Late
<1>7. pc' \in Late => Selected'
  BY Zenon, <1>1, <1>3, <1>4 DEF Selected
<1>8. rv' = "EXIT_SUCCESS" => Selected' /\ pc' \in {"fail", "done"}
  BY Zenon, <1>1, <1>3, <1>4, <1>6
<1>9. pc' = "select" => conf'.cmd # "info" /\ devices'.all = FALSE /\ tok' <= Len(Named') + 1 /\ Done(tok)'
  BY Zenon, <1>1, <1>2, <1>3, <1>4, <1>5, <1>6
<1>10. pc' = "select_all" =>
         conf'.cmd # "info" /\ devices'.all = FALSE /\ \A g \in 0 .. gpu' - 1 : g \in Range(devices'.gpus)
  BY Zenon, <1>1, <1>3
<1> QED
  BY Zenon, <1>1, <1>2, <1>3, <1>4, <1>7, <1>8, <1>9, <1>10 DEF SelectionInv
-----------------------------------------------------------------------------
(* Before the driver is mounted; the commands that mount. *)
BeforeMount == {"load", "parse", "permitted", "init_caps", "init", "container_caps", "container", "info_caps",
                "info", "select", "select_all", "mig", "require", "print", "mount_caps", "driver"}
Mounting == {"require", "mount_caps", "driver", "device", "ldcache_caps", "ldcache"}

(* All that was selected is mounted; version 0 mounts devices with the     *)
(* driver.                                                                 *)
Full == Len(mounted) = IF major = 1 THEN Len(devices.gpus) + 1 ELSE 1

(* What has happened before the last stage. *)
Complete ==
  /\ conf.cmd = "configure" => mounted # <<>> /\ Full /\ updated = TRUE
  /\ conf.cmd = "list" /\ Named # <<>> => \E driver \in {<<>>, <<Driver>>} : listed = driver \o devices.gpus

(* The driver is mounted first, then the selected GPUs in their order. *)
InOrder ==
  /\ mounted \in Seq(Int)
  /\ mounted # <<>> => /\ mounted[1] = Driver /\ Len(mounted) <= Len(devices.gpus) + 1
                       /\ \A i \in 1 .. Len(mounted) - 1 : mounted[i + 1] = devices.gpus[i]
  /\ major # 1 => Len(mounted) <= 1

(* The mounts of a command, from the first to its exit. *)
MountInv ==
  /\ InOrder
  /\ pc \in BeforeMount => mounted = <<>>
  /\ pc \in {"device", "ldcache_caps", "ldcache"} => mounted # <<>>
  /\ pc \in {"ldcache_caps", "ldcache"} => Full
  /\ pc \in Mounting => conf.cmd = "configure"
  /\ conf.cmd # "configure" => mounted = <<>> /\ updated = FALSE
  /\ pc = "shutdown_caps" \/ rv = "EXIT_SUCCESS" => Complete
  /\ rv = "EXIT_SUCCESS" => pc \in {"fail", "done"} /\ (run_as_root => cred.E = {"KILL"})

(* The steps that neither select, mount, update, list nor end. *)
Quiet ==
  /\ UNCHANGED <<conf, mounted, updated, listed, rv>>
  /\ (UNCHANGED <<major, devices>> \/ pc \in {"load", "select", "select_all"})
  /\ pc' \in BeforeMount => pc \in BeforeMount
  /\ pc' \in {"device", "shutdown_caps"} => pc' = pc
  /\ pc' \in {"ldcache_caps", "ldcache"} => pc \in {"ldcache_caps", "ldcache"}
  /\ pc' \in Mounting => pc \in Mounting \/ (pc = "mig" /\ conf.cmd # "list")
  /\ pc \in {"fail", "done"} => pc' \in {"fail", "done"} /\ cred' = cred

(* All but seven of the steps are such. *)
LEMMA QuietSteps ==
  ASSUME [CommandsNext]_vars, ~nvc_driver_mount, ~nvc_device_mount, ~DevicesMounted, ~nvc_ldcache_update,
         ~ListNodes, ~PrintDevices, ~ShutdownCaps
  PROVE  Quiet
<1> USE DEF Quiet, BeforeMount, Mounting, Input, Lib, Goto
<1>1. CASE load_libnvc \/ BadArgument \/ configure_parser \/ list_parser \/ info_parser
  BY Zenon, <1>1 DEF load_libnvc, BadArgument, configure_parser, list_parser, info_parser
<1>2. CASE SetPermissions \/ nvc_init \/ nvc_container_new \/ Information
  BY Zenon, <1>2 DEF SetPermissions, nvc_init, nvc_container_new, Information
<1>3. CASE InitCaps \/ ContainerCaps \/ InfoCaps \/ MountCaps \/ LdcacheCaps
  BY Zenon, <1>3 DEF InitCaps, ContainerCaps, InfoCaps, MountCaps, LdcacheCaps, Stage
<1>4. CASE select_devices
  BY Zenon, <1>4 DEF select_devices
<1>5. CASE select_all_devices
  BY Zenon, <1>5 DEF select_all_devices
<1>6. CASE select_mig_devices \/ CheckRequirements \/ nvc_shutdown
  BY Zenon, <1>6 DEF select_mig_devices, CheckRequirements, nvc_shutdown
<1>7. CASE UNCHANGED vars
  BY Zenon, <1>7 DEF vars
<1> QED
  BY Zenon, <1>1, <1>2, <1>3, <1>4, <1>5, <1>6, <1>7 DEF CommandsNext

(* They keep what is mounted in order. *)
LEMMA QuietStep ==
  ASSUME MountInv, RequirementsInv, Quiet
  PROVE  MountInv'
<1>1. /\ InOrder
      /\ pc \in BeforeMount => mounted = <<>>
      /\ pc \in {"device", "ldcache_caps", "ldcache"} => mounted # <<>>
      /\ pc \in {"ldcache_caps", "ldcache"} => Full
      /\ pc \in Mounting => conf.cmd = "configure"
      /\ conf.cmd # "configure" => mounted = <<>> /\ updated = FALSE
      /\ pc = "shutdown_caps" \/ rv = "EXIT_SUCCESS" => Complete
      /\ rv = "EXIT_SUCCESS" => pc \in {"fail", "done"} /\ (run_as_root => cred.E = {"KILL"})
  BY Zenon DEF MountInv
<1>2. /\ UNCHANGED <<conf, mounted, updated, listed, rv>>
      /\ (UNCHANGED <<major, devices>> \/ pc \in {"load", "select", "select_all"})
      /\ pc' \in BeforeMount => pc \in BeforeMount
      /\ pc' \in {"device", "shutdown_caps"} => pc' = pc
      /\ pc' \in {"ldcache_caps", "ldcache"} => pc \in {"ldcache_caps", "ldcache"}
      /\ pc' \in Mounting => pc \in Mounting \/ (pc = "mig" /\ conf.cmd # "list")
      /\ pc \in {"fail", "done"} => pc' \in {"fail", "done"} /\ cred' = cred
  BY Zenon DEF Quiet
<1>3. Named' = Named
  BY Zenon, <1>2 DEF Named
<1>4. pc = "mig" /\ conf.cmd # "list" => conf.cmd = "configure"
  BY Zenon, CommandsAssumption DEF RequirementsInv
<1>5. pc \in {"load", "select", "select_all"} => mounted = <<>> /\ Len(mounted) = 0 /\ 0 <= 1
  BY <1>1 DEF BeforeMount
<1>6. InOrder'
  BY Zenon, <1>1, <1>2, <1>5 DEF InOrder
<1>7. pc' \in {"ldcache_caps", "ldcache"} => Full'
  <2>1. {"load", "select", "select_all"} \cap {"ldcache_caps", "ldcache"} = {}
    OBVIOUS
  <2> QED
    BY Zenon, <1>1, <1>2, <2>1 DEF Full
<1>8. pc' = "shutdown_caps" \/ rv' = "EXIT_SUCCESS" => Complete'
  BY Zenon, <1>1, <1>2, <1>3 DEF Complete, Full
<1>9. rv' = "EXIT_SUCCESS" => pc' \in {"fail", "done"} /\ (run_as_root => cred.E = {"KILL"})'
  BY Zenon, <1>1, <1>2 DEF run_as_root
<1>10. /\ pc' \in BeforeMount => mounted' = <<>>
       /\ pc' \in {"device", "ldcache_caps", "ldcache"} => mounted' # <<>>
       /\ pc' \in Mounting => conf'.cmd = "configure"
       /\ conf'.cmd # "configure" => mounted' = <<>> /\ updated' = FALSE
  BY Zenon, <1>1, <1>2, <1>4
<1> QED
  BY Zenon, <1>6, <1>7, <1>8, <1>9, <1>10 DEF MountInv

(* A mount appends to what is mounted. *)
LEMMA Appended ==
  ASSUME NEW s \in Seq(Int), NEW x \in Int
  PROVE  /\ Append(s, x) \in Seq(Int) /\ Append(s, x) # <<>> /\ Len(Append(s, x)) = Len(s) + 1 /\ Len(s) \in Nat
         /\ \A i \in 1 .. Len(s) : Append(s, x)[i] = s[i]
         /\ Append(s, x)[Len(s) + 1] = x /\ (s # <<>> => 1 \in 1 .. Len(s)) /\ (s = <<>> => Len(s) = 0)
  OBVIOUS

(* The selected GPUs are a sequence of integers. *)
LEMMA SelectedType ==
  ASSUME SelectionInv
  PROVE  devices.gpus \in Seq(Int) /\ Len(devices.gpus) \in Nat
<1>1. devices.gpus \in Seq(0 .. conf.ngpus - 1)
  BY Zenon DEF SelectionInv, Good
<1> DEFINE s == devices.gpus
           n == conf.ngpus - 1
<1>2. Len(s) \in Nat /\ s \in [1 .. Len(s) -> 0 .. n]
  BY Zenon, <1>1, LenProperties
<1> HIDE DEF s, n
<1>3. s \in [1 .. Len(s) -> Int]
  BY <1>2
<1>4. s \in Seq(Int)
  BY Zenon, <1>2, <1>3, SeqDef
<1> QED
  BY Zenon, <1>2, <1>4 DEF s

(* The mount of the driver is the first. *)
LEMMA DriverStep ==
  ASSUME MountInv, SelectionInv, nvc_driver_mount
  PROVE  MountInv'
<1>1. /\ pc = "driver" /\ mounted = <<>> /\ conf.cmd = "configure" /\ rv # "EXIT_SUCCESS" /\ InOrder
      /\ UNCHANGED <<conf, major, devices, updated, listed, rv>>
  BY Zenon DEF MountInv, BeforeMount, Mounting, nvc_driver_mount, Input
<1>2. CASE mounted' = mounted /\ pc' = "fail"
  <2>1. InOrder'
    BY Zenon, <1>1, <1>2 DEF InOrder
  <2> QED
    BY Zenon, <1>1, <1>2, <2>1 DEF MountInv, BeforeMount, Mounting
<1>3. CASE mounted' = Append(mounted, Driver) /\ pc' = "device"
  <2>1. mounted \in Seq(Int) /\ Driver \in Int
    BY <1>1 DEF InOrder, Driver
  <2>2. /\ mounted' \in Seq(Int) /\ mounted' # <<>> /\ Len(mounted') = 1 /\ mounted'[1] = Driver
    BY <1>1, <1>3, <2>1
  <2>3. Len(devices.gpus) \in Nat
    BY Zenon, SelectedType
  <2>4. 1 .. Len(mounted') - 1 = {} /\ Len(mounted') <= 1 /\ Len(mounted') <= Len(devices.gpus) + 1
    BY <2>2, <2>3
  <2> QED
    BY Zenon, <1>1, <1>3, <2>2, <2>4 DEF MountInv, BeforeMount, Mounting, InOrder
<1> QED
  BY Zenon, <1>2, <1>3 DEF nvc_driver_mount, Goto

(* The mount of a device is the one of the next selected GPU. *)
LEMMA DeviceStep ==
  ASSUME MountInv, SelectionInv, nvc_device_mount
  PROVE  MountInv'
<1>1. /\ pc = "device" /\ mounted # <<>> /\ conf.cmd = "configure" /\ rv # "EXIT_SUCCESS" /\ InOrder
      /\ UNCHANGED <<conf, major, devices, updated, listed, rv>> /\ major = 1 /\ Len(mounted) <= Len(devices.gpus)
  BY Zenon DEF MountInv, BeforeMount, Mounting, nvc_device_mount, Input, HasDeviceMounts
<1>2. CASE mounted' = mounted /\ pc' = "fail"
  <2>1. InOrder'
    BY Zenon, <1>1, <1>2 DEF InOrder
  <2> QED
    BY Zenon, <1>1, <1>2, <2>1 DEF MountInv, BeforeMount, Mounting
<1>3. CASE mounted' = Append(mounted, devices.gpus[Len(mounted)]) /\ pc' = pc
  <2> DEFINE s == devices.gpus
             x == s[Len(mounted)]
  <2>1. mounted \in Seq(Int) /\ mounted[1] = Driver /\ \A i \in 1 .. Len(mounted) - 1 : mounted[i + 1] = s[i]
    BY Zenon, <1>1 DEF InOrder
  <2>2. s \in Seq(Int) /\ Len(s) \in Nat
    BY Zenon, SelectedType
  <2>3. Len(mounted) \in 1 .. Len(s)
    BY <1>1, <2>1, <2>2
  <2>4. x \in Int
    BY Zenon, <2>2, <2>3, ElementOfSeq
  <2> DEFINE k == Len(mounted)
             t == Append(mounted, x)
  <2>5. /\ t \in Seq(Int) /\ t # <<>> /\ Len(t) = k + 1 /\ k \in Nat
        /\ \A i \in 1 .. k : t[i] = mounted[i]
        /\ t[k + 1] = s[k] /\ 1 \in 1 .. k
    BY Zenon, <1>1, <2>1, <2>4, Appended
  <2>6. mounted' = t
    BY Zenon, <1>3
  <2> HIDE DEF t, k, s
  <2>7. \A i \in 1 .. Len(t) - 1 : i = k \/ (i \in 1 .. k - 1 /\ i + 1 \in 1 .. k)
    BY <2>5
  <2>8. \A i \in 1 .. Len(t) - 1 : t[i + 1] = s[i]
    BY Zenon, <2>1, <2>5, <2>7 DEF k
  <2>9. Len(t) <= Len(s) + 1
    BY <1>1, <2>2, <2>5 DEF s, k
  <2>10. InOrder'
    BY Zenon, <1>1, <2>1, <2>5, <2>6, <2>8, <2>9 DEF InOrder, s
  <2> QED
    BY Zenon, <1>1, <1>3, <2>5, <2>6, <2>10 DEF MountInv, BeforeMount, Mounting
<1> QED
  BY Zenon, <1>2, <1>3 DEF nvc_device_mount, Goto

(* After the last device all is mounted. *)
LEMMA MountedStep ==
  ASSUME MountInv, SelectionInv, DevicesMounted
  PROVE  MountInv'
<1>1. /\ pc = "device" /\ mounted # <<>> /\ conf.cmd = "configure" /\ rv # "EXIT_SUCCESS" /\ InOrder
      /\ pc' = "ldcache_caps" /\ (major # 1 \/ Len(mounted) > Len(devices.gpus))
      /\ UNCHANGED <<conf, major, devices, mounted, updated, listed, rv>>
  BY Zenon DEF MountInv, BeforeMount, Mounting, DevicesMounted, Input, Lib, Goto, HasDeviceMounts
<1>2. /\ mounted \in Seq(Int) /\ Len(mounted) <= Len(devices.gpus) + 1 /\ (major # 1 => Len(mounted) <= 1)
  BY Zenon, <1>1 DEF InOrder
<1>3. Len(devices.gpus) \in Nat
  BY Zenon, SelectedType
<1>4. (major = 1 => Len(mounted) = Len(devices.gpus) + 1) /\ (major # 1 => Len(mounted) = 1)
  <2> DEFINE k == Len(mounted)
             n == Len(devices.gpus)
  <2>1. k \in Nat /\ k # 0 /\ n \in Nat
    BY <1>1, <1>2, <1>3
  <2>2. /\ k <= n + 1 /\ (major # 1 => k <= 1) /\ (major # 1 \/ k > n)
    BY Zenon, <1>1, <1>2
  <2> HIDE DEF k, n
  <2>3. (major = 1 => k = n + 1) /\ (major # 1 => k = 1)
    BY <2>1, <2>2
  <2> QED
    BY Zenon, <2>3 DEF k, n
<1>5. Full' /\ InOrder'
  BY Zenon, <1>1, <1>4 DEF Full, InOrder
<1> QED
  BY Zenon, <1>1, <1>5 DEF MountInv, BeforeMount, Mounting

(* The update of the library cache completes configure, the output list    *)
(* and info.                                                               *)
LEMMA CompletingStep ==
  ASSUME MountInv, RequirementsInv, nvc_ldcache_update \/ ListNodes \/ PrintDevices
  PROVE  MountInv'
<1>1. /\ UNCHANGED <<conf, major, devices, mounted, rv>> /\ InOrder /\ rv # "EXIT_SUCCESS"
      /\ pc' \in {"shutdown_caps", "fail"}
  BY Zenon DEF MountInv, nvc_ldcache_update, ListNodes, PrintDevices, Input, Goto
<1>2. InOrder' /\ Named' = Named
  BY Zenon, <1>1 DEF InOrder, Named
<1>3. conf.cmd # "configure" => mounted = <<>> /\ updated' = FALSE
  BY Zenon DEF MountInv, Mounting, nvc_ldcache_update, ListNodes, PrintDevices
<1>4. pc' = "shutdown_caps" => Complete'
  <2>1. CASE nvc_ldcache_update
    BY Zenon, <1>1, <2>1 DEF nvc_ldcache_update, MountInv, Mounting, Complete, Full, Goto
  <2>2. CASE ListNodes
    BY Zenon, <1>1, <1>2, <2>2 DEF ListNodes, Complete, DriverNodes
  <2>3. CASE PrintDevices
    BY Zenon, <1>1, <2>3 DEF PrintDevices, Complete
  <2> QED
    BY Zenon, <2>1, <2>2, <2>3
<1> QED
  BY Zenon, <1>1, <1>2, <1>3, <1>4 DEF MountInv, BeforeMount, Mounting

(* The last stage leaves KILL alone in effect. *)
LEMMA EndStep ==
  ASSUME MountInv, ServicesInv, ShutdownCaps
  PROVE  MountInv'
<1>1. /\ UNCHANGED <<conf, major, devices, mounted, updated, listed>> /\ InOrder /\ rv # "EXIT_SUCCESS"
      /\ pc' = "fail" /\ Complete /\ (conf.cmd # "configure" => mounted = <<>> /\ updated = FALSE)
  BY Zenon DEF MountInv, ShutdownCaps, Input, Lib, Goto
<1>2. InOrder' /\ Named' = Named
  BY Zenon, <1>1 DEF InOrder, Named
<1>3. Complete'
  BY Zenon, <1>1, <1>2 DEF Complete, Full
<1>4. rv' = "EXIT_SUCCESS" => (run_as_root => cred.E = {"KILL"})'
  <2>1. CASE cred' = SetEffective(cred, ecaps["shutdown"])
    <3>1. cred'.E = ecaps["shutdown"]
      BY Zenon, <2>1, OperationsKeep DEF ServicesInv
    <3>2. ecaps["shutdown"] = {"KILL"}
      BY DEF ecaps
    <3> QED
      BY Zenon, <3>1, <3>2
  <2>2. CASE cred' = cred /\ (rv' = rv \/ ~run_as_root)
    BY Zenon, <1>1, <2>2 DEF run_as_root
  <2> QED
    BY Zenon, <2>1, <2>2 DEF ShutdownCaps
<1> QED
  BY Zenon, <1>1, <1>2, <1>3, <1>4 DEF MountInv, BeforeMount, Mounting

(* What the four parts of the argument assume of one another. *)
CommandsInv == ServicesInv /\ RequirementsInv /\ SelectionInv /\ MountInv

(* No step breaks one of them. *)
LEMMA CommandsStep == CommandsInv /\ [CommandsNext]_vars => CommandsInv'
<1> SUFFICES ASSUME CommandsInv, [CommandsNext]_vars PROVE CommandsInv'
  OBVIOUS
<1>1. ServicesInv /\ RequirementsInv /\ SelectionInv /\ MountInv
  BY Zenon DEF CommandsInv
<1>2. ServicesInv' /\ RequirementsInv' /\ SelectionInv'
  BY Zenon, <1>1, ServicesStep, RequirementsStep, SelectionStep
<1>3. MountInv'
  BY ZenonT(30), <1>1, QuietSteps, QuietStep, DriverStep, DeviceStep, MountedStep, CompletingStep, EndStep
<1> QED
  BY Zenon, <1>2, <1>3 DEF CommandsInv

(* They hold when the program starts. *)
LEMMA CommandsStart == CommandsInit => CommandsInv
<1> SUFFICES ASSUME CommandsInit PROVE CommandsInv
  OBVIOUS
<1>1. ServicesInv
  <2>1. \A c \in Cred : Fields(c)
    BY DEF Cred, Fields
  <2> QED
    BY Zenon, <2>1, CommandsAssumption DEF CommandsInit, ServicesInv, NoService
<1>2. RequirementsInv
  BY Zenon DEF CommandsInit, RequirementsInv
<1>3. /\ conf \in Starts /\ pc = "load" /\ rv = "EXIT_FAILURE" /\ mounted = <<>> /\ updated = FALSE /\ tok = 1
      /\ gpu = 0 /\ devices = [gpus |-> <<>>, all |-> FALSE, exceeds |-> FALSE]
  BY Zenon DEF CommandsInit
<1>4. devices.gpus = <<>> /\ devices.all = FALSE
  BY Zenon, <1>3
<1>5. /\ <<>> \in Seq(0 .. conf.ngpus - 1) /\ <<>> \in Seq(Int) /\ Len(<<>>) = 0 /\ 1 .. 0 = {} /\ 0 <= 1
      /\ 1 \in Nat \ {0} /\ 0 \in Nat
  OBVIOUS
<1>6. Range(<<>>) = {} /\ Cardinality({}) = 0
  BY FS_EmptySet DEF Range
<1>7. Good(devices)
  BY Zenon, <1>3, <1>4, <1>5, <1>6 DEF Good
<1>8. SelectionInv
  BY Zenon, <1>3, <1>4, <1>5, <1>7 DEF SelectionInv, Early, Late
<1>9. MountInv
  BY Zenon, <1>3, <1>5 DEF MountInv, InOrder, BeforeMount, Mounting
<1> QED
  BY Zenon, <1>1, <1>2, <1>8, <1>9 DEF CommandsInv

(* No device is selected or mounted twice, whatever the list names, and    *)
(* the array never is too small.                                           *)
THEOREM SelectsOnce == CommandsSpec => []SelectedOnce
<1>1. ASSUME CommandsInv PROVE SelectedOnce
  <2> DEFINE s == devices.gpus
  <2>1. Good(devices) /\ InOrder
    BY Zenon, <1>1 DEF CommandsInv, SelectionInv, MountInv
  <2>2. s \in Seq(0 .. conf.ngpus - 1) /\ \A i, j \in 1 .. Len(s) : s[i] = s[j] => i = j
    BY Zenon, <2>1 DEF Good
  <2>3. devices.exceeds = FALSE
    BY Zenon, <2>1, NotExceeded
  <2>4. Len(s) \in Nat
    BY Zenon, <1>1, SelectedType DEF CommandsInv
  <2>5. ASSUME NEW i \in 1 .. Len(mounted), NEW j \in 1 .. Len(mounted), mounted[i] = mounted[j], i # j PROVE FALSE
    <3>1. mounted \in Seq(Int) /\ Len(mounted) \in Nat
      BY Zenon, <2>1, LenProperties DEF InOrder
    <3>2. mounted # <<>>
      BY <3>1
    <3>3. /\ mounted[1] = Driver /\ Len(mounted) <= Len(s) + 1
          /\ \A k \in 1 .. Len(mounted) - 1 : mounted[k + 1] = s[k]
      BY Zenon, <2>1, <3>2 DEF InOrder
    <3>4. \A k \in 1 .. Len(s) : s[k] \in 0 .. conf.ngpus - 1
      BY Zenon, <2>2, ElementOfSeq
    <3>5. Driver \notin 0 .. conf.ngpus - 1
      BY DEF Driver
    <3> HIDE DEF s
    <3>6. ASSUME NEW k \in 1 .. Len(mounted), k # 1
          PROVE  k - 1 \in 1 .. Len(s) /\ k - 1 \in 1 .. Len(mounted) - 1 /\ k = (k - 1) + 1
      BY <2>4, <3>1, <3>3, <3>6
    <3>7. ASSUME NEW k \in 1 .. Len(mounted), k # 1
          PROVE  mounted[k] = s[k - 1] /\ mounted[k] # Driver /\ k - 1 \in 1 .. Len(s)
      BY ZenonT(30), <3>3, <3>4, <3>5, <3>6, <3>7
    <3>8. i # 1 /\ j # 1
      BY Zenon, <2>5, <3>3, <3>7
    <3>9. i - 1 = j - 1
      BY Zenon, <2>2, <2>5, <3>7, <3>8 DEF s
    <3> QED
      BY <2>5, <3>9
  <2> QED
    BY Zenon, <2>3, <2>5 DEF SelectedOnce
<1> QED
  BY <1>1, CommandsStart, CommandsStep, PTL DEF CommandsSpec

(* A command that succeeds has selected all it names, and mounted and      *)
(* updated or listed all that.                                             *)
THEOREM SuccessCompletes == CommandsSpec => []SuccessIsComplete
<1>1. ASSUME CommandsInv, rv = "EXIT_SUCCESS" PROVE SuccessIsComplete
  <2>1. /\ Good(devices) /\ Selected /\ InOrder /\ Complete /\ conf \in Starts
        /\ (conf.cmd # "configure" => mounted = <<>> /\ updated = FALSE) /\ (run_as_root => cred.E = {"KILL"})
    BY Zenon, <1>1 DEF CommandsInv, SelectionInv, MountInv
  <2>2. devices.gpus \in Seq(Int) /\ Len(devices.gpus) \in Nat
    BY Zenon, <1>1, SelectedType DEF CommandsInv
  <2>3. CASE conf.cmd = "configure"
    <3> DEFINE s == devices.gpus
               t == IF major = 1 THEN s ELSE <<>>
               u == <<Driver>> \o t
    <3>1. mounted # <<>> /\ Full /\ updated = TRUE
      BY Zenon, <2>1, <2>3 DEF Complete
    <3>2. mounted \in Seq(Int) /\ mounted[1] = Driver /\ \A i \in 1 .. Len(mounted) - 1 : mounted[i + 1] = s[i]
      BY Zenon, <2>1, <3>1 DEF InOrder
    <3>3. <<Driver>> \in Seq(Int) /\ Len(<<Driver>>) = 1 /\ <<Driver>>[1] = Driver
      BY DEF Driver
    <3>4. <<>> \in Seq(Int) /\ Len(<<>>) = 0
      OBVIOUS
    <3>5. t \in Seq(Int) /\ Len(t) \in Nat /\ (major = 1 => t = s) /\ (major # 1 => Len(t) = 0)
      BY Zenon, <2>2, <3>4
    <3>6. Len(mounted) = Len(t) + 1
      BY <2>2, <3>1, <3>4, <3>5 DEF Full
    <3> HIDE DEF t
    <3>7. /\ u \in Seq(Int) /\ Len(u) = Len(<<Driver>>) + Len(t)
          /\ \A i \in 1 .. Len(<<Driver>>) + Len(t) :
               u[i] = IF i <= Len(<<Driver>>) THEN <<Driver>>[i] ELSE t[i - Len(<<Driver>>)]
      BY Zenon, <3>3, <3>5, ConcatProperties
    <3> HIDE DEF u, s
    <3>8. Len(mounted) = Len(u)
      BY <3>3, <3>5, <3>6, <3>7
    <3>9. ASSUME NEW i \in 1 .. Len(mounted) PROVE mounted[i] = u[i]
      <4>1. u[i] = IF i <= 1 THEN <<Driver>>[i] ELSE t[i - 1]
        BY Zenon, <3>3, <3>7, <3>8
      <4>2. CASE i = 1
        BY <3>2, <3>3, <4>1, <4>2
      <4>3. CASE i # 1
        <5>1. i - 1 \in 1 .. Len(mounted) - 1 /\ i = (i - 1) + 1 /\ ~(i <= 1) /\ Len(t) # 0
          BY <3>5, <3>6, <4>3
        <5> QED
          BY Zenon, <3>2, <3>5, <4>1, <5>1
      <4> QED
        BY Zenon, <4>2, <4>3
    <3>10. mounted = u
      BY Zenon, <3>2, <3>7, <3>8, <3>9, SeqEqual
    <3> QED
      BY Zenon, <2>1, <2>3, <3>1, <3>10 DEF SuccessIsComplete, Selected, t, u, s
  <2>4. CASE conf.cmd = "list"
    <3>1. ASSUME conf.bare = TRUE PROVE Range(devices.gpus) = 0 .. conf.ngpus - 1
      <4> DEFINE s == devices.gpus
                 S == 0 .. conf.ngpus - 1
      <4>1. s \in Seq(S) /\ DOMAIN s = 1 .. Len(s)
        BY Zenon, <2>1, LenProperties DEF Good
      <4>2. Range(s) \subseteq S
        BY Zenon, <4>1, ElementOfSeq DEF Range
      <4>3. \A g \in S : g \in Range(s)
        <5>1. CASE conf.ngpus > 0
          <6>1. Named = <<[kind |-> "all", gpu |-> 0]>>
            BY Zenon, <2>4, <3>1 DEF Named
          <6>2. 1 \in 1 .. Len(<<[kind |-> "all", gpu |-> 0]>>) /\ <<[kind |-> "all", gpu |-> 0]>>[1].kind = "all"
            OBVIOUS
          <6>3. AllSelected
            BY Zenon, <2>1, <2>4, <5>1, <6>1, <6>2 DEF Selected
          <6> QED
            BY Zenon, <6>3 DEF AllSelected
        <5>2. CASE ~(conf.ngpus > 0)
          <6>1. conf.ngpus \in Nat
            BY Zenon, <2>1, NamedType
          <6>2. S = {}
            BY <5>2, <6>1
          <6> QED
            BY Zenon, <6>2
        <5> QED
          BY Zenon, <5>1, <5>2
      <4>4. S \subseteq Range(s)
        BY Zenon, <4>1, <4>3 DEF Range
      <4> QED
        BY Zenon, <4>2, <4>4
    <3>2. conf.bare \in BOOLEAN
      BY Zenon, <2>1, CommandsAssumption
    <3> QED
      BY Zenon, <2>1, <2>4, <3>1, <3>2 DEF SuccessIsComplete, Selected, Complete
  <2>5. CASE conf.cmd # "configure" /\ conf.cmd # "list"
    BY Zenon, <2>1, <2>5 DEF SuccessIsComplete, Selected
  <2> QED
    BY Zenon, <2>3, <2>4, <2>5
<1>2. CommandsInv => SuccessIsComplete
  BY Zenon, <1>1 DEF SuccessIsComplete
<1> QED
  BY <1>2, CommandsStart, CommandsStep, PTL DEF CommandsSpec
-----------------------------------------------------------------------------
(* The lesser, and the greater, of two numbers. *)
LEMMA MinOfTwo ==
  ASSUME NEW a \in Nat, NEW b \in Nat
  PROVE  Min({a, b}) = IF a <= b THEN a ELSE b
<1>1. Min({a, b}) \in {a, b} /\ \A y \in {a, b} : Min({a, b}) <= y
  <2>1. \E x \in {a, b} : \A y \in {a, b} : x <= y
    OBVIOUS
  <2> QED
    BY Zenon, <2>1 DEF Min
<1> QED
  BY <1>1

LEMMA MaxOfTwo ==
  ASSUME NEW a \in Nat, NEW b \in Nat
  PROVE  Max({a, b}) = IF a >= b THEN a ELSE b
<1>1. Max({a, b}) \in {a, b} /\ \A y \in {a, b} : Max({a, b}) >= y
  <2>1. \E x \in {a, b} : \A y \in {a, b} : x >= y
    OBVIOUS
  <2> QED
    BY Zenon, <2>1 DEF Max
<1> QED
  BY <1>1

(* A set of numbers that is not empty has a least one. *)
LEMMA LeastOfNat ==
  ASSUME NEW D, D \subseteq Nat, D # {}
  PROVE  Min(D) \in D /\ \A y \in D : Min(D) <= y
<1>1. \E x \in D : \A y \in D : ~ (<<y, x>> \in OpToRel(<, Nat))
  BY Zenon, WFMin, NatLessThanWellFounded
<1>2. PICK x \in D : \A y \in D : ~ (<<y, x>> \in OpToRel(<, Nat))
  BY Zenon, <1>1
<1>3. \A y \in D : ~ (y < x)
  BY Zenon, <1>2 DEF OpToRel
<1>4. \A y \in D : x <= y
  BY <1>3
<1> QED
  BY Zenon, <1>4 DEF Min

(* Padded with zeros, a version is numbers all along. *)
LEMMA AtIsNat ==
  ASSUME NEW v \in Seq(Nat), NEW i \in Nat \ {0}
  PROVE  At(v, i) \in Nat
<1>1. Len(v) \in Nat
  BY LenProperties
<1>2. CASE i <= Len(v)
  <2>1. i \in 1 .. Len(v)
    BY <1>1, <1>2
  <2> QED
    BY <1>2, <2>1, ElementOfSeq DEF At
<1>3. CASE ~(i <= Len(v))
  BY <1>3 DEF At
<1> QED
  BY Zenon, <1>2, <1>3

(* The first difference decides. *)
LEMMA FirstDifference ==
  ASSUME NEW v \in Seq(Nat), NEW w \in Seq(Nat), NEW m \in Nat \ {0}, m <= Len(v), m <= Len(w),
         v[m] # w[m], \A j \in 1 .. m - 1 : v[j] = w[j]
  PROVE  Before(v, w) <=> v[m] < w[m]
<1>1. Len(v) \in Nat /\ Len(w) \in Nat /\ v[m] \in Nat /\ w[m] \in Nat
  BY LenProperties, ElementOfSeq
<1>2. m \in 1 .. Max({Len(v), Len(w)}) /\ Max({Len(v), Len(w)}) \in Nat
  <2>1. Max({Len(v), Len(w)}) = IF Len(v) >= Len(w) THEN Len(v) ELSE Len(w)
    BY Zenon, <1>1, MaxOfTwo
  <2> QED
    BY <1>1, <2>1
<1>3. At(v, m) = v[m] /\ At(w, m) = w[m] /\ \A j \in 1 .. m - 1 : At(v, j) = At(w, j)
  BY <1>1 DEF At
<1>4. ASSUME v[m] < w[m] PROVE Before(v, w)
  BY Zenon, <1>2, <1>3, <1>4 DEF Before
<1>5. ASSUME Before(v, w) PROVE v[m] < w[m]
  <2>1. PICK i \in 1 .. Max({Len(v), Len(w)}) : At(v, i) < At(w, i) /\ \A j \in 1 .. i - 1 : At(v, j) = At(w, j)
    BY Zenon, <1>5 DEF Before
  <2>2. At(v, i) # At(w, i)
    <3>1. At(v, i) \in Nat /\ At(w, i) \in Nat
      BY <1>2, AtIsNat
    <3> QED
      BY <2>1, <3>1
  <2>3. ~(i < m)
    BY <1>2, <1>3, <2>2
  <2>4. ~(m < i)
    BY <1>2, <1>3, <2>1
  <2>5. i = m
    BY <1>2, <2>3, <2>4
  <2> QED
    BY Zenon, <1>3, <2>1, <2>5
<1> QED
  BY Zenon, <1>4, <1>5

(* Without one, the rest of the second version does. *)
LEMMA NoDifference ==
  ASSUME NEW v \in Seq(Nat), NEW w \in Seq(Nat), NEW n \in Nat, n <= Len(v), n <= Len(w),
         n = Len(v) \/ n = Len(w), \A j \in 1 .. n : v[j] = w[j]
  PROVE  Before(v, w) <=> Rest(w, n)
<1>1. Len(v) \in Nat /\ Len(w) \in Nat
  BY LenProperties
<1>2. Max({Len(v), Len(w)}) \in Nat /\ Len(v) <= Max({Len(v), Len(w)}) /\ Len(w) <= Max({Len(v), Len(w)})
  <2>1. Max({Len(v), Len(w)}) = IF Len(v) >= Len(w) THEN Len(v) ELSE Len(w)
    BY Zenon, <1>1, MaxOfTwo
  <2> QED
    BY <1>1, <2>1
<1>3. ASSUME Before(v, w) PROVE Rest(w, n)
  <2>1. PICK i \in 1 .. Max({Len(v), Len(w)}) : At(v, i) < At(w, i) /\ \A j \in 1 .. i - 1 : At(v, j) = At(w, j)
    BY Zenon, <1>3 DEF Before
  <2>2. At(v, i) \in Nat /\ At(w, i) \in Nat
    BY <1>2, AtIsNat
  <2>3. i \notin 1 .. n
    BY <1>1, <1>2, <2>1, <2>2 DEF At
  <2>4. At(w, i) # 0
    BY <2>1, <2>2
  <2>5. i \in n + 1 .. Len(w) /\ w[i] # 0
    BY <1>1, <1>2, <2>3, <2>4 DEF At
  <2> QED
    BY Zenon, <2>5 DEF Rest
<1>4. ASSUME Rest(w, n) PROVE Before(v, w)
  <2> DEFINE D == {i \in n + 1 .. Len(w) : w[i] # 0}
             m == Min(D)
  <2>1. D # {} /\ D \subseteq Nat
    <3>1. PICK i \in n + 1 .. Len(w) : w[i] # 0
      BY Zenon, <1>4 DEF Rest
    <3>2. i \in D
      BY Zenon, <3>1
    <3>3. D \subseteq Nat
      BY <1>1
    <3> QED
      BY Zenon, <3>2, <3>3
  <2>2. m \in D /\ \A y \in D : m <= y
    BY Zenon, <2>1, LeastOfNat
  <2> HIDE DEF m
  <2>3. m \in n + 1 .. Len(w) /\ w[m] # 0 /\ \A j \in n + 1 .. m - 1 : w[j] = 0
    BY <1>1, <2>2
  <2>4. n = Len(v)
    BY <1>1, <2>3
  <2>5. w[m] \in Nat
    BY <1>1, <2>3, ElementOfSeq
  <2>6. At(v, m) < At(w, m)
    BY <1>1, <2>3, <2>4, <2>5 DEF At
  <2>7. \A j \in 1 .. m - 1 : At(v, j) = At(w, j)
    BY <1>1, <2>3, <2>4 DEF At
  <2>8. m \in 1 .. Max({Len(v), Len(w)})
    BY <1>1, <1>2, <2>3
  <2> QED
    BY Zenon, <2>6, <2>7, <2>8 DEF Before
<1> QED
  BY Zenon, <1>3, <1>4

(* Text is not a version. *)
LEMMA TextIsNoVersion == Text \notin Seq(Nat)
<1> SUFFICES ASSUME Text \in Seq(Nat)
             PROVE  FALSE
  OBVIOUS
<1>1. Len(Text) = 1 /\ Text[1] = -1
  BY DEF Text
<1>2. 1 \in 1 .. Len(Text)
  BY <1>1
<1>3. Text[1] \in Nat
  BY Zenon, <1>2, ElementOfSeq
<1> QED
  BY <1>1, <1>3

(* dsl_compare_version orders versions, by each of the comparators. *)
LEMMA Compared ==
  ASSUME NEW v \in Seq(Nat), NEW w \in Seq(Nat)
  PROVE  /\ dsl_compare_version(v, "EQUAL", w) = IF ~Before(v, w) /\ ~Before(w, v) THEN 1 ELSE 0
         /\ dsl_compare_version(v, "NOT_EQUAL", w) = IF Before(v, w) \/ Before(w, v) THEN 1 ELSE 0
         /\ dsl_compare_version(v, "LESS", w) = IF Before(v, w) THEN 1 ELSE 0
         /\ dsl_compare_version(v, "LESS_EQUAL", w) = IF Before(w, v) THEN 0 ELSE 1
         /\ dsl_compare_version(v, "GREATER", w) = IF Before(w, v) THEN 1 ELSE 0
         /\ dsl_compare_version(v, "GREATER_EQUAL", w) = IF Before(v, w) THEN 0 ELSE 1
<1>1. Len(v) \in Nat /\ Len(w) \in Nat
  BY LenProperties
<1>2. v # Text /\ w # Text
  BY Zenon, TextIsNoVersion
<1> DEFINE n  == Min({Len(v), Len(w)})
           D  == {i \in 1 .. n : v[i] # w[i]}
           m  == Min(D)
<1>3. n = IF Len(v) <= Len(w) THEN Len(v) ELSE Len(w)
  BY Zenon, <1>1, MinOfTwo
<1>4. n \in Nat /\ n <= Len(v) /\ n <= Len(w) /\ (n = Len(v) \/ n = Len(w))
  BY <1>1, <1>3
<1> HIDE DEF n
<1>5. CASE D # {}
  <2>1. D \subseteq Nat
    BY <1>4
  <2>2. m \in D /\ \A y \in D : m <= y
    BY Zenon, <1>5, <2>1, LeastOfNat
  <2> HIDE DEF m
  <2>3. m \in Nat \ {0} /\ m <= Len(v) /\ m <= Len(w) /\ v[m] # w[m] /\ \A j \in 1 .. m - 1 : v[j] = w[j]
    BY <1>1, <1>4, <2>2
  <2>4. (Before(v, w) <=> v[m] < w[m]) /\ (Before(w, v) <=> w[m] < v[m])
    BY Zenon, <2>3, FirstDifference
  <2>5. v[m] \in Nat /\ w[m] \in Nat
    BY <1>1, <2>3, ElementOfSeq
  <2>6. (v[m] > w[m] <=> Before(w, v)) /\ (Before(v, w) \/ Before(w, v)) /\ ~(Before(v, w) /\ Before(w, v))
    BY <2>3, <2>4, <2>5
  <2>7. /\ dsl_compare_version(v, "EQUAL", w) = 0
        /\ dsl_compare_version(v, "NOT_EQUAL", w) = 1
        /\ dsl_compare_version(v, "LESS", w) = IF v[m] < w[m] THEN 1 ELSE 0
        /\ dsl_compare_version(v, "LESS_EQUAL", w) = IF v[m] < w[m] THEN 1 ELSE 0
        /\ dsl_compare_version(v, "GREATER", w) = IF v[m] > w[m] THEN 1 ELSE 0
        /\ dsl_compare_version(v, "GREATER_EQUAL", w) = IF v[m] > w[m] THEN 1 ELSE 0
    BY Zenon, <1>2, <1>5 DEF dsl_compare_version, n, m
  <2> QED
    BY Zenon, <2>4, <2>6, <2>7
<1>6. CASE D = {}
  <2>1. \A j \in 1 .. n : v[j] = w[j] /\ w[j] = v[j]
    BY Zenon, <1>6
  <2>2. (Before(v, w) <=> Rest(w, n)) /\ (Before(w, v) <=> Rest(v, n))
    BY Zenon, <1>4, <2>1, NoDifference
  <2>3. ~(Rest(v, n) /\ Rest(w, n))
    BY <1>1, <1>4 DEF Rest
  <2>4. /\ dsl_compare_version(v, "EQUAL", w) = IF ~Rest(v, n) /\ ~Rest(w, n) THEN 1 ELSE 0
        /\ dsl_compare_version(v, "NOT_EQUAL", w) = IF Rest(v, n) \/ Rest(w, n) THEN 1 ELSE 0
        /\ dsl_compare_version(v, "LESS", w) = IF ~Rest(v, n) /\ Rest(w, n) THEN 1 ELSE 0
        /\ dsl_compare_version(v, "LESS_EQUAL", w) = IF ~Rest(v, n) THEN 1 ELSE 0
        /\ dsl_compare_version(v, "GREATER", w) = IF Rest(v, n) /\ ~Rest(w, n) THEN 1 ELSE 0
        /\ dsl_compare_version(v, "GREATER_EQUAL", w) = IF ~Rest(w, n) THEN 1 ELSE 0
    BY Zenon, <1>2, <1>6 DEF dsl_compare_version, n
  <2> QED
    BY Zenon, <2>2, <2>3, <2>4
<1> QED
  BY Zenon, <1>5, <1>6

(* What a rule answers: an error, or whether the reference says so. *)
LEMMA RuleAnswers ==
  ASSUME NEW e, e.rule \in {"cuda", "driver", "arch"} => e.val \in Seq(Nat) \cup {Text}
  PROVE  /\ evaluate_rule(e) \in {-1, 0, 1}
         /\ ~Malformed(e) => (evaluate_rule(e) = 1 <=> Holds(e))
<1> DEFINE v == Data[e.rule]
           w == e.val
           known == e.op \in DOMAIN operators /\ e.val # <<>> /\ e.rule \in DOMAIN Data
<1>0. 0 # 1 /\ 1 # -1 /\ 0 # -1
  OBVIOUS
<1>1. CASE ~known
  BY Zenon, <1>1 DEF evaluate_rule, Malformed
<1>2. CASE known /\ v = NULL
  <2>1. evaluate_rule(e) = 1 /\ Holds(e)
    BY Zenon, <1>2 DEF evaluate_rule, Check, Holds
  <2> QED
    BY Zenon, <2>1
<1> DEFINE o == operators[e.op]
<1>3. ASSUME known
      PROVE  \/ e.op = "=" /\ o = "EQUAL"
             \/ e.op \in {"!=", "!"} /\ o = "NOT_EQUAL"
             \/ e.op = "<" /\ o = "LESS"
             \/ e.op = "<=" /\ o = "LESS_EQUAL"
             \/ e.op = ">" /\ o = "GREATER"
             \/ e.op = ">=" /\ o = "GREATER_EQUAL"
  BY <1>3 DEF operators
<1>4. CASE known /\ v # NULL /\ e.rule = "brand"
  <2>1. evaluate_rule(e) = dsl_compare_string(v, o, w)
    BY Zenon, <1>4 DEF evaluate_rule, Check
  <2>2. Holds(e) <=> IF e.op = "=" THEN v = w ELSE v # w
    BY Zenon, <1>4 DEF Holds
  <2>3. CASE o = "EQUAL"
    BY ZenonT(30), <1>0, <1>3, <1>4, <2>1, <2>2, <2>3 DEF dsl_compare_string
  <2>4. CASE o = "NOT_EQUAL"
    BY ZenonT(30), <1>0, <1>3, <1>4, <2>1, <2>2, <2>4 DEF dsl_compare_string
  <2>5. CASE o # "EQUAL" /\ o # "NOT_EQUAL"
    <3>1. evaluate_rule(e) = -1
      BY Zenon, <2>1, <2>5 DEF dsl_compare_string
    <3> QED
      BY Zenon, <3>1 DEF Malformed
  <2> QED
    BY Zenon, <2>3, <2>4, <2>5
<1>5. CASE known /\ v # NULL /\ e.rule # "brand"
  <2>1. e.rule \in {"cuda", "driver", "arch"}
    BY Zenon, <1>5, DslAssumption
  <2>2. v \in Seq(Nat) \cup {Text} /\ w \in Seq(Nat) \cup {Text}
    BY Zenon, <1>5, <2>1, DslAssumption
  <2>3. evaluate_rule(e) = dsl_compare_version(v, o, w)
    BY Zenon, <1>5 DEF evaluate_rule, Check
  <2>4. CASE v = Text \/ w = Text
    <3>1. evaluate_rule(e) = -1
      BY Zenon, <2>3, <2>4 DEF dsl_compare_version
    <3> QED
      BY Zenon, <3>1 DEF Malformed
  <2>5. CASE v # Text /\ w # Text
    <3>1. v \in Seq(Nat) /\ w \in Seq(Nat)
      BY Zenon, <2>2, <2>5
    <3> DEFINE B == Before(v, w)
               A == Before(w, v)
    <3>2. Holds(e) <=> CASE e.op = "="  -> ~B /\ ~A
                         [] e.op \in {"!=", "!"} -> B \/ A
                         [] e.op = "<"  -> B [] e.op = "<=" -> ~A
                         [] e.op = ">"  -> A [] e.op = ">=" -> ~B
      BY Zenon, <1>5 DEF Holds
    <3>3. CASE e.op = "=" /\ o = "EQUAL"
      <4>1. evaluate_rule(e) = IF ~B /\ ~A THEN 1 ELSE 0
        <5>1. evaluate_rule(e) = dsl_compare_version(v, "EQUAL", w)
          BY Zenon, <2>3, <3>3
        <5> QED
          BY Zenon, <3>1, <5>1, Compared
      <4> QED
        BY Zenon, <1>0, <3>2, <3>3, <4>1
    <3>4. CASE e.op \in {"!=", "!"} /\ o = "NOT_EQUAL"
      <4>1. evaluate_rule(e) = IF B \/ A THEN 1 ELSE 0
        <5>1. evaluate_rule(e) = dsl_compare_version(v, "NOT_EQUAL", w)
          BY Zenon, <2>3, <3>4
        <5> QED
          BY Zenon, <3>1, <5>1, Compared
      <4> QED
        BY Zenon, <1>0, <3>2, <3>4, <4>1
    <3>5. CASE e.op = "<" /\ o = "LESS"
      <4>1. evaluate_rule(e) = IF B THEN 1 ELSE 0
        <5>1. evaluate_rule(e) = dsl_compare_version(v, "LESS", w)
          BY Zenon, <2>3, <3>5
        <5> QED
          BY Zenon, <3>1, <5>1, Compared
      <4> QED
        BY Zenon, <1>0, <3>2, <3>5, <4>1
    <3>6. CASE e.op = "<=" /\ o = "LESS_EQUAL"
      <4>1. evaluate_rule(e) = IF A THEN 0 ELSE 1
        <5>1. evaluate_rule(e) = dsl_compare_version(v, "LESS_EQUAL", w)
          BY Zenon, <2>3, <3>6
        <5> QED
          BY Zenon, <3>1, <5>1, Compared
      <4> QED
        BY Zenon, <1>0, <3>2, <3>6, <4>1
    <3>7. CASE e.op = ">" /\ o = "GREATER"
      <4>1. evaluate_rule(e) = IF A THEN 1 ELSE 0
        <5>1. evaluate_rule(e) = dsl_compare_version(v, "GREATER", w)
          BY Zenon, <2>3, <3>7
        <5> QED
          BY Zenon, <3>1, <5>1, Compared
      <4> QED
        BY Zenon, <1>0, <3>2, <3>7, <4>1
    <3>8. CASE e.op = ">=" /\ o = "GREATER_EQUAL"
      <4>1. evaluate_rule(e) = IF B THEN 0 ELSE 1
        <5>1. evaluate_rule(e) = dsl_compare_version(v, "GREATER_EQUAL", w)
          BY Zenon, <2>3, <3>8
        <5> QED
          BY Zenon, <3>1, <5>1, Compared
      <4> QED
        BY Zenon, <1>0, <3>2, <3>8, <4>1
    <3> QED
      BY ZenonT(30), <1>3, <1>5, <3>3, <3>4, <3>5, <3>6, <3>7, <3>8
  <2> QED
    BY Zenon, <2>4, <2>5
<1> QED
  BY Zenon, <1>1, <1>2, <1>4, <1>5

-----------------------------------------------------------------------------
(* The expressions of the group before the current one hold, all groups    *)
(* before the current one have one that does not, and ret is the result    *)
(* of the last expression that was evaluated.                              *)
Refuted(g) == \E e \in Exprs(predicate[g]) : ~Holds(e)

Evaluating ==
  /\ group <= Len(predicate) + 1
  /\ group <= Len(predicate) =>
       /\ expr <= Len(predicate[group]) + 1
       /\ \A j \in 1 .. expr - 1 : predicate[group][j] # Empty =>
            ~Malformed(predicate[group][j]) /\ Holds(predicate[group][j]) /\ ret = 1
  /\ group > Len(predicate) => expr = 1
  /\ \A g \in 1 .. group - 1 : predicate[g] # <<>> => Refuted(g) /\ (expr = 1 => ret = 0)

(* The invariant of dsl_evaluate. *)
DslInv ==
  /\ predicate \in Predicates /\ group \in Nat \ {0} /\ expr \in Nat \ {0}
  /\ verdict = -2 => Evaluating
  /\ PredicateIsDisjunction

(* Predicates and groups are sequences. *)
LEMMA Lengths ==
  ASSUME NEW p \in Predicates
  PROVE  Len(p) \in Nat /\ \A g \in 1 .. Len(p) : Len(p[g]) \in Nat
<1>1. p \in Seq(Seq(Expression))
  BY Zenon, DslAssumption
<1>2. \A g \in 1 .. Len(p) : p[g] \in Seq(Expression)
  BY Zenon, <1>1, ElementOfSeq
<1> QED
  BY Zenon, <1>1, <1>2, LenProperties

(* What evaluate_rule returns for an expression of the predicate. *)
LEMMA Answers ==
  ASSUME NEW p \in Predicates, NEW g \in 1 .. Len(p), NEW e \in Exprs(p[g])
  PROVE  /\ evaluate_rule(e) \in {-1, 0, 1}
         /\ ~Malformed(e) => (evaluate_rule(e) = 1 <=> Holds(e))
<1>1. PICK i \in 1 .. Len(p[g]) : e = p[g][i]
  BY Zenon DEF Exprs
<1> QED
  BY Zenon, <1>1, RuleAnswers, DslAssumption

(* One expression is evaluated. *)
LEMMA EvaluateStep ==
  ASSUME DslInv, Evaluate
  PROVE  DslInv'
<1> DEFINE e == predicate[group][expr]
           r == evaluate_rule(e)
<1>1. /\ verdict = -2 /\ group <= Len(predicate) /\ expr <= Len(predicate[group]) /\ e # Empty
      /\ predicate' = predicate /\ predicate \in Predicates
      /\ group \in Nat \ {0} /\ expr \in Nat \ {0} /\ Evaluating
  BY Zenon DEF DslInv, Evaluate, Running
<1>2. Len(predicate) \in Nat /\ \A g \in 1 .. Len(predicate) : Len(predicate[g]) \in Nat
  BY Zenon, <1>1, Lengths
<1>3. group \in 1 .. Len(predicate)
  BY <1>1, <1>2
<1>4. expr \in 1 .. Len(predicate[group])
  BY <1>1, <1>2, <1>3
<1>5. e \in Exprs(predicate[group])
  BY Zenon, <1>1, <1>4 DEF Exprs
<1>6. r \in {-1, 0, 1} /\ (~Malformed(e) => (r = 1 <=> Holds(e)))
  BY Zenon, <1>1, <1>3, <1>5, Answers
<1>7. 0 # 1 /\ 1 # -1 /\ 0 # -1 /\ -2 # -1 /\ -2 # 0
  OBVIOUS
<1>8. CASE r < 0 /\ ret' = r /\ verdict' = -1 /\ UNCHANGED <<group, expr>>
  <2>1. Malformed(e)
    <3>1. r = -1
      BY <1>6, <1>8
    <3> QED
      BY Zenon, <3>1 DEF Malformed
  <2>2. PredicateIsDisjunction'
    BY ZenonT(30), <1>1, <1>3, <1>5, <1>7, <1>8, <2>1 DEF PredicateIsDisjunction
  <2> QED
    BY Zenon, <1>1, <1>7, <1>8, <2>2 DEF DslInv
<1>9. CASE r = 0 /\ ret' = 0 /\ group' = group + 1 /\ expr' = 1 /\ UNCHANGED verdict
  <2>1. ~Holds(e)
    BY Zenon, <1>6, <1>7, <1>9 DEF Malformed
  <2>2. \A g \in 1 .. group : predicate[g] # <<>> => Refuted(g)
    <3>1. Refuted(group)
      BY Zenon, <1>5, <2>1 DEF Refuted
    <3>2. \A g \in 1 .. group : g = group \/ g \in 1 .. group - 1
      BY <1>1
    <3> QED
      BY Zenon, <1>1, <3>1, <3>2 DEF Evaluating
  <2>3. group' - 1 = group /\ group' <= Len(predicate') + 1 /\ group' \in Nat \ {0} /\ expr' \in Nat \ {0}
        /\ \A j : j \notin 1 .. expr' - 1
    BY <1>1, <1>2, <1>9
  <2>4. group' <= Len(predicate') => expr' <= Len(predicate'[group']) + 1
    BY <1>1, <1>2, <1>9
  <2>5. Evaluating'
    BY Zenon, <1>1, <1>9, <2>2, <2>3, <2>4 DEF Evaluating, Refuted
  <2>6. PredicateIsDisjunction'
    BY Zenon, <1>1, <1>7, <1>9 DEF PredicateIsDisjunction
  <2> QED
    BY Zenon, <1>1, <2>3, <2>5, <2>6 DEF DslInv
<1>10. CASE r = 1 /\ ret' = 1 /\ expr' = expr + 1 /\ UNCHANGED <<group, verdict>>
  <2>1. ~Malformed(e) /\ Holds(e)
    BY Zenon, <1>6, <1>7, <1>10 DEF Malformed
  <2>2. /\ expr' - 1 = expr /\ expr' # 1 /\ expr' \in Nat \ {0} /\ expr' <= Len(predicate[group]) + 1
        /\ ~(group > Len(predicate))
    BY <1>1, <1>2, <1>3, <1>4, <1>10
  <2>3. \A j \in 1 .. expr : j = expr \/ j \in 1 .. expr - 1
    BY <1>1
  <2>4. Evaluating'
    BY ZenonT(30), <1>1, <1>10, <2>1, <2>2, <2>3 DEF Evaluating, Refuted
  <2>5. PredicateIsDisjunction'
    BY Zenon, <1>1, <1>7, <1>10 DEF PredicateIsDisjunction
  <2> QED
    BY Zenon, <1>1, <1>10, <2>2, <2>4, <2>5 DEF DslInv
<1> QED
  BY Zenon, <1>8, <1>9, <1>10 DEF Evaluate

(* The end of a group, all of which holds, or of the predicate. *)
LEMMA EndSteps ==
  ASSUME DslInv, GroupEnds \/ PredicateEnds
  PROVE  DslInv'
<1>1. /\ verdict = -2 /\ verdict' = Result /\ UNCHANGED <<predicate, group, expr, ret>>
      /\ predicate \in Predicates /\ group \in Nat \ {0} /\ expr \in Nat \ {0} /\ Evaluating
  BY Zenon DEF DslInv, GroupEnds, PredicateEnds, Running
<1>2. Len(predicate) \in Nat /\ \A g \in 1 .. Len(predicate) : Len(predicate[g]) \in Nat
  BY Zenon, <1>1, Lengths
<1>3. 0 # -1 /\ 0 # 1 /\ -1 # -2 /\ 0 # -2
  OBVIOUS
<1>4. Result \in {0, -1} /\ Result # -2 /\ (Result = 0 <=> ret = 1)
  BY Zenon, <1>3 DEF Result
<1> SUFFICES PredicateIsDisjunction'
  BY Zenon, <1>1, <1>4 DEF DslInv
<1> DEFINE groups == {Exprs(predicate[g]) : g \in 1 .. Len(predicate)}
<1> SUFFICES ASSUME \A g \in 1 .. Len(predicate) : predicate[g] # <<>> => Exprs(predicate[g]) # {},
                    groups \ {{}} # {}
             PROVE  /\ Result = 0 => \E G \in groups \ {{}} : \A e \in G : ~Malformed(e) /\ Holds(e)
                    /\ Result = -1 => \A G \in groups \ {{}} : \E e \in G : ~Holds(e)
  BY ZenonT(30), <1>1 DEF PredicateIsDisjunction
<1>5. CASE GroupEnds
  <2>1. group <= Len(predicate) /\ predicate[group] # <<>> /\ expr > Len(predicate[group])
    BY Zenon, <1>5 DEF GroupEnds, Running
  <2>2. group \in 1 .. Len(predicate)
    BY <1>1, <1>2, <2>1
  <2>3. \A j \in 1 .. Len(predicate[group]) : j \in 1 .. expr - 1
    BY <1>1, <1>2, <2>1, <2>2
  <2>4. \A e \in Exprs(predicate[group]) : ~Malformed(e) /\ Holds(e) /\ ret = 1
    <3> SUFFICES ASSUME NEW e \in Exprs(predicate[group])
                 PROVE  ~Malformed(e) /\ Holds(e) /\ ret = 1
      BY Zenon
    <3>1. PICK j \in 1 .. Len(predicate[group]) : e = predicate[group][j] /\ e # Empty
      BY Zenon DEF Exprs
    <3> QED
      BY Zenon, <1>1, <2>1, <2>3, <3>1 DEF Evaluating
  <2>5. Exprs(predicate[group]) \in groups \ {{}} /\ ret = 1
    BY Zenon, <2>1, <2>2, <2>4
  <2> QED
    BY Zenon, <1>3, <1>4, <2>4, <2>5
<1>6. CASE PredicateEnds
  <2>1. group > Len(predicate)
    BY Zenon, <1>6 DEF PredicateEnds
  <2>2. \A g \in 1 .. Len(predicate) : g \in 1 .. group - 1
    BY <1>1, <1>2, <2>1
  <2>3. \A g \in 1 .. Len(predicate) : Exprs(predicate[g]) # {} => predicate[g] # <<>>
    <3>1. \A g \in 1 .. Len(predicate) : predicate[g] = <<>> => 1 .. Len(predicate[g]) = {}
      BY EmptySeq
    <3> QED
      BY Zenon, <3>1 DEF Exprs
  <2>4. \A g \in 1 .. Len(predicate) : Exprs(predicate[g]) # {} => Refuted(g) /\ ret = 0
    BY Zenon, <1>1, <2>1, <2>2, <2>3 DEF Evaluating
  <2>5. ret = 0 /\ \A G \in groups \ {{}} : \E e \in G : ~Holds(e)
    BY Zenon, <2>4 DEF Refuted
  <2> QED
    BY Zenon, <1>3, <1>4, <2>5
<1> QED
  BY Zenon, <1>5, <1>6

(* Every step keeps the invariant of the evaluation. *)
LEMMA DslStep == DslInv /\ [DslNext]_dslvars => DslInv'
<1> SUFFICES ASSUME DslInv, [DslNext]_dslvars
             PROVE  DslInv'
  OBVIOUS
<1>1. CASE UNCHANGED dslvars
  BY ZenonT(30), <1>1 DEF dslvars, DslInv, Evaluating, Refuted, PredicateIsDisjunction
<1>2. ASSUME verdict = -2
      PROVE  /\ predicate \in Predicates /\ group \in Nat \ {0} /\ expr \in Nat \ {0} /\ Evaluating
             /\ Len(predicate) \in Nat
             /\ \A g \in 1 .. Len(predicate) :
                  Len(predicate[g]) \in Nat /\ (predicate[g] = <<>> => Len(predicate[g]) = 0)
  <2>1. predicate \in Predicates /\ group \in Nat \ {0} /\ expr \in Nat \ {0} /\ Evaluating
    BY Zenon, <1>2 DEF DslInv
  <2>2. \A g \in 1 .. Len(predicate) : predicate[g] = <<>> => Len(predicate[g]) = 0
    BY EmptySeq
  <2> QED
    BY Zenon, <2>1, <2>2, Lengths
<1>3. -2 # 0 /\ -2 # -1
  OBVIOUS
<1>4. CASE Skip
  <2>1. /\ verdict = -2 /\ group <= Len(predicate)
        /\ expr <= Len(predicate[group]) /\ predicate[group][expr] = Empty
        /\ expr' = expr + 1 /\ UNCHANGED <<predicate, group, ret, verdict>>
    BY Zenon, <1>4 DEF Skip, Running
  <2>2. group \in 1 .. Len(predicate)
    BY <1>2, <2>1
  <2>3. /\ expr' - 1 = expr /\ expr' # 1 /\ expr' \in Nat \ {0} /\ expr' <= Len(predicate[group]) + 1
        /\ ~(group > Len(predicate)) /\ \A j \in 1 .. expr : j = expr \/ j \in 1 .. expr - 1
    BY <1>2, <2>1, <2>2
  <2>4. Evaluating'
    BY Zenon, <1>2, <2>1, <2>3 DEF Evaluating, Refuted
  <2>5. PredicateIsDisjunction'
    BY Zenon, <1>3, <2>1 DEF PredicateIsDisjunction
  <2> QED
    BY Zenon, <1>2, <2>1, <2>3, <2>4, <2>5 DEF DslInv
<1>5. CASE PassEmpty
  <2>1. /\ verdict = -2 /\ group <= Len(predicate) /\ predicate[group] = <<>>
        /\ group' = group + 1 /\ UNCHANGED <<predicate, expr, ret, verdict>>
    BY Zenon, <1>5 DEF PassEmpty, Running
  <2>2. group \in 1 .. Len(predicate)
    BY <1>2, <2>1
  <2>3. expr <= Len(predicate[group]) + 1 /\ Len(predicate[group]) = 0
    BY Zenon, <1>2, <2>1, <2>2 DEF Evaluating
  <2>4. expr = 1
    BY <1>2, <2>1, <2>3
  <2>5. /\ group' - 1 = group /\ group' <= Len(predicate') + 1 /\ group' \in Nat \ {0}
        /\ \A j : j \notin 1 .. expr' - 1
        /\ \A g \in 1 .. group : g = group \/ g \in 1 .. group - 1
    BY <1>2, <2>1, <2>4
  <2>6. group' <= Len(predicate') => expr' <= Len(predicate'[group']) + 1
    BY <1>2, <2>1, <2>4, <2>5
  <2>7. Evaluating'
    BY ZenonT(30), <1>2, <2>1, <2>4, <2>5, <2>6 DEF Evaluating, Refuted
  <2>8. PredicateIsDisjunction'
    BY Zenon, <1>3, <2>1 DEF PredicateIsDisjunction
  <2> QED
    BY Zenon, <1>2, <2>1, <2>5, <2>7, <2>8 DEF DslInv
<1> QED
  BY Zenon, <1>1, <1>4, <1>5, EvaluateStep, EndSteps DEF DslNext

(* Every rule on versions answers as their order does, a missing component *)
(* being zero, for versions of any number of components.                   *)
THEOREM VersionsOrdered == DslSpec => []VersionsAreOrdered
<1>1. DslInit => predicate \in Predicates
  BY DEF DslInit
<1>2. predicate \in Predicates /\ [DslNext]_dslvars => (predicate \in Predicates)'
  BY Zenon DEF DslNext, dslvars, Skip, Evaluate, PassEmpty, GroupEnds, PredicateEnds
<1>3. predicate \in Predicates => VersionsAreOrdered
  BY ZenonT(30), Answers DEF VersionsAreOrdered
<1> QED
  BY <1>1, <1>2, <1>3, PTL DEF DslSpec

(* A predicate of any number of groups and expressions is met when a group *)
(* has none that fails.                                                    *)
THEOREM PredicateDecided == DslSpec => []PredicateIsDisjunction
<1>1. DslInit => DslInv
  <2> SUFFICES ASSUME DslInit
               PROVE  DslInv
    OBVIOUS
  <2>1. predicate \in Predicates /\ group = 1 /\ expr = 1 /\ ret = 1 /\ verdict = -2
    BY Zenon DEF DslInit
  <2>2. Len(predicate) \in Nat /\ \A g \in 1 .. Len(predicate) : Len(predicate[g]) \in Nat
    BY Zenon, <2>1, Lengths
  <2>3. \A j : j \notin 1 .. group - 1 /\ j \notin 1 .. expr - 1
    BY <2>1
  <2>4. group <= Len(predicate) + 1 /\ (group <= Len(predicate) => expr <= Len(predicate[group]) + 1)
        /\ group \in Nat \ {0} /\ expr \in Nat \ {0} /\ -2 # 0 /\ -2 # -1
    BY <2>1, <2>2
  <2> QED
    BY Zenon, <2>1, <2>3, <2>4 DEF DslInv, Evaluating, PredicateIsDisjunction
<1>2. DslInv => PredicateIsDisjunction
  BY DEF DslInv
<1> QED
  BY <1>1, <1>2, DslStep, PTL DEF DslSpec
=============================================================================
