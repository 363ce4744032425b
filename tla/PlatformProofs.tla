--------------------------- MODULE PlatformProofs ---------------------------
(***************************************************************************)
(* For every machine and any number of inits: device nodes are only made   *)
(* where they belong, and the adapters of dxcore have what is used of      *)
(* them. For every container: it has what is used of it, and devices are   *)
(* allowed in its own cgroup.                                              *)
(***************************************************************************)
EXTENDS Platform, Container, SequenceTheorems, WellFoundedInduction, TLAPS

Pairs == Nat \X Nat
Dxcores == [initialized : BOOLEAN, adapterCount : Nat, adapterList : Seq(Pairs)]

(* The list of adapters is at least as long as its count says. *)
PlatformTyped ==
  /\ dxcore \in Dxcores /\ dxcore.adapterCount <= Len(dxcore.adapterList)
  /\ inits \in Nat /\ adapter \in Nat \ {0} /\ machine.adapters \in AdapterLists

(* Writing an adapter after those that count leaves these as they were,    *)
(* and counting it adds it to them.                                        *)
LEMMA ListedAppend ==
  ASSUME NEW d \in Dxcores, d.adapterCount <= Len(d.adapterList), NEW x \in Pairs, NEW e \in Dxcores,
         e.adapterList = Append(SubSeq(d.adapterList, 1, d.adapterCount), x)
  PROVE  /\ Len(e.adapterList) = d.adapterCount + 1
         /\ e.adapterCount = d.adapterCount => Listed(e) = Listed(d)
         /\ e.adapterCount = d.adapterCount + 1 => Listed(e) = Listed(d) \cup {x}
<1> DEFINE n == d.adapterCount
           l == d.adapterList
           k == e.adapterList
<1>1. n \in Nat /\ l \in Seq(Pairs) /\ n <= Len(l)
  BY DEF Dxcores
<1>2. k = Append(SubSeq(l, 1, n), x)
  OBVIOUS
<1> HIDE DEF n, l, k
<1>3. Len(k) = n + 1 /\ k[n + 1] = x /\ \A i \in 1 .. n : k[i] = l[i]
  BY <1>1, <1>2
<1>4. ASSUME e.adapterCount = d.adapterCount PROVE Listed(e) = Listed(d)
  BY <1>1, <1>3, <1>4 DEF Listed, n, l, k
<1>5. ASSUME e.adapterCount = d.adapterCount + 1 PROVE Listed(e) = Listed(d) \cup {x}
  <2>1. e.adapterCount = n + 1
    BY <1>5 DEF n
  <2>2. Listed(e) = {k[i] : i \in 1 .. n + 1} /\ Listed(d) = {l[i] : i \in 1 .. n}
    BY <2>1 DEF Listed, n, l, k
  <2>3. 1 .. n + 1 = (1 .. n) \cup {n + 1}
    BY <1>1
  <2>4. \A y : y \in Listed(e) <=> (\E i \in 1 .. n : y = k[i]) \/ y = k[n + 1]
    BY Zenon, <2>2, <2>3
  <2>5. \A y : y \in Listed(d) <=> \E i \in 1 .. n : y = k[i]
    BY Zenon, <1>3, <2>2
  <2> QED
    BY <1>3, <2>4, <2>5
<1> QED
  BY Zenon, <1>3, <1>4, <1>5 DEF n, k

(* dxcore is not known to the context at first. *)
LEMMA TypedInit == PlatformInit => PlatformTyped
<1>1. NoDxcore \in Dxcores
  BY DEF NoDxcore, Dxcores
<1>2. NoDxcore.adapterCount <= Len(NoDxcore.adapterList)
  BY DEF NoDxcore
<1> QED
  BY <1>1, <1>2 DEF PlatformInit, PlatformTyped

(* These types hold whatever nvc_init and nvc_shutdown do. *)
LEMMA TypedStep == PlatformTyped /\ [PlatformNext]_platvars => PlatformTyped'
<1> SUFFICES ASSUME PlatformTyped, [PlatformNext]_platvars PROVE PlatformTyped'
  OBVIOUS
<1> USE DEF PlatformTyped
<1>1. CASE nvc_init_begin
  BY <1>1 DEF nvc_init_begin
<1>2. CASE dxcore_init_context
  <2>1. NoDxcore \in Dxcores
    BY DEF NoDxcore, Dxcores
  <2>2. NoDxcore.adapterCount <= Len(NoDxcore.adapterList)
    BY DEF NoDxcore
  <2>3. Len(machine.adapters) \in Nat
    BY PlatformAssumption
  <2> QED
    BY <1>2, <2>1, <2>2, <2>3 DEF dxcore_init_context
<1>3. CASE dxcore_add_adapter
  <2>1. /\ UNCHANGED <<machine, inits>> /\ adapter' = adapter + 1
        /\ \/ UNCHANGED dxcore
           \/ \E n \in {dxcore.adapterCount, dxcore.adapterCount + 1} :
                dxcore' = [dxcore EXCEPT
                  !.adapterList = Append(SubSeq(@, 1, dxcore.adapterCount), <<inits, adapter>>), !.adapterCount = n]
    <3> DEFINE m == dxcore.adapterCount
               n == IF dxcore_populate_driverstore_library(machine.adapters[adapter]) THEN m + 1 ELSE m
    <3>1. \/ UNCHANGED dxcore
          \/ dxcore' = [dxcore EXCEPT !.adapterList = Append(SubSeq(@, 1, m), <<inits, adapter>>), !.adapterCount = n]
      BY <1>3 DEF dxcore_add_adapter
    <3>2. UNCHANGED <<machine, inits>> /\ adapter' = adapter + 1
      BY <1>3 DEF dxcore_add_adapter
    <3>3. n \in {m, m + 1}
      OBVIOUS
    <3> HIDE DEF n
    <3> QED
      BY <3>1, <3>2, <3>3, Zenon
  <2>2. CASE UNCHANGED dxcore
    BY <2>1, <2>2
  <2>3. ASSUME NEW n \in {dxcore.adapterCount, dxcore.adapterCount + 1},
               dxcore' = [dxcore EXCEPT
                  !.adapterList = Append(SubSeq(@, 1, dxcore.adapterCount), <<inits, adapter>>), !.adapterCount = n]
        PROVE  PlatformTyped'
    <3>1. n \in Nat /\ <<inits, adapter>> \in Pairs
      BY DEF Dxcores, Pairs
    <3>2. Append(SubSeq(dxcore.adapterList, 1, dxcore.adapterCount), <<inits, adapter>>) \in Seq(Pairs)
      BY <3>1 DEF Dxcores
    <3>3. dxcore' \in Dxcores /\ dxcore'.adapterCount = n
      BY Zenon, <2>3, <3>1, <3>2 DEF Dxcores
    <3>4. dxcore'.adapterList = Append(SubSeq(dxcore.adapterList, 1, dxcore.adapterCount), <<inits, adapter>>)
      BY <2>3 DEF Dxcores
    <3>5. Len(dxcore'.adapterList) = dxcore.adapterCount + 1
      BY Zenon, <3>1, <3>3, <3>4, ListedAppend
    <3> QED
      BY <2>1, <3>1, <3>3, <3>5 DEF Dxcores
  <2> QED
    BY <2>1, <2>2, <2>3
<1>4. CASE dxcore_enum_adapters
  <2>1. /\ dxcore' \in Dxcores /\ dxcore'.adapterCount = dxcore.adapterCount
        /\ dxcore'.adapterList = dxcore.adapterList
    BY Zenon, <1>4 DEF dxcore_enum_adapters, Dxcores
  <2> QED
    BY <1>4, <2>1 DEF dxcore_enum_adapters
<1>5. CASE nvc_shutdown
  <2>1. /\ dxcore' \in Dxcores /\ dxcore'.adapterCount = dxcore.adapterCount
        /\ dxcore'.adapterList = dxcore.adapterList
    BY Zenon, <1>5 DEF nvc_shutdown, Dxcores
  <2> QED
    BY <1>5, <2>1 DEF nvc_shutdown
<1>6. CASE UNCHANGED <<machine, inits, dxcore, adapter>>
  BY <1>6
<1> QED
  BY <1>1, <1>2, <1>3, <1>4, <1>5, <1>6
  DEF PlatformNext, platvars, load_kernel_modules, SkipModules, WaitForChild, ChangeRoot, LoadNvidia,
      mig_nvcaps_mknodes, LoadUvm, LoadModeset, ChildSteps, StartServices

Running == {"chroot", "nvidia", "caps", "uvm", "modeset", "exited"}

(* What makes the property inductive: while the child runs, its parent is  *)
(* in waitpid, and the conditions under which it was created still hold.   *)
NodesInv ==
  /\ machine.wsl \in BOOLEAN
  /\ machine.minors \in MinorsFiles /\ machine.matches \in Nat /\ line \in Nat \ {0}
  /\ child \in Running \cup {"none"}
  /\ child # "none" <=> at = "waitpid"
  /\ at \notin {"idle", "dxcore", "adapters"} => dxcore.initialized = machine.wsl
  /\ at = "adapters" => machine.wsl
  /\ at # "idle" => config = machine.root
  /\ at = "waitpid" => ~machine.wsl /\ init_within_userns = "no" /\ machine.load_kmods
  /\ NodesAreOfThisMachine

(* The verdict on the namespace is one of three. *)
LEMMA VerdictIsOneOfThree == init_within_userns \in {"no", "yes", "error"}
<1>1. \A m : Verdict(m) \in {"no", "yes", "error", "go on"}
  BY DEF Verdict
<1> QED
  BY Zenon, <1>1 DEF init_within_userns

(* A node is kept only for a device or a capability that is there. *)
LEMMA NodesStep == PlatformTyped /\ NodesInv /\ [PlatformNext]_platvars => NodesInv'
<1> SUFFICES ASSUME PlatformTyped, NodesInv, [PlatformNext]_platvars PROVE NodesInv'
  OBVIOUS
<1>1. machine' = machine /\ init_within_userns' = init_within_userns
  <2>1. machine' = machine
    BY DEF PlatformNext, platvars, nvc_init_begin, dxcore_init_context, dxcore_add_adapter, dxcore_enum_adapters, load_kernel_modules, SkipModules,
           WaitForChild, ChangeRoot, LoadNvidia, mig_nvcaps_mknodes, LoadUvm, LoadModeset, ChildSteps,
           StartServices, nvc_shutdown
  <2> QED
    BY SMTT(30), <2>1 DEF init_within_userns
<1> USE <1>1 DEF NodesInv, InitFailed, Running
<1>2. CASE nvc_init_begin
  BY <1>2 DEF nvc_init_begin, NodesAreOfThisMachine
<1>3. CASE dxcore_init_context
  <2>1. CASE ~machine.wsl
    <3>1. dxcore'.initialized = FALSE
      BY <1>3 DEF dxcore_init_context, NoDxcore
    <3>2. dxcore'.initialized = machine.wsl
      BY <2>1, <3>1, Zenon
    <3> QED
      BY <1>3, <3>2 DEF dxcore_init_context, NodesAreOfThisMachine
  <2>2. CASE machine.wsl
    BY <1>3, <2>2 DEF dxcore_init_context, NodesAreOfThisMachine
  <2> QED
    BY <2>1, <2>2
<1>15. CASE dxcore_add_adapter
  BY <1>15 DEF dxcore_add_adapter, NodesAreOfThisMachine
<1>16. CASE dxcore_enum_adapters
  <2>1. dxcore'.initialized = TRUE
    BY <1>16 DEF dxcore_enum_adapters, PlatformTyped, Dxcores
  <2>2. at' # "idle" => dxcore'.initialized = machine.wsl
    <3>1. machine.wsl = TRUE
      BY <1>16 DEF dxcore_enum_adapters
    <3> QED
      BY <2>1, <3>1, Zenon
  <2> QED
    BY Zenon, <1>16, <2>2 DEF dxcore_enum_adapters, NodesAreOfThisMachine
<1>4. CASE load_kernel_modules
  BY <1>4, VerdictIsOneOfThree DEF load_kernel_modules, NodesAreOfThisMachine
<1>5. CASE SkipModules
  BY <1>5 DEF SkipModules, NodesAreOfThisMachine
<1>6. CASE WaitForChild
  BY <1>6 DEF WaitForChild, NodesAreOfThisMachine
<1>7. CASE ChangeRoot
  BY <1>7 DEF ChangeRoot, ChildSteps, NodesAreOfThisMachine
<1>8. CASE LoadNvidia
  BY <1>8 DEF LoadNvidia, ChildSteps, NodesAreOfThisMachine
<1>9. CASE mig_nvcaps_mknodes
  <2> DEFINE l == machine.minors[line]
             known == l.exists /\ (l.kind \in {"ci", "gi"} => l.gpu < machine.matches)
  <2>1. /\ child = "caps" /\ child' \in {"caps", "uvm"} /\ line' \in {line, line + 1}
        /\ UNCHANGED <<inits, at, ready, config, dxcore>>
    BY <1>9 DEF mig_nvcaps_mknodes, ChildSteps
  <2>2. nodes' = nodes \/ (known /\ nodes' = nodes \cup {<<config, <<"cap", line>> >>})
    <3>1. CASE line > Len(machine.minors) \/ l.kind = "other"
      BY <1>9, <3>1 DEF mig_nvcaps_mknodes
    <3>2. CASE ~(line > Len(machine.minors) \/ l.kind = "other")
      <4>1. machine.minors \in Seq([kind : Kinds, gpu : Nat, exists : BOOLEAN])
        BY Zenon, PlatformAssumption
      <4>2. l \in [kind : Kinds, gpu : Nat, exists : BOOLEAN]
        <5>1. line \in 1 .. Len(machine.minors)
          BY <3>2, <4>1
        <5> QED
          BY <4>1, <5>1, ElementOfSeq, Zenon
      <4> QED
        BY <1>9, <3>2, <4>2 DEF mig_nvcaps_mknodes
    <3> QED
      BY <3>1, <3>2
  <2>3. NodesAreOfThisMachine'
    BY <2>1, <2>2 DEF NodesAreOfThisMachine
  <2> QED
    BY <2>1, <2>3
<1>10. CASE LoadUvm
  BY <1>10 DEF LoadUvm, ToNode, ChildSteps, NodesAreOfThisMachine
<1>11. CASE LoadModeset
  BY <1>11 DEF LoadModeset, ToNode, ChildSteps, NodesAreOfThisMachine
<1>12. CASE StartServices
  BY <1>12 DEF StartServices, NodesAreOfThisMachine
<1>13. CASE nvc_shutdown
  BY <1>13 DEF nvc_shutdown, NodesAreOfThisMachine
<1>14. CASE UNCHANGED platvars
  BY <1>14 DEF platvars, NodesAreOfThisMachine
<1> QED
  BY <1>2, <1>3, <1>4, <1>5, <1>6, <1>7, <1>8, <1>9, <1>10, <1>11, <1>12, <1>13, <1>14, <1>15, <1>16 DEF PlatformNext

(* On any machine, over any number of inits and shutdowns of a context,    *)
(* load_kernel_modules makes only nodes of devices that are there, in the  *)
(* tree of the driver, and is over before the services start.              *)
THEOREM OnlyNodesOfThisMachine == PlatformSpec => []NodesAreOfThisMachine
<1>1. PlatformInit => NodesInv
  <2> SUFFICES ASSUME PlatformInit PROVE NodesInv
    OBVIOUS
  <2>1. machine.minors \in MinorsFiles /\ machine.matches \in Nat /\ machine.wsl \in BOOLEAN
    BY Zenon, PlatformAssumption DEF PlatformInit
  <2>2. NodesAreOfThisMachine
    BY DEF PlatformInit, NodesAreOfThisMachine
  <2> QED
    BY <2>1, <2>2 DEF PlatformInit, NodesInv, Running
<1>2. NodesInv => NodesAreOfThisMachine
  BY DEF NodesInv
<1> QED
  BY <1>1, <1>2, TypedInit, TypedStep, NodesStep, PTL DEF PlatformSpec
-----------------------------------------------------------------------------
HasComponents(s) == machine.adapters[s[2]].components # {}

(* Stores belong to an init. Those that were freed are of earlier ones     *)
(* while an init is under way or the context is ready; the loop over the   *)
(* adapters has not come to the later ones; and those of the last init     *)
(* that have components are just the ones listed.                          *)
AdaptersInv ==
  /\ stores \subseteq Pairs /\ freed \subseteq Pairs
  /\ \A s \in stores \cup freed : s[1] <= inits
  /\ at # "idle" => ~ready
  /\ at # "idle" \/ ready => \A t \in freed : t[1] < inits
  /\ at = "dxcore" => \A s \in stores : s[1] < inits
  /\ at = "adapters" => \A s \in stores : s[1] = inits => s[2] < adapter
  /\ dxcore.initialized \/ at = "adapters" =>
       \A s \in Listed(dxcore) : s \in stores \ freed /\ HasComponents(s)
  /\ at \notin {"idle", "dxcore"} \/ ready =>
       /\ \A s \in Listed(dxcore) : s[1] = inits
       /\ \A s \in stores : s[1] = inits /\ HasComponents(s) => s \in Listed(dxcore)
  /\ (at \in {"kmods", "waitpid", "driver"} \/ ready) /\ dxcore.initialized => dxcore.adapterCount > 0
  /\ \A s \in stores, t \in freed : s[1] = t[1] => ~HasComponents(s)

(* One turn of the loop of dxcore_enum_adapters. *)
LEMMA AddAdapter == PlatformTyped /\ AdaptersInv /\ dxcore_add_adapter => AdaptersInv'
<1> SUFFICES ASSUME PlatformTyped, AdaptersInv, dxcore_add_adapter PROVE AdaptersInv'
  OBVIOUS
<1> DEFINE a == machine.adapters[adapter]
           x == <<inits, adapter>>
<1>1. /\ at = "adapters" /\ ~ready /\ adapter' = adapter + 1
      /\ UNCHANGED <<machine, inits, at, ready, freed>>
      /\ x \in Pairs /\ x[1] = inits /\ x[2] = adapter /\ inits \in Nat /\ adapter \in Nat
  BY DEF dxcore_add_adapter, AdaptersInv, PlatformTyped, Pairs
<1>2. \A s : HasComponents(s)' <=> HasComponents(s)
  BY <1>1 DEF HasComponents
<1>3. HasComponents(x) <=> a.components # {}
  BY <1>1 DEF HasComponents
<1> HIDE DEF x
<1>4. CASE UNCHANGED <<dxcore, stores>>
  BY <1>1, <1>2, <1>4 DEF AdaptersInv, Listed, Pairs
<1>5. CASE ~UNCHANGED <<dxcore, stores>>
  <2>1. /\ stores' = stores \cup {x}
        /\ dxcore' = [dxcore EXCEPT !.adapterList = Append(SubSeq(@, 1, dxcore.adapterCount), x),
                       !.adapterCount = IF dxcore_populate_driverstore_library(a) THEN @ + 1 ELSE @]
    BY <1>5 DEF dxcore_add_adapter, x
  <2>2. /\ dxcore'.adapterList = Append(SubSeq(dxcore.adapterList, 1, dxcore.adapterCount), x)
        /\ a.components = {} => dxcore'.adapterCount = dxcore.adapterCount
        /\ a.components # {} => dxcore'.adapterCount = dxcore.adapterCount + 1
    BY <2>1 DEF PlatformTyped, Dxcores, dxcore_populate_driverstore_library
  <2>3. dxcore' \in Dxcores
    BY TypedStep DEF PlatformNext, PlatformTyped
  <2>4. /\ ~HasComponents(x) => Listed(dxcore') = Listed(dxcore)
        /\ HasComponents(x) => Listed(dxcore') = Listed(dxcore) \cup {x}
    BY ZenonT(30), <1>1, <1>3, <2>2, <2>3, ListedAppend DEF PlatformTyped
  <2>5. Listed(dxcore)' = Listed(dxcore')
    BY DEF Listed
  <2>6. x \notin stores /\ x \notin freed /\ \A t \in freed : t[1] # x[1]
    BY <1>1 DEF AdaptersInv, Pairs
  <2>7. \A s \in stores' \cup freed' : s[1] <= inits
    BY <1>1, <2>1 DEF AdaptersInv
  <2>8. \A s \in stores' : s[1] = inits => s[2] < adapter + 1
    BY <1>1, <2>1 DEF AdaptersInv, Pairs
  <2>9. \A s \in Listed(dxcore') : s \in stores' \ freed /\ HasComponents(s) /\ s[1] = inits
    BY Zenon, <1>1, <2>1, <2>4, <2>6 DEF AdaptersInv
  <2>10. \A s \in stores' : s[1] = inits /\ HasComponents(s) => s \in Listed(dxcore')
    BY Zenon, <1>1, <2>1, <2>4 DEF AdaptersInv
  <2>11. \A s \in stores', t \in freed : s[1] = t[1] => ~HasComponents(s)
    BY <2>1, <2>6 DEF AdaptersInv
  <2> QED
    BY Zenon, <1>1, <1>2, <2>1, <2>5, <2>7, <2>8, <2>9, <2>10, <2>11 DEF AdaptersInv
<1> QED
  BY <1>4, <1>5

(* The strings of the adapters outlive neither their context nor its use   *)
(* of them.                                                                *)
LEMMA AdaptersStep == PlatformTyped /\ AdaptersInv /\ [PlatformNext]_platvars => AdaptersInv'
<1> SUFFICES ASSUME PlatformTyped, AdaptersInv, [PlatformNext]_platvars PROVE AdaptersInv'
  OBVIOUS
<1>1. machine' = machine
  BY DEF PlatformNext, platvars, nvc_init_begin, dxcore_init_context, dxcore_add_adapter, dxcore_enum_adapters,
         load_kernel_modules, SkipModules, WaitForChild, ChangeRoot, LoadNvidia, mig_nvcaps_mknodes, LoadUvm,
         LoadModeset, ChildSteps, StartServices, nvc_shutdown
<1>2. \A s : HasComponents(s)' <=> HasComponents(s)
  BY <1>1 DEF HasComponents
<1>3. CASE nvc_init_begin
  BY <1>2, <1>3 DEF nvc_init_begin, InitFailed, AdaptersInv, PlatformTyped, Listed, Pairs
<1>4. CASE dxcore_init_context
  <2>1. Listed(dxcore)' = {} /\ dxcore'.initialized = FALSE
    BY <1>4 DEF dxcore_init_context, NoDxcore, Listed
  <2>2. \A s \in stores : s[1] < inits /\ s[1] \in Nat
    BY <1>4 DEF dxcore_init_context, AdaptersInv, Pairs
  <2> QED
    BY <1>2, <1>4, <2>1, <2>2 DEF dxcore_init_context, AdaptersInv, PlatformTyped
<1>5. CASE dxcore_add_adapter
  BY <1>5, AddAdapter
<1>6. CASE dxcore_enum_adapters
  <2>1. dxcore'.adapterCount = dxcore.adapterCount /\ Listed(dxcore)' = Listed(dxcore) /\ dxcore.adapterCount \in Nat
    BY <1>6 DEF dxcore_enum_adapters, Listed, PlatformTyped, Dxcores
  <2> QED
    <3>1. /\ at = "adapters" /\ at' \in {"idle", "kmods"} /\ (at' = "kmods" => dxcore.adapterCount # 0)
          /\ UNCHANGED <<inits, ready, adapter, stores, freed>>
      BY <1>6 DEF dxcore_enum_adapters, InitFailed
    <3>2. at' = "kmods" => dxcore.adapterCount > 0
      BY <2>1, <3>1
    <3>3. ~ready
      BY <3>1 DEF AdaptersInv
    <3> QED
      BY <1>2, <2>1, <3>1, <3>2, <3>3 DEF AdaptersInv
<1>7. CASE nvc_shutdown
  <2>1. dxcore'.initialized = FALSE
    BY <1>7 DEF nvc_shutdown, PlatformTyped, Dxcores
  <2>2. CASE dxcore.initialized
    <3>1. \A s \in stores', t \in freed' : s[1] = t[1] => ~HasComponents(s)
      BY <1>7, <2>2 DEF nvc_shutdown, AdaptersInv
    <3>2. stores' \subseteq Pairs /\ freed' \subseteq Pairs /\ \A s \in stores' \cup freed' : s[1] <= inits
      BY <1>7, <2>2 DEF nvc_shutdown, AdaptersInv
    <3> QED
      BY <1>2, <1>7, <2>1, <3>1, <3>2 DEF nvc_shutdown, AdaptersInv
  <2>3. CASE ~dxcore.initialized
    BY <1>2, <1>7, <2>1, <2>3 DEF nvc_shutdown, AdaptersInv
  <2> QED
    BY <2>2, <2>3
<1>8. CASE UNCHANGED <<inits, dxcore, adapter, stores, freed>> /\ UNCHANGED <<at, ready>>
  BY <1>2, <1>8 DEF AdaptersInv, Listed
<1>9. CASE /\ UNCHANGED <<inits, dxcore, adapter, stores, freed>>
           /\ at \in {"kmods", "waitpid", "driver"}
           /\ \/ at' \in {"waitpid", "driver"} /\ UNCHANGED ready
              \/ at' = "idle"
  <2>1. Listed(dxcore)' = Listed(dxcore)
    BY <1>9 DEF Listed
  <2> QED
    BY <1>2, <1>9, <2>1 DEF AdaptersInv
<1>10. CASE load_kernel_modules \/ SkipModules \/ WaitForChild \/ StartServices
  BY <1>9, <1>10 DEF load_kernel_modules, SkipModules, WaitForChild, StartServices, InitFailed
<1> QED
  BY <1>3, <1>4, <1>5, <1>6, <1>7, <1>8, <1>10
  DEF PlatformNext, platvars, ChangeRoot, LoadNvidia, mig_nvcaps_mknodes, LoadUvm, LoadModeset, ChildSteps

(* On any machine, over any number of inits and shutdowns of a context,    *)
(* the adapters that dxcore lists have their stores and components, a      *)
(* context that is ready on WSL has one, and shutdown frees all stores but *)
(* those of adapters without components.                                   *)
THEOREM AdaptersHaveTheirStores == PlatformSpec => []AdaptersAreUsable
<1>1. PlatformInit => AdaptersInv
  <2> SUFFICES ASSUME PlatformInit PROVE AdaptersInv
    OBVIOUS
  <2>1. Listed(dxcore) = {} /\ dxcore.initialized = FALSE
    BY DEF PlatformInit, NoDxcore, Listed
  <2> QED
    BY <2>1 DEF PlatformInit, AdaptersInv
<1>2. AdaptersInv => AdaptersAreUsable
  BY DEF AdaptersInv, AdaptersAreUsable, HasComponents
<1> QED
  BY <1>1, <1>2, TypedInit, TypedStep, AdaptersStep, PTL DEF PlatformSpec
-----------------------------------------------------------------------------
Fields == {"flags", "libs", "libs32", "dris", "ldconfig", "compat", "mnt_ns", "dev_cg"}
Chosen == {"owner", "libs", "paths", "namespace", "cgroup", "container"}

(* Each compatibility library is listed once. *)
LibrariesInv ==
  /\ lib \in Nat \ {0} /\ cnt.compat \in Seq(STRING) /\ IsInjective(cnt.compat)
  /\ Range(cnt.compat) \subseteq Range(around.root.compat)

(* What copy_config has chosen is not changed by what follows it. *)
DirectoriesInv ==
  /\ stage \in Chosen =>
       /\ NULL \notin {cnt.libs, cnt.libs32, cnt.dris, cnt.ldconfig}
       /\ call.libs32 = NULL /\ ~around.root.debian /\ cnt.libs32 # "lib32" =>
            around.root.dirs["lib"] # IF cnt.libs \in DOMAIN around.root.dirs THEN around.root.dirs[cnt.libs] ELSE cnt.libs
  /\ stage \in {"cgroup", "container"} => cnt.mnt_ns # NULL
  /\ stage = "no container" => why # NULL \/ DriDir(around.root) = NULL

(* The cgroup of a container is the one found, and the only one in which   *)
(* devices are allowed.                                                    *)
CgroupInv ==
  /\ stage = "container" /\ ~Has("NO_CGROUPS") =>
       /\ cnt.dev_cg = FirstMount.mount \o Stripped(OwnCgroup, FirstMount.root)
       /\ cgroup_root(around.cgroups) # {}
  /\ \A a \in allowed : stage = "container" /\ ~Has("NO_CGROUPS") /\ a[1] = cnt.dev_cg

ContainerInv ==
  /\ around.root \in Roots /\ around.cgroups \in CgroupFiles /\ DOMAIN cnt = Fields
  /\ LibrariesInv /\ DirectoriesInv /\ CgroupInv

(* The first of the lines that fit is one of them. *)
LEMMA FirstLine ==
  ASSUME NEW D, D \subseteq Nat, D # {}
  PROVE  parse_proc_file(D) \in D
<1>1. \E x \in D : \A y \in D : ~ (<<y, x>> \in OpToRel(<, Nat))
  BY Zenon, WFMin, NatLessThanWellFounded
<1>2. PICK x \in D : \A y \in D : ~ (<<y, x>> \in OpToRel(<, Nat))
  BY Zenon, <1>1
<1>3. \A y \in D : ~ (y < x)
  BY Zenon, <1>2 DEF OpToRel
<1>4. \A y \in D : x <= y
  BY <1>3
<1> QED
  BY Zenon, <1>4 DEF parse_proc_file

(* The cgroup of the container is a path. *)
LEMMA OwnCgroupIsPath ==
  ASSUME around.cgroups \in CgroupFiles, cgroup_root(around.cgroups) # {}
  PROVE  OwnCgroup \in Seq(STRING)
<1> DEFINE f == around.cgroups
           c == parse_proc_file(cgroup_root(f))
<1>1. f \in Seq([subsys : SUBSET STRING, path : Seq(STRING)])
  BY ContainerAssumption
<1> HIDE DEF f
<1>2. cgroup_root(f) \subseteq DOMAIN f /\ DOMAIN f \subseteq Nat
  BY <1>1 DEF cgroup_root
<1>3. c \in DOMAIN f
  BY <1>2, FirstLine DEF f
<1>4. f[c] \in [subsys : SUBSET STRING, path : Seq(STRING)]
  <2> HIDE DEF c
  <2>1. c \in 1 .. Len(f)
    BY <1>1, <1>3
  <2> QED
    BY <1>1, <2>1, ElementOfSeq, Zenon
<1> QED
  BY <1>4 DEF OwnCgroup, f

(* Where the mount shows the cgroup, the rest of the path is the path      *)
(* below the root of the mount.                                            *)
LEMMA StrippedIsRest ==
  ASSUME NEW p \in Seq(STRING), NEW prefix, Begins(p, prefix)
  PROVE  Stripped(p, prefix) = SubSeq(p, Len(prefix) + 1, Len(p))
<1>1. CASE prefix # <<>>
  BY <1>1 DEF Stripped, HasPrefixText
<1>2. CASE prefix = <<>>
  <2>1. Stripped(p, prefix) = p
    BY <1>2 DEF Stripped
  <2>2. Len(prefix) + 1 = 1
    BY <1>2
  <2>3. SubSeq(p, 1, Len(p)) = p
    OBVIOUS
  <2> QED
    BY <2>1, <2>2, <2>3
<1> QED
  BY <1>1, <1>2

(* A library that is not listed yet is listed once when it is added. *)
LEMMA AddedOnce ==
  ASSUME NEW S, NEW s \in Seq(S), IsInjective(s), NEW x \in S, x \notin Range(s)
  PROVE  IsInjective(Append(s, x)) /\ Range(Append(s, x)) = Range(s) \cup {x}
<1> DEFINE t == Append(s, x)
           n == Len(s)
<1>1. n \in Nat /\ DOMAIN s = 1 .. n
  BY LenProperties
<1>2. DOMAIN t = 1 .. n + 1 /\ t[n + 1] = x /\ \A i \in 1 .. n : t[i] = s[i]
  <2>1. t \in Seq(S) /\ Len(t) = n + 1
    OBVIOUS
  <2>2. \A i \in 1 .. n : t[i] = s[i]
    BY <1>1
  <2>3. t[n + 1] = x
    BY <1>1
  <2> HIDE DEF t, n
  <2> QED
    BY <2>1, <2>2, <2>3
<1> HIDE DEF t, n
<1>3. 1 .. n + 1 = (1 .. n) \cup {n + 1}
  BY <1>1
<1>4. \A i \in 1 .. n : s[i] # x
  BY <1>1 DEF Range
<1>5. IsInjective(t)
  <2> SUFFICES ASSUME NEW i \in 1 .. n + 1, NEW j \in 1 .. n + 1, t[i] = t[j] PROVE i = j
    BY <1>2 DEF IsInjective
  <2>1. CASE i = n + 1
    BY <1>2, <1>3, <1>4, <2>1
  <2>2. CASE j = n + 1
    BY <1>2, <1>3, <1>4, <2>2
  <2>3. CASE i \in 1 .. n /\ j \in 1 .. n
    BY <1>1, <1>2, <2>3 DEF IsInjective
  <2> QED
    BY <1>3, <2>1, <2>2, <2>3
<1>6. Range(t) = Range(s) \cup {x}
  <2>1. \A y : y \in Range(t) <=> (\E i \in 1 .. n : y = t[i]) \/ y = t[n + 1]
    BY <1>2, <1>3 DEF Range
  <2>2. \A y : y \in Range(s) <=> \E i \in 1 .. n : y = t[i]
    BY <1>1, <1>2 DEF Range
  <2> QED
    BY <1>2, <2>1, <2>2
<1> QED
  BY <1>5, <1>6 DEF t

(* Each step of nvc_container_new leaves what the ones before it chose. *)
LEMMA ContainerStep == ContainerInv /\ [ContainerNext]_cntvars => ContainerInv'
<1> SUFFICES ASSUME ContainerInv, [ContainerNext]_cntvars PROVE ContainerInv'
  OBVIOUS
<1>1. UNCHANGED <<call, around>>
  BY Zenon DEF ContainerNext, cntvars, nvc_container_new, copy_config, lookup_owner, find_library_paths, SelectLibrary,
         LibrariesSelected, find_namespace_path, find_device_cgroup_path, setup_device_cgroup
<1>2. DriDir(around.root)' = DriDir(around.root)
  BY <1>1 DEF DriDir
<1>3. ASSUME NEW e, NoContainer(e), e # NULL \/ DriDir(around.root) = NULL, allowed = {}, UNCHANGED allowed,
             lib' \in Nat \ {0}
      PROVE  ContainerInv'
  BY Zenon, <1>1, <1>2, <1>3 DEF NoContainer, ContainerInv, LibrariesInv, DirectoriesInv, CgroupInv, Chosen
<1>4. stage # "container" => allowed = {}
  BY DEF ContainerInv, CgroupInv
<1>5. CASE nvc_container_new
  <2>1. CASE \E e : NoContainer(e)
    <3>1. NoContainer("invalid option") \/ NoContainer("invalid mode")
      BY Zenon, <1>5, <2>1 DEF nvc_container_new, NoContainer
    <3>2. UNCHANGED <<lib, allowed>> /\ stage = "call"
      BY Zenon, <1>5 DEF nvc_container_new
    <3> QED
      BY Zenon, <1>3, <1>4, <3>1, <3>2 DEF NULL, ContainerInv, LibrariesInv
  <2>2. CASE \E flags : cnt' = [cnt EXCEPT !.flags = flags] /\ stage' = "config"
    <3>1. /\ stage = "call" /\ stage' = "config" /\ UNCHANGED <<lib, allowed>> /\ DOMAIN cnt' = DOMAIN cnt
          /\ cnt'.compat = cnt.compat
      BY Zenon, <1>5, <2>2 DEF nvc_container_new, ContainerInv, Fields
    <3> QED
      BY <1>1, <1>4, <3>1 DEF ContainerInv, LibrariesInv, DirectoriesInv, CgroupInv, Chosen
  <2> QED
    BY Zenon, <1>5, <2>1, <2>2 DEF nvc_container_new
<1>6. CASE copy_config
  <2>1. stage = "config" /\ UNCHANGED <<lib, allowed>> /\ allowed = {} /\ lib \in Nat \ {0}
    BY <1>4, <1>6 DEF copy_config, ContainerInv, LibrariesInv
  <2>2. CASE NoContainer("io")
    BY <1>3, <2>1, <2>2 DEF NULL
  <2>3. CASE DriDir(around.root) = NULL /\ NoContainer(why)
    BY <1>3, <2>1, <2>3
  <2>4. CASE stage' = "owner"
    <3> DEFINE dirs == LibDirs(around.root)
               ld == IF call.ldconfig # NULL THEN call.ldconfig
                     ELSE IF around.root.ldconfig_real THEN "ldconfig.real" ELSE "ldconfig"
    <3>1. /\ DriDir(around.root) # NULL
          /\ cnt' = [cnt EXCEPT !.libs = dirs[1], !.libs32 = dirs[2], !.dris = DriDir(around.root), !.ldconfig = ld]
      BY <1>6, <2>4 DEF copy_config, NoContainer
    <3>2. ld # NULL
      BY SMTT(30) DEF NULL
    <3>3. /\ dirs[1] # NULL /\ dirs[2] # NULL
          /\ call.libs32 = NULL /\ ~around.root.debian /\ dirs[2] # "lib32" =>
               around.root.dirs["lib"] # IF dirs[1] \in DOMAIN around.root.dirs THEN around.root.dirs[dirs[1]] ELSE dirs[1]
      BY DEF LibDirs, NULL
    <3> HIDE DEF dirs, ld
    <3>4. /\ DOMAIN cnt' = Fields /\ cnt'.libs = dirs[1] /\ cnt'.libs32 = dirs[2]
          /\ cnt'.dris = DriDir(around.root) /\ cnt'.ldconfig = ld /\ cnt'.compat = cnt.compat
      BY <3>1 DEF ContainerInv, Fields
    <3>5. DirectoriesInv'
      BY <1>1, <2>4, <3>1, <3>2, <3>3, <3>4 DEF DirectoriesInv
    <3> QED
      BY <1>1, <2>1, <2>4, <3>4, <3>5 DEF ContainerInv, LibrariesInv, CgroupInv
  <2> QED
    BY <1>6, <2>2, <2>3, <2>4 DEF copy_config
<1>7. CASE lookup_owner
  <2>1. stage = "owner" /\ UNCHANGED <<lib, allowed>> /\ allowed = {} /\ lib \in Nat \ {0}
    BY Zenon, <1>4, <1>7 DEF lookup_owner, ContainerInv, LibrariesInv
  <2>2. CASE NoContainer("no process")
    BY ZenonT(30), <1>3, <2>1, <2>2 DEF NULL
  <2>3. CASE stage' = "libs" /\ UNCHANGED <<cnt, why>>
    BY <1>1, <2>1, <2>3 DEF ContainerInv, LibrariesInv, DirectoriesInv, CgroupInv, Chosen
  <2> QED
    BY Zenon, <1>7, <2>2, <2>3 DEF lookup_owner
<1>8. CASE find_library_paths
  <2>1. stage = "libs" /\ lib' = 1 /\ UNCHANGED allowed /\ allowed = {}
    BY <1>4, <1>8 DEF find_library_paths
  <2>2. CASE NoContainer("io")
    BY <1>3, <2>1, <2>2 DEF NULL
  <2>3. CASE stage' \in {"paths", "namespace"} /\ UNCHANGED <<cnt, why>>
    <3>1. stage \in Chosen /\ stage' \notin {"cgroup", "container", "no container"}
      BY Zenon, <2>1, <2>3 DEF Chosen
    <3>2. DirectoriesInv'
      BY Zenon, <1>1, <2>3, <3>1 DEF ContainerInv, DirectoriesInv
    <3> QED
      <4>1. LibrariesInv'
        BY <1>1, <2>1, <2>3 DEF ContainerInv, LibrariesInv
      <4>2. CgroupInv'
        BY Zenon, <2>1, <3>1 DEF CgroupInv
      <4> QED
        BY <1>1, <2>3, <3>2, <4>1, <4>2 DEF ContainerInv
  <2> QED
    BY <1>8, <2>2, <2>3 DEF find_library_paths
<1>9. CASE SelectLibrary
  <2> DEFINE p == around.root.compat[lib]
  <2>1. stage = "paths" /\ lib' = lib + 1 /\ UNCHANGED allowed /\ allowed = {} /\ lib \in Nat \ {0}
    BY <1>4, <1>9 DEF SelectLibrary, ContainerInv, LibrariesInv
  <2>2. CASE NoContainer("io")
    BY SMTT(30), <1>3, <2>1, <2>2 DEF NULL
  <2>3. CASE UNCHANGED <<cnt, stage, why>>
    BY <1>1, <1>2, <2>1, <2>3 DEF ContainerInv, LibrariesInv, DirectoriesInv, CgroupInv, Chosen
  <2>4. CASE UNCHANGED <<stage, why>> /\ p \notin Range(cnt.compat) /\ cnt' = [cnt EXCEPT !.compat = Append(@, p)]
    <3>1. around.root.compat \in Seq(STRING)
      BY ContainerAssumption DEF ContainerInv
    <3>2. lib \in 1 .. Len(around.root.compat)
      BY <1>9, <2>1, <3>1 DEF SelectLibrary
    <3>3. p \in STRING /\ p \in Range(around.root.compat)
      <4>1. p \in STRING
        BY <3>1, <3>2, ElementOfSeq, Zenon
      <4> QED
        BY <3>1, <3>2, <4>1 DEF Range
    <3> HIDE DEF p
    <3>4. /\ DOMAIN cnt' = Fields /\ cnt'.compat = Append(cnt.compat, p)
          /\ \A f \in Fields \ {"compat"} : cnt'[f] = cnt[f]
      BY <2>4 DEF ContainerInv, Fields
    <3>5. Append(cnt.compat, p) \in Seq(STRING) /\ IsInjective(Append(cnt.compat, p))
          /\ Range(Append(cnt.compat, p)) = Range(cnt.compat) \cup {p}
      BY <2>4, <3>3, AddedOnce DEF ContainerInv, LibrariesInv
    <3>6. LibrariesInv'
      BY <1>1, <2>1, <3>3, <3>4, <3>5 DEF ContainerInv, LibrariesInv
    <3>7. /\ cnt'.libs = cnt.libs /\ cnt'.libs32 = cnt.libs32 /\ cnt'.dris = cnt.dris
          /\ cnt'.ldconfig = cnt.ldconfig
      BY <3>4 DEF Fields
    <3>8. DirectoriesInv'
      BY SMTT(30), <1>1, <2>1, <2>4, <3>7 DEF ContainerInv, DirectoriesInv
    <3> QED
      BY <1>1, <2>1, <2>4, <3>4, <3>6, <3>8 DEF ContainerInv, CgroupInv
  <2> QED
    BY <1>9, <2>2, <2>3, <2>4 DEF SelectLibrary, str_array_match
<1>10. CASE LibrariesSelected
  <2>1. stage = "paths" /\ stage' = "namespace" /\ UNCHANGED <<cnt, lib, why, allowed>>
    BY SMTT(30), <1>10 DEF LibrariesSelected
  <2> QED
    BY Zenon, <1>1, <1>4, <2>1 DEF ContainerInv, LibrariesInv, DirectoriesInv, CgroupInv, Chosen
<1>11. CASE find_namespace_path
  <2>1. stage = "namespace" /\ stage' = "cgroup" /\ UNCHANGED <<lib, why, allowed>>
    BY Zenon, <1>11 DEF find_namespace_path
  <2>2. /\ DOMAIN cnt' = Fields /\ cnt'.compat = cnt.compat /\ cnt'.libs = cnt.libs /\ cnt'.libs32 = cnt.libs32
        /\ cnt'.dris = cnt.dris /\ cnt'.ldconfig = cnt.ldconfig /\ cnt'.mnt_ns # NULL
    BY ZenonT(30), <1>11 DEF find_namespace_path, ContainerInv, Fields, NULL
  <2> QED
    BY <1>1, <1>4, <2>1, <2>2 DEF ContainerInv, LibrariesInv, DirectoriesInv, CgroupInv, Chosen
<1>12. CASE find_device_cgroup_path
  <2>1. stage = "cgroup" /\ UNCHANGED <<lib, allowed>> /\ allowed = {} /\ lib \in Nat \ {0}
    BY Zenon, <1>4, <1>12 DEF find_device_cgroup_path, ContainerInv, LibrariesInv
  <2>2. CASE NoContainer("cgroup subsystem not found")
    BY ZenonT(30), <1>3, <2>1, <2>2 DEF NULL
  <2>3. CASE Has("NO_CGROUPS") /\ stage' = "container" /\ UNCHANGED <<cnt, why>>
    <3>1. Has("NO_CGROUPS")'
      BY <2>3 DEF Has
    <3> QED
      BY Zenon, <1>1, <2>1, <2>3, <3>1 DEF ContainerInv, LibrariesInv, DirectoriesInv, CgroupInv, Chosen
  <2>4. CASE /\ stage' = "container" /\ UNCHANGED why /\ cgroup_root(around.cgroups) # {}
             /\ cnt' = [cnt EXCEPT !.dev_cg = FirstMount.mount \o Stripped(OwnCgroup, FirstMount.root)]
    <3>1. /\ DOMAIN cnt' = Fields /\ cnt'.compat = cnt.compat /\ cnt'.libs = cnt.libs /\ cnt'.libs32 = cnt.libs32
          /\ cnt'.dris = cnt.dris /\ cnt'.ldconfig = cnt.ldconfig /\ cnt'.mnt_ns = cnt.mnt_ns /\ cnt'.flags = cnt.flags
          /\ cnt'.dev_cg = FirstMount.mount \o Stripped(OwnCgroup, FirstMount.root)
      BY Zenon, <2>4 DEF ContainerInv, Fields
    <3>2. FirstMount' = FirstMount /\ OwnCgroup' = OwnCgroup
      BY Zenon, <1>1, <3>1 DEF FirstMount, OwnCgroup, Mounts, Has
    <3>3. LibrariesInv' /\ DirectoriesInv'
      BY <1>1, <2>1, <2>4, <3>1 DEF ContainerInv, LibrariesInv, DirectoriesInv, Chosen
    <3>4. CgroupInv'
      BY Zenon, <1>1, <2>1, <2>4, <3>1, <3>2 DEF CgroupInv
    <3> QED
      BY <1>1, <3>1, <3>3, <3>4 DEF ContainerInv
  <2> QED
    BY ZenonT(30), <1>12, <2>2, <2>3, <2>4 DEF find_device_cgroup_path, FirstMount, OwnCgroup, Mounts, parse_proc_file
<1>13. ASSUME NEW n \in Nodes, setup_device_cgroup(n) PROVE ContainerInv'
  <2>1. /\ stage = "container" /\ ~Has("NO_CGROUPS") /\ UNCHANGED <<stage, cnt, lib>>
        /\ allowed' \in {allowed, allowed \cup {<<cnt.dev_cg, n>>}}
    BY <1>13 DEF setup_device_cgroup
  <2>2. Has("NO_CGROUPS")' = Has("NO_CGROUPS") /\ FirstMount' = FirstMount /\ OwnCgroup' = OwnCgroup
    BY <1>1, <2>1 DEF Has, FirstMount, OwnCgroup, Mounts
  <2>3. CgroupInv'
    <3>1. \A a \in allowed' : a[1] = cnt.dev_cg
      BY <2>1 DEF ContainerInv, CgroupInv
    <3>2. /\ cnt.dev_cg = FirstMount.mount \o Stripped(OwnCgroup, FirstMount.root)
          /\ cgroup_root(around.cgroups) # {}
      BY Zenon, <2>1 DEF ContainerInv, CgroupInv
    <3>3. stage' = "container" /\ ~Has("NO_CGROUPS")' /\ cnt' = cnt /\ cgroup_root(around.cgroups)' # {}
      BY <1>1, <2>1, <2>2, <3>2, Zenon
    <3> QED
      BY <2>2, <3>1, <3>2, <3>3, Zenon DEF CgroupInv
  <2> QED
    BY <1>1, <2>1, <2>3 DEF ContainerInv, LibrariesInv, DirectoriesInv
<1>14. CASE UNCHANGED cntvars
  <2>1. Has("NO_CGROUPS")' = Has("NO_CGROUPS") /\ FirstMount' = FirstMount /\ OwnCgroup' = OwnCgroup
    BY <1>14 DEF cntvars, Has, FirstMount, OwnCgroup, Mounts
  <2> QED
    BY Zenon, <1>2, <1>14, <2>1 DEF cntvars, ContainerInv, LibrariesInv, DirectoriesInv, CgroupInv
<1> QED
  BY SMTT(30), <1>5, <1>6, <1>7, <1>8, <1>9, <1>10, <1>11, <1>12, <1>13, <1>14 DEF ContainerNext

(* At the beginning nothing is chosen. *)
LEMMA ContainerStart == ContainerInit => ContainerInv
<1> SUFFICES ASSUME ContainerInit PROVE ContainerInv
  OBVIOUS
<1>1. /\ around.root \in Roots /\ around.cgroups \in CgroupFiles /\ DOMAIN cnt = Fields
      /\ cnt.compat = <<>> /\ stage = "call" /\ allowed = {} /\ lib = 1
  BY DEF ContainerInit, Fields
<1>2. <<>> \in Seq(STRING) /\ IsInjective(<<>>) /\ Range(<<>>) = {}
  BY DEF IsInjective, Range
<1> QED
  BY <1>1, <1>2 DEF ContainerInv, LibrariesInv, DirectoriesInv, CgroupInv, Chosen

(* Whatever the root of the container and the host look like, a container  *)
(* that nvc_container_new returns has its directories, and each of its     *)
(* compatibility libraries once; and a call that fails says why, unless    *)
(* the host is not known.                                                  *)
THEOREM ContainersAreUsable == ContainerSpec => []ContainerIsUsable
<1>1. ContainerInv => ContainerIsUsable
  BY Zenon DEF ContainerInv, LibrariesInv, DirectoriesInv, ContainerIsUsable, Chosen
<1> QED
  BY <1>1, ContainerStart, ContainerStep, PTL DEF ContainerSpec

(* Whatever mountinfo and the cgroup file hold, find_device_cgroup_path    *)
(* and setup_device_cgroup allow devices in the cgroup of the container    *)
(* and in no other, if the mount shows that cgroup.                        *)
THEOREM OwnCgroupOnly == ContainerSpec => []AllowsInOwnCgroup
<1>1. ContainerInv => AllowsInOwnCgroup
  <2> SUFFICES ASSUME ContainerInv, NEW a \in allowed, Begins(OwnCgroup, FirstMount.root)
               PROVE  a[1] = FirstMount.mount \o SubSeq(OwnCgroup, Len(FirstMount.root) + 1, Len(OwnCgroup))
    BY Zenon DEF AllowsInOwnCgroup
  <2>1. a[1] = FirstMount.mount \o Stripped(OwnCgroup, FirstMount.root) /\ cgroup_root(around.cgroups) # {}
    BY Zenon DEF ContainerInv, CgroupInv
  <2>2. OwnCgroup \in Seq(STRING)
    BY <2>1, OwnCgroupIsPath DEF ContainerInv
  <2>3. Stripped(OwnCgroup, FirstMount.root) = SubSeq(OwnCgroup, Len(FirstMount.root) + 1, Len(OwnCgroup))
    BY Zenon, <2>2, StrippedIsRest
  <2> QED
    BY <2>1, <2>3
<1> QED
  BY <1>1, ContainerStart, ContainerStep, PTL DEF ContainerSpec
=============================================================================
