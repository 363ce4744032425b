----------------------------- MODULE MCNvcMount -----------------------------
(***************************************************************************)
(* Instances of NvcMount for the model checker. The device lists are those *)
(* nvc_info.c makes: the DRM render node is the only control device. Two   *)
(* libraries of different host directories have the same name. The two MIG *)
(* devices belong to one GPU instance.                                     *)
(***************************************************************************)
EXTENDS NvcMount, TLC

MCBins    == <<"xdxsmi_bin", "xdxtool">>
MCLibs    == <<"libGL_xdxgpu.so.1.2.3", "libCL_xdxgpu.so.1.2.3", "libGL_xdxgpu.so.1.2.3">>
MCLibs32  == <<"lib32/libGL_xdxgpu.so.1.2.3">>
MCDri     == <<"xdxgpu_dri.so", "xdxgpu_drv_video.so">>
MCStore   == <<"libdxcore.so", "libcuda.so">>
MCNone    == <<>>
MCWanted  == {"xdxsmi_bin"} \cup Ran(MCLibs) \cup Ran(MCLibs32) \cup Ran(MCDri)
MCCompat  == <<"compat/libcuda.so", "compat/libcuda.so.470.1">>

MCLinksOf ==
  "libGL_xdxgpu.so.1.2.3" :> <<"libGL_xdxgpu.so">>
    @@ "libCL_xdxgpu.so.1.2.3" :> <<"libOpenCL.so.1", "libOpenCL.so">>
    @@ "lib32/libGL_xdxgpu.so.1.2.3" :> <<"lib32/libGL_xdxgpu.so">>

MCCtl      == <<"renderD128">>
MCGpus     == {"card0", "card1"}
MCMigs     == {"mig0", "mig1"}
MCGiOf     == [d \in MCMigs |-> "gi0/access"]
MCCiOf     == "mig0" :> "gi0/ci0/access" @@ "mig1" :> "gi0/ci1/access"
MCCapOf    == "gi0/access" :> "nvidia-cap3" @@ "gi0/ci0/access" :> "nvidia-cap4"
                @@ "gi0/ci1/access" :> "nvidia-cap5"
                @@ "config" :> "nvidia-cap1" @@ "monitor" :> "nvidia-cap2"
MCMinorsOf == "card0" :> <<"nvidia-cap3", "nvidia-cap4">> @@ "card1" :> <<>>

\* the driver alone; the driver and the devices, in any order; MIG; three calls
DriverOptions == {{}, {"compat32"}, {"compute", "no_cgroups"}, {"no_devbind"}}
DeviceOptions == {{"graphics", "utility"}, {"compute", "video"}, {"graphics", "setns_fails"}, {"dxcore"}}
MigOptions    == {{"nvcaps"}, {"nvcaps", "no_devbind"}, {"nvcaps", "no_cgroups"}}
LongOptions   == {{"graphics", "video"}, {"nvcaps", "utility"}}

MCOptions  == DriverOptions \cup DeviceOptions \cup MigOptions \cup LongOptions
MCEntries  == [o \in MCOptions |-> CASE o \in DriverOptions -> {"driver"}
                                    [] o \in DeviceOptions -> {"driver", "device"}
                                    [] o \in MigOptions -> {"access", "config", "monitor", "migcaps"}
                                    [] o = {"graphics", "video"} -> {"device"}
                                    [] OTHER -> {"config", "monitor"}]
MCMaxCalls == [o \in MCOptions |-> IF o \in LongOptions THEN 3 ELSE 2]

\* the global capabilities of MIG alone
GlobalOptions == {{}}
GlobalEntries == [o \in GlobalOptions |-> {"config", "monitor"}]
GlobalCalls   == [o \in GlobalOptions |-> 2]
=============================================================================
