--------------------------- MODULE LdcacheUpdate ----------------------------
(***************************************************************************)
(* nvc_ldcache_update: a child confines itself to the root filesystem of   *)
(* the container and executes ldconfig there, while the library reads its  *)
(* output and waits for it (nvc_ldcache.c).                                *)
(***************************************************************************)
EXTENDS Capabilities

CONSTANTS
  Uids,            \* owners of the container's root filesystem
  CredChoices      \* credentials of the caller

ASSUME LdcacheAssumption == Uids \subseteq Nat /\ CredChoices \subseteq Cred

VARIABLES
  conf,     \* arguments, build (seccomp) and environment of the call
  parent,   \* program counter of the caller
  child,    \* program counter and outcome of the child
  cred,     \* credentials of the child
  jail,     \* what the child is confined by
  pipe,     \* processes that hold the write end of the log pipe
  ret       \* result of the call

vars == <<conf, parent, child, cred, jail, pipe, ret>>

-----------------------------------------------------------------------------
(* The caller. The program of the host is opened before the fork. *)
OpenFails ==
  /\ parent = "call" /\ conf.host
  /\ parent' = "done" /\ ret' = "-1"
  /\ UNCHANGED <<conf, child, cred, jail, pipe>>

create_process ==
  /\ parent = "call"
  /\ \/ /\ child' = [child EXCEPT !.pc = "stdio"] /\ UNCHANGED ret
        /\ pipe' = (IF conf.log THEN {"parent", "child"} ELSE {})
        /\ parent' = (IF conf.log THEN "close" ELSE "wait")
     \/ parent' = "done" /\ ret' = "-1" /\ UNCHANGED <<child, pipe>>
  /\ UNCHANGED <<conf, cred, jail>>

(* log_pipe_output closes the caller's own write end and reads up to the   *)
(* end of the file; a failure is logged and forgotten.                     *)
\* variant: the write end stays open
CloseWriteEnd_Kept ==
  /\ parent = "close" /\ parent' = "read"
  /\ UNCHANGED <<conf, child, cred, jail, pipe, ret>>

CloseWriteEnd ==
  /\ parent = "close" /\ parent' = "read" /\ pipe' = pipe \ {"parent"}
  /\ UNCHANGED <<conf, child, cred, jail, ret>>

ReadToTheEnd ==
  /\ parent = "read" /\ pipe = {} /\ parent' = "wait"
  /\ UNCHANGED <<conf, child, cred, jail, pipe, ret>>

ReadFails ==
  /\ parent = "read" /\ parent' = "wait"
  /\ UNCHANGED <<conf, child, cred, jail, pipe, ret>>

Reap ==
  /\ parent = "wait" /\ child.pc = "exited" /\ parent' = "done"
  /\ ret' = (IF child.status = "0" THEN "0" ELSE "-1")
  /\ child' = [child EXCEPT !.pc = "reaped"]
  /\ UNCHANGED <<conf, cred, jail, pipe>>

WaitFails ==
  /\ parent = "wait" /\ parent' = "done" /\ ret' = "-1"
  /\ UNCHANGED <<conf, child, cred, jail, pipe>>
-----------------------------------------------------------------------------
(* The child. *)
At(pc) == child.pc = pc

Goto(pc) == child' = [child EXCEPT !.pc = pc]

(* A step may fail with one of errs, and does fail with EPERM where it     *)
(* lacks a capability it needs.                                            *)
Fails(needs, errs) ==
  /\ \/ \E e \in errs : child' = [child EXCEPT !.pc = "fail", !.err = e]
     \/ /\ ~(needs \subseteq cred.E)
        /\ child' = [child EXCEPT !.pc = "fail", !.err = "EPERM", !.denied = TRUE]
  /\ UNCHANGED <<cred, jail>>

Frame == UNCHANGED <<conf, parent, pipe, ret>>

AnyErrno == {"ENOENT", "EPERM", "other"}

(* The rest of create_process: a child that cannot redirect its output     *)
(* goes on without.                                                        *)
RedirectOutput ==
  /\ At("stdio") /\ Goto("ns")
  /\ pipe' \in {pipe, pipe \ {"child"}}
  /\ UNCHANGED <<conf, parent, cred, jail, ret>>

ns_enter ==
  /\ At("ns")
  /\ LET needs == {"SYS_ADMIN", "SYS_CHROOT", "SYS_PTRACE"} IN
     \/ /\ needs \subseteq cred.E /\ Goto("caps")
        /\ jail' = [jail EXCEPT !.ns = "container"] /\ UNCHANGED cred
     \/ Fails(needs, AnyErrno)
  /\ Frame

Strict == conf.secure /\ ~conf.host

(* adjust_capabilities. A refusal of DAC_OVERRIDE is tolerated, and a      *)
(* kernel without ambient capabilities is not noticed.                     *)
AdjustInheritable ==
  /\ At("caps")
  /\ LET dac == {"DAC_OVERRIDE"}
         c   == SetInheritable(cred, dac) IN
     \/ /\ Strict \/ ~MaySetInheritable(cred, dac)
        /\ Goto("bounds") /\ cred' = SetInheritable(cred, {}) /\ UNCHANGED jail
     \/ /\ ~Strict /\ MaySetInheritable(cred, dac)
        /\ cred' = IF conf.uid # 0 /\ conf.ambient /\ MaySetAmbient(c, dac) THEN SetAmbient(c, dac) ELSE c
        /\ Goto("bounds") /\ UNCHANGED jail
     \/ Fails({}, {"other"})
  /\ Frame

\* variant: the bounding set is kept
AdjustBounds_Kept == At("bounds") /\ Goto("root") /\ UNCHANGED <<cred, jail>> /\ Frame

(* The number of capabilities is read from /proc first. *)
AdjustBounds ==
  /\ At("bounds")
  /\ \/ MaySetBounds(cred, {}) /\ cred' = SetBounds(cred, {}) /\ Goto("root") /\ UNCHANGED jail
     \/ Fails(IF cred.B = {} THEN {} ELSE {"SETPCAP"}, AnyErrno)
  /\ Frame

(* A private mount namespace whose root is that of the container, with     *)
(* /proc (unless the host's ldconfig needs it), /sys and /dev hidden, and  *)
(* a link created in /dev for the owner. A user namespace may deny         *)
(* changing the supplementary groups.                                      *)
change_rootfs ==
  /\ At("root")
  /\ LET needs == {"SYS_ADMIN", "SYS_CHROOT"} \cup ChangeUserNeeds(cred, conf.uid, FALSE) IN
     \/ /\ needs \subseteq cred.E /\ Goto("limits")
        /\ jail' = [jail EXCEPT !.root = "container", !.hidden = TRUE, !.drop_groups = conf.setgroups]
        /\ cred' = FileCreated(cred, conf.uid)
     \/ Fails(needs, AnyErrno)
  /\ Frame

limit_resources ==
  /\ At("limits")
  /\ \/ Goto("securebits") /\ jail' = [jail EXCEPT !.limits = TRUE] /\ UNCHANGED cred
     \/ Fails({}, {"EPERM", "other"})
  /\ Frame

(* adjust_privileges. *)
SetSecurebits ==
  /\ At("securebits")
  /\ \/ /\ Goto("privileges") /\ UNCHANGED jail
        /\ cred' = IF conf.uid # 0 /\ "SETPCAP" \in cred.E THEN [cred EXCEPT !.fixup = FALSE] ELSE cred
     \/ conf.uid # 0 /\ Fails({}, {"other"})
  /\ Frame

perm_drop_privileges ==
  /\ At("privileges")
  /\ LET needs == ChangeUserNeeds(cred, conf.uid, jail.drop_groups) IN
     \/ /\ needs \subseteq cred.E /\ Goto("syscalls")
        /\ cred' = DropPrivileges(cred, conf.uid) /\ jail' = [jail EXCEPT !.groups = jail.drop_groups]
     \/ Fails(needs, {"EPERM", "other"})
  /\ Frame

\* variant: a build without seccomp goes on in secure mode as well
limit_syscalls_Lenient ==
  /\ At("syscalls") /\ Goto("exec")
  /\ jail' = [jail EXCEPT !.seccomp = conf.seccomp] /\ UNCHANGED cred
  /\ Frame

limit_syscalls ==
  /\ At("syscalls")
  /\ \/ /\ conf.seccomp \/ ~conf.secure
        /\ Goto("exec") /\ jail' = [jail EXCEPT !.seccomp = conf.seccomp] /\ UNCHANGED cred
     \/ (conf.seccomp \/ conf.secure) /\ Fails({}, {"other"})
  /\ Frame

Execve ==
  /\ At("exec")
  /\ \/ child' = [child EXCEPT !.pc = "run", !.ran = TRUE] /\ cred' = Executed(cred) /\ UNCHANGED jail
     \/ Fails({}, AnyErrno)
  /\ Frame

Exits(status) ==
  /\ child' = [child EXCEPT !.pc = "exited", !.status = status]
  /\ pipe' = pipe \ {"child"}
  /\ UNCHANGED <<conf, parent, cred, jail, ret>>

(* A missing ldconfig is not an error, and neither is any other step that  *)
(* ended with the same code.                                               *)
\* variant: every failure of the child is forgiven
ExitAfterFailure_Forgiven == At("fail") /\ Exits("0")

ExitAfterFailure == At("fail") /\ Exits(IF child.err = "ENOENT" THEN "0" ELSE "1")

LdconfigEnds == At("run") /\ \E s \in {"0", "1", "signal"} : Exits(s)

ChildSetup ==
  \/ RedirectOutput \/ ns_enter \/ AdjustInheritable \/ AdjustBounds \/ change_rootfs
  \/ limit_resources \/ SetSecurebits \/ perm_drop_privileges \/ limit_syscalls \/ Execve
  \/ ExitAfterFailure

ParentStep == OpenFails \/ create_process \/ CloseWriteEnd \/ ReadToTheEnd \/ Reap

LdcacheInit ==
  /\ conf \in [uid : Uids, host : BOOLEAN, secure : BOOLEAN, log : BOOLEAN, setgroups : BOOLEAN,
               ambient : BOOLEAN, seccomp : BOOLEAN, caller : CredChoices]
  /\ parent = "call" /\ ret = "none" /\ pipe = {}
  /\ child = [pc |-> "none", err |-> "none", status |-> "none", ran |-> FALSE, denied |-> FALSE]
  /\ cred = conf.caller
  /\ jail = [ns |-> "host", root |-> "host", hidden |-> FALSE, limits |-> FALSE,
             seccomp |-> FALSE, drop_groups |-> TRUE, groups |-> FALSE]

LdcacheNext == ParentStep \/ ReadFails \/ WaitFails \/ ChildSetup \/ LdconfigEnds

(* The kernel runs both processes. Nothing makes ldconfig end: RLIMIT_CPU  *)
(* does not stop a process that waits.                                     *)
LdcacheSpec ==
  LdcacheInit /\ [][LdcacheNext]_vars /\ WF_vars(ChildSetup) /\ WF_vars(ParentStep)
-----------------------------------------------------------------------------
(* ldconfig runs only under every confinement the child sets up, as the    *)
(* owner of the root filesystem and with its groups alone where the user   *)
(* namespace lets them change; seccomp is missing only in a build without  *)
(* it and outside of secure mode.                                          *)
ExecIsConfined ==
  child.ran =>
    /\ jail.ns = "container" /\ jail.root = "container" /\ jail.hidden /\ jail.limits
    /\ cred.uid = conf.uid /\ cred.nnp
    /\ jail.groups \/ ~conf.setgroups
    /\ jail.seccomp \/ (~conf.seccomp /\ ~conf.secure)

(* adjust_capabilities leaves all but the inheritable and ambient sets to  *)
(* execve: ldconfig then has no capability in secure mode unless it is the *)
(* host's, and DAC_OVERRIDE at most otherwise, for user 0 as well. The     *)
(* host's keeps it across the drop of the bounding set, the change of user *)
(* and execve, where the kernel has ambient capabilities or the user is 0, *)
(* if the caller is permitted it and its bounding set has it.              *)
ExecCapabilities ==
  child.ran =>
    /\ cred.P \subseteq IF Strict THEN {} ELSE {"DAC_OVERRIDE"}
    /\ conf.host /\ (conf.ambient \/ conf.uid = 0) /\ "DAC_OVERRIDE" \in conf.caller.B \cap conf.caller.P =>
         "DAC_OVERRIDE" \in cred.P

(* The capabilities of the ldcache stage of the command line are enough    *)
(* for every step of the child that needs some, after what the earlier     *)
(* steps gave up.                                                          *)
StageIsSufficient ==
  conf.caller.E = ecaps["ldcache"] /\ conf.caller.B = bcaps => ~child.denied

(* nvc_ldcache_update succeeds only for a child that it reaped and that    *)
(* ran ldconfig or met ENOENT on the way there.                            *)
SuccessIsExplained ==
  ret = "0" => At("reaped") /\ (child.ran \/ child.err = "ENOENT")

(* nvc_ldcache_update returns, whichever step fails and whether or not the *)
(* output is read, unless ldconfig itself never ends.                      *)
UpdateReturns == <>(parent = "done") \/ <>[]At("run")
=============================================================================
