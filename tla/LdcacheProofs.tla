--------------------------- MODULE LdcacheProofs ----------------------------
(***************************************************************************)
(* The safety properties of nvc_ldcache_update for all owners and all      *)
(* credentials of the caller. The properties speak of the moment ldconfig  *)
(* runs, or of its end; what makes them inductive is what the child has    *)
(* done and still has at each of its steps.                                *)
(***************************************************************************)
EXTENDS LdcacheUpdate, TLAPS

(***************************************************************************)
(* The operations on credentials.                                          *)
(***************************************************************************)
(* Credentials with one field replaced are credentials, *)
LEMMA CredFields ==
  \A c \in Cred, X \in SUBSET Caps, u \in Nat, b \in BOOLEAN :
    /\ [c EXCEPT !.P = X] \in Cred /\ [c EXCEPT !.E = X] \in Cred /\ [c EXCEPT !.I = X] \in Cred
    /\ [c EXCEPT !.A = X] \in Cred /\ [c EXCEPT !.B = X] \in Cred
    /\ [c EXCEPT !.uid = u] \in Cred /\ [c EXCEPT !.fixup = b] \in Cred /\ [c EXCEPT !.nnp = b] \in Cred
<1> TAKE c \in Cred, X \in SUBSET Caps, u \in Nat, b \in BOOLEAN
<1>1. [c EXCEPT !.P = X] \in Cred
  BY DEF Cred
<1>2. [c EXCEPT !.E = X] \in Cred
  BY DEF Cred
<1>3. [c EXCEPT !.I = X] \in Cred
  BY DEF Cred
<1>4. [c EXCEPT !.A = X] \in Cred
  BY DEF Cred
<1>5. [c EXCEPT !.B = X] \in Cred
  BY DEF Cred
<1>6. [c EXCEPT !.uid = u] \in Cred
  BY DEF Cred
<1>7. [c EXCEPT !.fixup = b] \in Cred
  BY DEF Cred
<1>8. [c EXCEPT !.nnp = b] \in Cred
  BY DEF Cred
<1> QED
  BY <1>1, <1>2, <1>3, <1>4, <1>5, <1>6, <1>7, <1>8

(* and so are those the operations of Capabilities give. *)
LEMMA CredOps ==
  ASSUME NEW c \in Cred, NEW S \in SUBSET Caps, NEW u \in Nat
  PROVE  /\ SetInheritable(c, S) \in Cred /\ SetAmbient(c, S) \in Cred /\ SetBounds(c, S) \in Cred
         /\ FileCreated(c, u) \in Cred /\ DropPrivileges(c, u) \in Cred /\ Executed(c) \in Cred
<1>0. /\ c.P \in SUBSET Caps /\ c.E \in SUBSET Caps /\ c.I \in SUBSET Caps
      /\ c.A \in SUBSET Caps /\ c.B \in SUBSET Caps
  BY DEF Cred
<1>1. SetInheritable(c, S) \in Cred
  <2>1. [c EXCEPT !.I = S] \in Cred
    BY CredFields
  <2>2. c.A \cap S \in SUBSET Caps
    BY <1>0
  <2> QED
    BY <2>1, <2>2, CredFields, Zenon DEF SetInheritable
<1>2. SetAmbient(c, S) \in Cred
  BY CredFields DEF SetAmbient
<1>3. SetBounds(c, S) \in Cred
  <2>1. c.B \cap S \in SUBSET Caps
    BY <1>0
  <2> QED
    BY <2>1, CredFields DEF SetBounds
<1>4. FileCreated(c, u) \in Cred
  <2> DEFINE E == CASE c.uid = 0 /\ u # 0 -> c.E \cup (c.P \cap FsCaps)
                    [] c.uid # 0 /\ u = 0 -> (c.E \ FsCaps) \cup (c.P \cap {"DAC_OVERRIDE"})
                    [] OTHER -> c.E \cup (c.P \cap {"DAC_OVERRIDE"})
  <2>1. E \in SUBSET Caps
    BY <1>0
  <2>2. FileCreated(c, u) = [c EXCEPT !.E = E]
    BY DEF FileCreated
  <2> HIDE DEF E
  <2> QED
    BY <2>1, <2>2, CredFields
<1>5. DropPrivileges(c, u) \in Cred
  <2> DEFINE leaves == c.fixup /\ c.uid = 0 /\ u # 0
             P == IF leaves THEN {} ELSE c.P
             A == IF leaves THEN {} ELSE c.A
             E == IF leaves THEN {} ELSE IF c.fixup /\ c.uid # 0 /\ u = 0 THEN c.P ELSE c.E
             d == [c EXCEPT !.uid = u, !.nnp = TRUE]
             e == [d EXCEPT !.P = P]
             f == [e EXCEPT !.A = A]
  <2>1. P \in SUBSET Caps /\ A \in SUBSET Caps /\ E \in SUBSET Caps
    BY <1>0
  <2>2. DropPrivileges(c, u) = [f EXCEPT !.E = E]
    BY DEF DropPrivileges
  <2>3. [c EXCEPT !.uid = u] \in Cred
    BY CredFields
  <2>4. d \in Cred
    BY <2>3, CredFields, Zenon
  <2> HIDE DEF d, P, A, E
  <2>5. e \in Cred
    BY <2>1, <2>4, CredFields, Zenon
  <2> HIDE DEF e
  <2>6. f \in Cred
    BY <2>1, <2>5, CredFields, Zenon
  <2> HIDE DEF f
  <2> QED
    BY <2>1, <2>2, <2>6, CredFields
<1>6. Executed(c) \in Cred
  <2> DEFINE new == c.A \cup (IF c.uid = 0 THEN c.I \cup c.B ELSE {})
             d == [c EXCEPT !.P = new]
  <2>1. new \in SUBSET Caps
    BY <1>0
  <2>2. Executed(c) = [d EXCEPT !.E = new]
    BY DEF Executed
  <2> HIDE DEF new
  <2>3. d \in Cred
    BY <2>1, CredFields, Zenon
  <2> HIDE DEF d
  <2> QED
    BY <2>1, <2>2, <2>3, CredFields
<1> QED
  BY <1>1, <1>2, <1>3, <1>4, <1>5, <1>6

(* The change of the filesystem user around the creation of a file touches *)
(* no other capability than those of files.                                *)
LEMMA FileCreatedKeeps ==
  ASSUME NEW c \in Cred, NEW u \in Nat
  PROVE  LET d == FileCreated(c, u) IN
         /\ d.uid = c.uid /\ d.nnp = c.nnp /\ d.P = c.P /\ d.I = c.I /\ d.A = c.A /\ d.B = c.B
         /\ c.E \ FsCaps \subseteq d.E
<1> DEFINE E == CASE c.uid = 0 /\ u # 0 -> c.E \cup (c.P \cap FsCaps)
                  [] c.uid # 0 /\ u = 0 -> (c.E \ FsCaps) \cup (c.P \cap {"DAC_OVERRIDE"})
                  [] OTHER -> c.E \cup (c.P \cap {"DAC_OVERRIDE"})
<1>1. c.E \ FsCaps \subseteq E
  OBVIOUS
<1>2. FileCreated(c, u) = [c EXCEPT !.E = E]
  BY DEF FileCreated
<1> HIDE DEF E
<1> QED
  BY <1>1, <1>2 DEF Cred

(* The change of user keeps the ambient set where nothing fixes it up.     *)
LEMMA DropPrivilegesKeeps ==
  ASSUME NEW c \in Cred, NEW u \in Nat
  PROVE  LET d == DropPrivileges(c, u) IN
         /\ d.uid = u /\ d.nnp = TRUE /\ d.I = c.I /\ d.B = c.B /\ d.A \subseteq c.A
         /\ ~c.fixup \/ u = 0 => d.A = c.A
<1> DEFINE leaves == c.fixup /\ c.uid = 0 /\ u # 0
           P == IF leaves THEN {} ELSE c.P
           A == IF leaves THEN {} ELSE c.A
           E == IF leaves THEN {} ELSE IF c.fixup /\ c.uid # 0 /\ u = 0 THEN c.P ELSE c.E
<1>1. A \subseteq c.A /\ (~c.fixup \/ u = 0 => A = c.A)
  OBVIOUS
<1>2. DropPrivileges(c, u) = [c EXCEPT !.uid = u, !.nnp = TRUE, !.P = P, !.A = A, !.E = E]
  BY DEF DropPrivileges
<1> HIDE DEF P, A, E
<1> QED
  BY <1>1, <1>2 DEF Cred

Early == {"none", "stdio", "ns"}
Ended == {"run", "exited", "reaped"}
AfterPrivileges == {"syscalls", "exec"}
AfterRoot == {"limits", "securebits", "privileges"} \cup AfterPrivileges
AfterCaps == {"bounds", "root"} \cup AfterRoot

Jail == [ns : {"host", "container"}, root : {"host", "container"}, hidden : BOOLEAN, limits : BOOLEAN,
         seccomp : BOOLEAN, drop_groups : BOOLEAN, groups : BOOLEAN]

Child == [pc : Early \cup {"caps", "fail"} \cup AfterCaps \cup Ended,
          err : AnyErrno \cup {"none"}, status : {"none", "0", "1", "signal"},
          ran : BOOLEAN, denied : BOOLEAN]

LdcacheTypeOK ==
  /\ conf \in [uid : Nat, host : BOOLEAN, secure : BOOLEAN, log : BOOLEAN, setgroups : BOOLEAN,
               ambient : BOOLEAN, seccomp : BOOLEAN, caller : Cred]
  /\ child \in Child
  /\ cred \in Cred /\ jail \in Jail

(* What the child is confined by once it is past a step. *)
Past(S) == child.ran \/ child.pc \in S

Confined ==
  /\ child.ran => child.pc \in Ended
  /\ At("run") => child.ran
  /\ Past({"caps"} \cup AfterCaps) => jail.ns = "container"
  /\ Past(AfterRoot) => jail.root = "container" /\ jail.hidden /\ jail.drop_groups = conf.setgroups
  /\ Past({"securebits", "privileges"} \cup AfterPrivileges) => jail.limits
  /\ Past(AfterPrivileges) => cred.uid = conf.uid /\ cred.nnp /\ jail.groups = jail.drop_groups
  /\ Past({"exec"}) => jail.seccomp \/ (~conf.seccomp /\ ~conf.secure)

(* The capabilities execve leaves come from three sets, emptied but for    *)
(* DAC_OVERRIDE.                                                           *)
AtMost == IF Strict THEN {} ELSE {"DAC_OVERRIDE"}

Lowered ==
  /\ child.pc \in AfterCaps => cred.I \subseteq AtMost /\ cred.A \subseteq AtMost
  /\ child.pc \in {"root"} \cup AfterRoot => cred.B = {}
  /\ child.ran => cred.P \subseteq AtMost

(* The host's ldconfig is to keep DAC_OVERRIDE. SETPCAP is what lets the   *)
(* child pass AdjustBounds, and keep the ambient set in DropPrivileges.    *)
Kept ==
  /\ conf.host /\ (conf.ambient \/ conf.uid = 0)
  /\ "DAC_OVERRIDE" \in conf.caller.B \cap conf.caller.P

Inherits == "DAC_OVERRIDE" \in cred.I /\ (conf.uid # 0 => "DAC_OVERRIDE" \in cred.A)

Overrides ==
  /\ child.pc \in Early \cup {"caps"} => cred = conf.caller
  /\ At("bounds") => cred.B = conf.caller.B
  /\ Kept =>
       /\ At("bounds") => Inherits
       /\ child.pc \in {"root", "limits", "securebits"} => Inherits /\ "SETPCAP" \in cred.E
       /\ At("privileges") => Inherits /\ (conf.uid # 0 => ~cred.fixup)
       /\ child.pc \in AfterPrivileges => Inherits
       /\ child.ran => "DAC_OVERRIDE" \in cred.P

(* The stage has what the steps still to come need. *)
Needed == {"SYS_ADMIN", "SYS_CHROOT", "SYS_PTRACE", "SETPCAP", "SETUID", "SETGID"}

Sufficient ==
  conf.caller.E = ecaps["ldcache"] =>
    /\ ~child.denied
    /\ child.pc \in Early \cup {"caps", "bounds", "root", "limits", "securebits", "privileges"} =>
         Needed \subseteq cred.E

Explained ==
  /\ parent = "call" => At("none")
  /\ At("exited") /\ child.status = "0" => child.ran \/ child.err = "ENOENT"
  /\ ret = "0" => parent = "done" /\ At("reaped") /\ (child.ran \/ child.err = "ENOENT")

LdcacheInv == LdcacheTypeOK /\ Confined /\ Lowered /\ Overrides /\ Sufficient /\ Explained
-----------------------------------------------------------------------------
(* What a step of the child leaves of its outcome. *)
Moved(to) ==
  /\ child'.pc = to /\ child'.ran = child.ran /\ child'.err = child.err
  /\ child'.status = child.status /\ child'.denied = child.denied

Failed(needs) ==
  /\ child'.pc = "fail" /\ child'.ran = child.ran /\ cred' = cred /\ jail' = jail
  /\ child'.denied = child.denied \/ ~(needs \subseteq cred.E)

(* The call begins with nothing done and the credentials of the caller. *)
LEMMA InitInv == LdcacheInit => LdcacheInv
<1> SUFFICES ASSUME LdcacheInit PROVE LdcacheInv
  OBVIOUS
<1>1. LdcacheTypeOK
  BY Zenon, LdcacheAssumption DEF LdcacheInit, LdcacheTypeOK, Child, Cred, Jail, Early
<1>2. Confined
  BY Zenon DEF LdcacheInit, Confined, Past, At, AfterCaps, AfterRoot, AfterPrivileges
<1>3. Lowered
  BY Zenon DEF LdcacheInit, Lowered, AfterCaps, AfterRoot, AfterPrivileges
<1>4. Overrides
  BY Zenon DEF LdcacheInit, Overrides, At, Early, AfterPrivileges
<1>5. Sufficient
  BY Zenon DEF LdcacheInit, Sufficient, Needed, ecaps
<1>6. Explained
  BY Zenon DEF LdcacheInit, Explained, At
<1> QED
  BY Zenon, <1>1, <1>2, <1>3, <1>4, <1>5, <1>6 DEF LdcacheInv

(* Every step keeps the types. *)
LEMMA TypeStep == LdcacheTypeOK /\ [LdcacheNext]_vars => LdcacheTypeOK'
<1> SUFFICES ASSUME LdcacheTypeOK, [LdcacheNext]_vars PROVE LdcacheTypeOK'
  OBVIOUS
<1> USE DEF LdcacheTypeOK, Child, At, Goto, Frame
<1>1. CASE OpenFails
  BY <1>1 DEF OpenFails, Early, AfterCaps, AfterRoot, AfterPrivileges, Ended
<1>2. CASE create_process
  BY <1>2 DEF create_process, Early, AfterCaps, AfterRoot, AfterPrivileges, Ended
<1>3. CASE CloseWriteEnd
  BY <1>3 DEF CloseWriteEnd, Early, AfterCaps, AfterRoot, AfterPrivileges, Ended
<1>4. CASE ReadToTheEnd
  BY <1>4 DEF ReadToTheEnd, Early, AfterCaps, AfterRoot, AfterPrivileges, Ended
<1>5. CASE Reap
  BY Zenon, <1>5 DEF Reap, Early, AfterCaps, AfterRoot, AfterPrivileges, Ended
<1>6. CASE ReadFails
  BY <1>6 DEF ReadFails, Early, AfterCaps, AfterRoot, AfterPrivileges, Ended
<1>7. CASE WaitFails
  BY <1>7 DEF WaitFails, Early, AfterCaps, AfterRoot, AfterPrivileges, Ended
<1>8. CASE RedirectOutput
  BY Zenon, <1>8 DEF RedirectOutput, Early, AfterCaps, AfterRoot, AfterPrivileges, Ended
<1>9. CASE ns_enter
  <2>1. child' \in Child
    BY <1>9 DEF ns_enter, Fails, AnyErrno, Early, AfterCaps, AfterRoot, AfterPrivileges, Ended
  <2>2. cred' \in Cred
    BY Zenon, <1>9 DEF ns_enter, Fails
  <2>3. jail' \in Jail
    BY <1>9 DEF ns_enter, Fails, Jail
  <2> QED
    BY Zenon, <1>9, <2>1, <2>2, <2>3 DEF ns_enter
<1>10. CASE AdjustInheritable
  <2>1. child' \in Child
    BY <1>10 DEF AdjustInheritable, Fails, AnyErrno, Early, AfterCaps, AfterRoot, AfterPrivileges, Ended
  <2>2. cred' \in Cred
    <3>1. {} \in SUBSET Caps /\ {"DAC_OVERRIDE"} \in SUBSET Caps
      BY Zenon DEF Caps
    <3>2. SetInheritable(cred, {}) \in Cred /\ SetInheritable(cred, {"DAC_OVERRIDE"}) \in Cred
      BY Zenon, <3>1, CredOps
    <3>3. SetAmbient(SetInheritable(cred, {"DAC_OVERRIDE"}), {"DAC_OVERRIDE"}) \in Cred
      BY Zenon, <3>1, <3>2, CredOps
    <3> QED
      BY Zenon, <1>10, <3>2, <3>3 DEF AdjustInheritable, Fails
  <2>3. jail' \in Jail
    BY Zenon, <1>10 DEF AdjustInheritable, Fails, Jail
  <2> QED
    BY Zenon, <1>10, <2>1, <2>2, <2>3 DEF AdjustInheritable
<1>11. CASE AdjustBounds
  <2>1. child' \in Child
    BY <1>11 DEF AdjustBounds, Fails, AnyErrno, Early, AfterCaps, AfterRoot, AfterPrivileges, Ended
  <2>2. cred' \in Cred
    <3>1. SetBounds(cred, {}) \in Cred
      BY Zenon, CredOps
    <3> QED
      BY Zenon, <1>11, <3>1 DEF AdjustBounds, Fails
  <2>3. jail' \in Jail
    BY Zenon, <1>11 DEF AdjustBounds, Fails, Jail
  <2> QED
    BY Zenon, <1>11, <2>1, <2>2, <2>3 DEF AdjustBounds
<1>12. CASE change_rootfs
  <2>1. child' \in Child
    BY <1>12 DEF change_rootfs, Fails, AnyErrno, Early, AfterCaps, AfterRoot, AfterPrivileges, Ended
  <2>2. cred' \in Cred
    <3>1. FileCreated(cred, conf.uid) \in Cred
      BY Zenon, CredOps
    <3> QED
      BY Zenon, <1>12, <3>1 DEF change_rootfs, Fails
  <2>3. jail' \in Jail
    BY <1>12 DEF change_rootfs, Fails, Jail
  <2> QED
    BY Zenon, <1>12, <2>1, <2>2, <2>3 DEF change_rootfs
<1>13. CASE limit_resources
  <2>1. child' \in Child
    BY <1>13 DEF limit_resources, Fails, AnyErrno, Early, AfterCaps, AfterRoot, AfterPrivileges, Ended
  <2>2. jail' \in Jail
    BY Zenon, <1>13 DEF limit_resources, Fails, Jail
  <2> QED
    BY Zenon, <1>13, <2>1, <2>2 DEF limit_resources, Fails
<1>14. CASE SetSecurebits
  <2>1. child' \in Child
    BY <1>14 DEF SetSecurebits, Fails, AnyErrno, Early, AfterCaps, AfterRoot, AfterPrivileges, Ended
  <2>2. cred' \in Cred
    <3>1. [cred EXCEPT !.fixup = FALSE] \in Cred
      BY Zenon, CredFields
    <3> QED
      BY Zenon, <1>14, <3>1 DEF SetSecurebits, Fails
  <2>3. jail' \in Jail
    BY Zenon, <1>14 DEF SetSecurebits, Fails, Jail
  <2> QED
    BY Zenon, <1>14, <2>1, <2>2, <2>3 DEF SetSecurebits
<1>15. CASE perm_drop_privileges
  <2>1. child' \in Child
    BY <1>15 DEF perm_drop_privileges, Fails, AnyErrno, Early, AfterCaps, AfterRoot, AfterPrivileges, Ended
  <2>2. cred' \in Cred
    <3>1. DropPrivileges(cred, conf.uid) \in Cred
      BY Zenon, CredOps
    <3> QED
      BY Zenon, <1>15, <3>1 DEF perm_drop_privileges, Fails
  <2>3. jail' \in Jail
    BY <1>15 DEF perm_drop_privileges, Fails, Jail
  <2> QED
    BY Zenon, <1>15, <2>1, <2>2, <2>3 DEF perm_drop_privileges
<1>16. CASE limit_syscalls
  <2>1. child' \in Child
    BY <1>16 DEF limit_syscalls, Fails, AnyErrno, Early, AfterCaps, AfterRoot, AfterPrivileges, Ended
  <2>2. jail' \in Jail
    BY <1>16 DEF limit_syscalls, Fails, Jail
  <2> QED
    BY Zenon, <1>16, <2>1, <2>2 DEF limit_syscalls, Fails
<1>17. CASE Execve
  <2>1. child' \in Child
    BY <1>17 DEF Execve, Fails, AnyErrno, Early, AfterCaps, AfterRoot, AfterPrivileges, Ended
  <2>2. cred' \in Cred
    <3>1. Executed(cred) \in Cred
      BY Zenon, CredOps
    <3> QED
      BY Zenon, <1>17, <3>1 DEF Execve, Fails
  <2>3. jail' \in Jail
    BY Zenon, <1>17 DEF Execve, Fails, Jail
  <2> QED
    BY Zenon, <1>17, <2>1, <2>2, <2>3 DEF Execve
<1>18. CASE ExitAfterFailure
  BY <1>18 DEF ExitAfterFailure, Exits, Early, AfterCaps, AfterRoot, AfterPrivileges, Ended
<1>19. CASE LdconfigEnds
  BY <1>19 DEF LdconfigEnds, Exits, Early, AfterCaps, AfterRoot, AfterPrivileges, Ended
<1>20. CASE UNCHANGED vars
  BY <1>20 DEF vars
<1> QED
  BY Zenon, <1>1, <1>2, <1>3, <1>4, <1>5, <1>6, <1>7, <1>8, <1>9, <1>10, <1>11, <1>12, <1>13, <1>14, <1>15, <1>16, <1>17, <1>18, <1>19, <1>20 DEF LdcacheNext, ParentStep, ChildSetup

(* The fields each step of the child sets, and what it keeps. *)
(* ns_enter: the namespace. *)
LEMMA Enters ==
  LdcacheTypeOK /\ ns_enter =>
    \/ Failed({"SYS_ADMIN", "SYS_CHROOT", "SYS_PTRACE"})
    \/ /\ Moved("caps")
       /\ jail'.ns = "container" /\ jail'.root = jail.root /\ jail'.hidden = jail.hidden
       /\ jail'.limits = jail.limits /\ jail'.seccomp = jail.seccomp
       /\ jail'.drop_groups = jail.drop_groups /\ jail'.groups = jail.groups
       /\ cred' = cred
  BY DEF LdcacheTypeOK, Child, Goto, At, ns_enter, Fails, Failed, Moved, AnyErrno, Jail

(* AdjustInheritable: two sets are reduced, for the host to DAC_OVERRIDE. *)
LEMMA Inheritable ==
  LdcacheTypeOK /\ AdjustInheritable =>
    \/ Failed({})
    \/ /\ Moved("bounds")
       /\ jail' = jail
       /\ cred'.P = cred.P /\ cred'.E = cred.E /\ cred'.B = cred.B /\ cred'.uid = cred.uid
       /\ cred'.I \subseteq AtMost /\ cred'.A \subseteq AtMost
       /\ Kept /\ cred = conf.caller => Inherits'
<1> SUFFICES ASSUME LdcacheTypeOK, AdjustInheritable, ~Fails({}, {"other"})
             PROVE  /\ Moved("bounds") /\ jail' = jail
                    /\ cred'.P = cred.P /\ cred'.E = cred.E /\ cred'.B = cred.B /\ cred'.uid = cred.uid
                    /\ cred'.I \subseteq AtMost /\ cred'.A \subseteq AtMost
                    /\ Kept /\ cred = conf.caller => Inherits'
  BY Zenon DEF LdcacheTypeOK, Child, Fails, Failed
<1> DEFINE dac == {"DAC_OVERRIDE"}
<1>1. Moved("bounds") /\ jail' = jail /\ conf' = conf
  BY Zenon DEF AdjustInheritable, Goto, Moved, LdcacheTypeOK, Child, Frame
<1>2. CASE Strict \/ ~MaySetInheritable(cred, dac)
  <2>1. cred' = SetInheritable(cred, {})
    BY Zenon, <1>2 DEF AdjustInheritable
  <2>2. ~(Kept /\ cred = conf.caller)
    BY Zenon, <1>2 DEF Kept, Strict, MaySetInheritable
  <2> QED
    BY Zenon, <1>1, <2>1, <2>2 DEF SetInheritable, LdcacheTypeOK, Cred
<1>3. CASE ~Strict /\ MaySetInheritable(cred, dac)
  <2> DEFINE c == SetInheritable(cred, dac)
  <2>1. /\ c.P = cred.P /\ c.E = cred.E /\ c.B = cred.B /\ c.uid = cred.uid
        /\ c.I = dac /\ c.A \subseteq dac /\ c \in Cred
    <3>1. c \in Cred
      BY Zenon, CredOps DEF LdcacheTypeOK, Caps
    <3> QED
      BY Zenon, <3>1 DEF SetInheritable, LdcacheTypeOK, Cred
  <2>2. cred' = IF conf.uid # 0 /\ conf.ambient /\ MaySetAmbient(c, dac) THEN SetAmbient(c, dac) ELSE c
    BY Zenon, <1>3 DEF AdjustInheritable
  <2>3. AtMost = dac
    BY Zenon, <1>3 DEF AtMost
  <2> HIDE DEF c
  <2>4. CASE conf.uid # 0 /\ conf.ambient /\ MaySetAmbient(c, dac)
    <3>1. /\ cred'.P = c.P /\ cred'.E = c.E /\ cred'.B = c.B /\ cred'.uid = c.uid
          /\ cred'.I = c.I /\ cred'.A = dac
      BY Zenon, <2>1, <2>2, <2>4 DEF SetAmbient, Cred
    <3> QED
      BY Zenon, <1>1, <2>1, <2>3, <3>1 DEF Inherits
  <2>5. CASE ~(conf.uid # 0 /\ conf.ambient /\ MaySetAmbient(c, dac))
    <3>1. cred' = c
      BY Zenon, <2>2, <2>5
    <3>2. Kept /\ cred = conf.caller => conf.uid = 0
      BY Zenon, <2>1, <2>5 DEF Kept, MaySetAmbient
    <3> QED
      BY Zenon, <1>1, <2>1, <2>3, <3>1, <3>2 DEF Inherits
  <2> QED
    BY Zenon, <2>4, <2>5
<1> QED
  BY Zenon, <1>2, <1>3

(* AdjustBounds: the bounding set, which takes SETPCAP. *)
LEMMA Bounds ==
  LdcacheTypeOK /\ AdjustBounds =>
    \/ Failed(IF cred.B = {} THEN {} ELSE {"SETPCAP"})
    \/ /\ Moved("root") /\ (cred.B # {} => "SETPCAP" \in cred.E)
       /\ jail' = jail
       /\ cred'.uid = cred.uid /\ cred'.fixup = cred.fixup /\ cred'.nnp = cred.nnp
       /\ cred'.P = cred.P /\ cred'.E = cred.E /\ cred'.I = cred.I /\ cred'.A = cred.A
       /\ cred'.B = {}
  BY DEF LdcacheTypeOK, Child, Goto, At, AdjustBounds, Fails, Failed, Moved, AnyErrno, Cred, SetBounds, MaySetBounds

(* change_rootfs: the root, what is hidden, and whether groups may change. *)
LEMMA Root ==
  LdcacheTypeOK /\ change_rootfs =>
    \/ Failed({"SYS_ADMIN", "SYS_CHROOT"} \cup ChangeUserNeeds(cred, conf.uid, FALSE))
    \/ /\ Moved("limits")
       /\ jail'.ns = jail.ns /\ jail'.root = "container" /\ jail'.hidden = TRUE
       /\ jail'.limits = jail.limits /\ jail'.seccomp = jail.seccomp
       /\ jail'.drop_groups = conf.setgroups /\ jail'.groups = jail.groups
       /\ cred'.P = cred.P /\ cred'.I = cred.I /\ cred'.A = cred.A /\ cred'.B = cred.B
       /\ cred.E \ FsCaps \subseteq cred'.E
<1> SUFFICES ASSUME LdcacheTypeOK, change_rootfs,
                    ~Fails({"SYS_ADMIN", "SYS_CHROOT"} \cup ChangeUserNeeds(cred, conf.uid, FALSE), AnyErrno)
             PROVE  /\ Moved("limits")
                    /\ jail'.ns = jail.ns /\ jail'.root = "container" /\ jail'.hidden = TRUE
                    /\ jail'.limits = jail.limits /\ jail'.seccomp = jail.seccomp
                    /\ jail'.drop_groups = conf.setgroups /\ jail'.groups = jail.groups
                    /\ cred'.P = cred.P /\ cred'.I = cred.I /\ cred'.A = cred.A /\ cred'.B = cred.B
                    /\ cred.E \ FsCaps \subseteq cred'.E
  BY Zenon DEF LdcacheTypeOK, Child, Fails, Failed, AnyErrno
<1>1. cred' = FileCreated(cred, conf.uid) /\ cred \in Cred /\ conf.uid \in Nat
  BY Zenon DEF change_rootfs, LdcacheTypeOK
<1>2. /\ cred'.P = cred.P /\ cred'.I = cred.I /\ cred'.A = cred.A /\ cred'.B = cred.B
      /\ cred.E \ FsCaps \subseteq cred'.E
  BY Zenon, <1>1, FileCreatedKeeps
<1> QED
  BY <1>2 DEF change_rootfs, LdcacheTypeOK, Child, Jail, Goto, Moved

(* limit_resources: the limits. *)
LEMMA Limits ==
  LdcacheTypeOK /\ limit_resources =>
    \/ Failed({})
    \/ /\ Moved("securebits")
       /\ jail'.ns = jail.ns /\ jail'.root = jail.root /\ jail'.hidden = jail.hidden
       /\ jail'.limits = TRUE /\ jail'.seccomp = jail.seccomp
       /\ jail'.drop_groups = jail.drop_groups /\ jail'.groups = jail.groups
       /\ cred' = cred
  BY DEF LdcacheTypeOK, Child, Goto, At, limit_resources, Fails, Failed, Moved, AnyErrno, Jail

(* SetSecurebits: no fixup, where SETPCAP allows it. *)
LEMMA Securebits ==
  LdcacheTypeOK /\ SetSecurebits =>
    \/ Failed({})
    \/ /\ Moved("privileges")
       /\ jail' = jail
       /\ conf.uid # 0 /\ "SETPCAP" \in cred.E => ~cred'.fixup
       /\ cred'.uid = cred.uid /\ cred'.P = cred.P /\ cred'.E = cred.E
       /\ cred'.I = cred.I /\ cred'.A = cred.A /\ cred'.B = cred.B
  BY DEF LdcacheTypeOK, Child, Goto, At, SetSecurebits, Fails, Failed, Moved, AnyErrno, Cred

(* perm_drop_privileges: the user and the groups. *)
LEMMA Privileges ==
  LdcacheTypeOK /\ perm_drop_privileges =>
    \/ Failed(ChangeUserNeeds(cred, conf.uid, jail.drop_groups))
    \/ /\ Moved("syscalls")
       /\ jail'.ns = jail.ns /\ jail'.root = jail.root /\ jail'.hidden = jail.hidden
       /\ jail'.limits = jail.limits /\ jail'.seccomp = jail.seccomp
       /\ jail'.drop_groups = jail.drop_groups /\ jail'.groups = jail.drop_groups
       /\ cred'.uid = conf.uid /\ cred'.nnp = TRUE /\ cred'.I = cred.I /\ cred'.B = cred.B
       /\ cred'.A \subseteq cred.A /\ (~cred.fixup \/ conf.uid = 0 => cred'.A = cred.A)
<1> SUFFICES ASSUME LdcacheTypeOK, perm_drop_privileges,
                    ~Fails(ChangeUserNeeds(cred, conf.uid, jail.drop_groups), {"EPERM", "other"})
             PROVE  /\ Moved("syscalls")
                    /\ jail'.ns = jail.ns /\ jail'.root = jail.root /\ jail'.hidden = jail.hidden
                    /\ jail'.limits = jail.limits /\ jail'.seccomp = jail.seccomp
                    /\ jail'.drop_groups = jail.drop_groups /\ jail'.groups = jail.drop_groups
                    /\ cred'.uid = conf.uid /\ cred'.nnp = TRUE /\ cred'.I = cred.I /\ cred'.B = cred.B
                    /\ cred'.A \subseteq cred.A /\ (~cred.fixup \/ conf.uid = 0 => cred'.A = cred.A)
  BY Zenon DEF LdcacheTypeOK, Child, Fails, Failed
<1>1. cred' = DropPrivileges(cred, conf.uid) /\ cred \in Cred /\ conf.uid \in Nat
  BY Zenon DEF perm_drop_privileges, LdcacheTypeOK
<1>2. /\ cred'.uid = conf.uid /\ cred'.nnp = TRUE /\ cred'.I = cred.I /\ cred'.B = cred.B
      /\ cred'.A \subseteq cred.A /\ (~cred.fixup \/ conf.uid = 0 => cred'.A = cred.A)
  BY Zenon, <1>1, DropPrivilegesKeeps
<1> QED
  BY <1>2 DEF perm_drop_privileges, LdcacheTypeOK, Child, Jail, Goto, Moved

(* limit_syscalls: the filter, or a build without it. *)
LEMMA Syscalls ==
  LdcacheTypeOK /\ limit_syscalls =>
    \/ Failed({})
    \/ /\ Moved("exec") /\ (conf.seccomp \/ ~conf.secure)
       /\ jail'.ns = jail.ns /\ jail'.root = jail.root /\ jail'.hidden = jail.hidden
       /\ jail'.limits = jail.limits /\ jail'.seccomp = conf.seccomp
       /\ jail'.drop_groups = jail.drop_groups /\ jail'.groups = jail.groups
       /\ cred' = cred
  BY DEF LdcacheTypeOK, Child, Goto, At, limit_syscalls, Fails, Failed, Moved, AnyErrno, Jail

(* A child that failed before execve owes nothing but the account of what  *)
(* it was denied.                                                          *)
LEMMA FailedKeeps ==
  ASSUME LdcacheInv, Frame, child.pc \notin {"none", "reaped"}, ~child.ran,
         child'.ran = child.ran, child'.pc = "fail", cred' = cred
  PROVE  Confined' /\ Lowered' /\ Overrides' /\ Explained'
<1> USE DEF At, Early, AfterCaps, AfterRoot, AfterPrivileges, Ended
<1>1. Confined'
  BY Zenon DEF Confined, Past
<1>2. Lowered'
  BY Zenon DEF Lowered
<1>3. Overrides'
  BY Zenon DEF Overrides
<1>4. Explained'
  BY Zenon DEF LdcacheInv, Explained, Frame
<1> QED
  BY Zenon, <1>1, <1>2, <1>3, <1>4

(* Each step of the child up to execve keeps the invariant. *)
LEMMA SetupStep ==
  ASSUME LdcacheInv, LdcacheTypeOK',
         ns_enter \/ AdjustInheritable \/ AdjustBounds \/ change_rootfs \/ limit_resources
           \/ SetSecurebits \/ perm_drop_privileges \/ limit_syscalls
  PROVE  LdcacheInv'
<1>0. Frame /\ ~child.ran /\ LdcacheTypeOK
  BY Zenon DEF LdcacheInv, Confined, Ended, At, ns_enter, AdjustInheritable, AdjustBounds, change_rootfs,
         limit_resources, SetSecurebits, perm_drop_privileges, limit_syscalls
<1>1. CASE ns_enter
  <2>1. child.pc = "ns"
    BY Zenon, <1>1 DEF ns_enter, At
  <2>2. CASE Failed({"SYS_ADMIN", "SYS_CHROOT", "SYS_PTRACE"})
    <3>1. Confined' /\ Lowered' /\ Overrides' /\ Explained'
      BY Zenon, <1>0, <2>1, <2>2, FailedKeeps DEF Failed
    <3>2. Sufficient'
      BY Zenon, <1>0, <2>1, <2>2 DEF LdcacheInv, Sufficient, Failed, Frame, Needed, ChangeUserNeeds, Early, AfterCaps, AfterRoot, AfterPrivileges, Ended
    <3> QED
      BY Zenon, <3>1, <3>2 DEF LdcacheInv
  <2>3. CASE Moved("caps")
    <3> USE <1>1, <1>0, <2>1, <2>3, Enters DEF LdcacheInv, Failed, Moved, Frame, At, Early, AfterCaps, AfterRoot, AfterPrivileges, Ended
    <3>1. Confined'
      BY Zenon DEF Confined, Past
    <3>2. Lowered'
      BY Zenon DEF Lowered, AtMost, Strict
    <3>3. Overrides'
      BY Zenon DEF Overrides, Inherits, Kept, FsCaps
    <3>4. Sufficient'
      BY Zenon DEF Sufficient, Needed, FsCaps
    <3>5. Explained'
      BY Zenon DEF Explained
    <3> QED
      BY Zenon, <3>1, <3>2, <3>3, <3>4, <3>5
  <2> QED
    BY Zenon, <1>1, <1>0, <2>2, <2>3, Enters
<1>2. CASE AdjustInheritable
  <2>1. child.pc = "caps"
    BY Zenon, <1>2 DEF AdjustInheritable, At
  <2>2. CASE Failed({})
    <3>1. Confined' /\ Lowered' /\ Overrides' /\ Explained'
      BY Zenon, <1>0, <2>1, <2>2, FailedKeeps DEF Failed
    <3>2. Sufficient'
      BY Zenon, <1>0, <2>1, <2>2 DEF LdcacheInv, Sufficient, Failed, Frame, Needed, ChangeUserNeeds, Early, AfterCaps, AfterRoot, AfterPrivileges, Ended
    <3> QED
      BY <3>1, <3>2 DEF LdcacheInv
  <2>3. CASE Moved("bounds")
    <3> USE <1>2, <1>0, <2>1, <2>3, Inheritable DEF LdcacheInv, Failed, Moved, Frame, At, Early, AfterCaps, AfterRoot, AfterPrivileges, Ended
    <3>1. Confined'
      BY Zenon DEF Confined, Past
    <3>2. Lowered'
      BY Zenon DEF Lowered, AtMost, Strict
    <3>3. Overrides'
      BY Zenon DEF Overrides, Inherits, Kept, FsCaps
    <3>4. Sufficient'
      BY Zenon DEF Sufficient, Needed, FsCaps
    <3>5. Explained'
      BY Zenon DEF Explained
    <3> QED
      BY Zenon, <3>1, <3>2, <3>3, <3>4, <3>5
  <2> QED
    BY Zenon, <1>2, <1>0, <2>2, <2>3, Inheritable
<1>3. CASE AdjustBounds
  <2>1. child.pc = "bounds"
    BY Zenon, <1>3 DEF AdjustBounds, At
  <2>2. CASE Failed(IF cred.B = {} THEN {} ELSE {"SETPCAP"})
    <3>1. Confined' /\ Lowered' /\ Overrides' /\ Explained'
      BY Zenon, <1>0, <2>1, <2>2, FailedKeeps DEF Failed
    <3>2. Sufficient'
      BY Zenon, <1>0, <2>1, <2>2 DEF LdcacheInv, Sufficient, Failed, Frame, Needed, ChangeUserNeeds, Early, AfterCaps, AfterRoot, AfterPrivileges, Ended
    <3> QED
      BY <3>1, <3>2 DEF LdcacheInv
  <2>3. CASE Moved("root")
    <3> USE <1>3, <1>0, <2>1, <2>3, Bounds DEF LdcacheInv, Failed, Moved, Frame, At, Early, AfterCaps, AfterRoot, AfterPrivileges, Ended
    <3>1. Confined'
      BY Zenon DEF Confined, Past
    <3>2. Lowered'
      BY Zenon DEF Lowered, AtMost, Strict
    <3>3. Overrides'
      BY Zenon DEF Overrides, Inherits, Kept, FsCaps
    <3>4. Sufficient'
      BY Zenon DEF Sufficient, Needed, FsCaps
    <3>5. Explained'
      BY Zenon DEF Explained
    <3> QED
      BY Zenon, <3>1, <3>2, <3>3, <3>4, <3>5
  <2> QED
    BY Zenon, <1>3, <1>0, <2>2, <2>3, Bounds
<1>4. CASE change_rootfs
  <2>1. child.pc = "root"
    BY Zenon, <1>4 DEF change_rootfs, At
  <2>2. CASE Failed({"SYS_ADMIN", "SYS_CHROOT"} \cup ChangeUserNeeds(cred, conf.uid, FALSE))
    <3>1. Confined' /\ Lowered' /\ Overrides' /\ Explained'
      BY Zenon, <1>0, <2>1, <2>2, FailedKeeps DEF Failed
    <3>2. Sufficient'
      BY Zenon, <1>0, <2>1, <2>2 DEF LdcacheInv, Sufficient, Failed, Frame, Needed, ChangeUserNeeds, Early, AfterCaps, AfterRoot, AfterPrivileges, Ended
    <3> QED
      BY <3>1, <3>2 DEF LdcacheInv
  <2>3. CASE Moved("limits")
    <3> USE <1>4, <1>0, <2>1, <2>3, Root DEF LdcacheInv, Failed, Moved, Frame, At, Early, AfterCaps, AfterRoot, AfterPrivileges, Ended
    <3>1. Confined'
      BY Zenon DEF Confined, Past
    <3>2. Lowered'
      BY Zenon DEF Lowered, AtMost, Strict
    <3>3. Overrides'
      BY Zenon DEF Overrides, Inherits, Kept, FsCaps
    <3>4. Sufficient'
      BY Zenon DEF Sufficient, Needed, FsCaps
    <3>5. Explained'
      BY Zenon DEF Explained
    <3> QED
      BY Zenon, <3>1, <3>2, <3>3, <3>4, <3>5
  <2> QED
    BY Zenon, <1>4, <1>0, <2>2, <2>3, Root
<1>5. CASE limit_resources
  <2>1. child.pc = "limits"
    BY Zenon, <1>5 DEF limit_resources, At
  <2>2. CASE Failed({})
    <3>1. Confined' /\ Lowered' /\ Overrides' /\ Explained'
      BY Zenon, <1>0, <2>1, <2>2, FailedKeeps DEF Failed
    <3>2. Sufficient'
      BY Zenon, <1>0, <2>1, <2>2 DEF LdcacheInv, Sufficient, Failed, Frame, Needed, ChangeUserNeeds, Early, AfterCaps, AfterRoot, AfterPrivileges, Ended
    <3> QED
      BY <3>1, <3>2 DEF LdcacheInv
  <2>3. CASE Moved("securebits")
    <3> USE <1>5, <1>0, <2>1, <2>3, Limits DEF LdcacheInv, Failed, Moved, Frame, At, Early, AfterCaps, AfterRoot, AfterPrivileges, Ended
    <3>1. Confined'
      BY Zenon DEF Confined, Past
    <3>2. Lowered'
      BY Zenon DEF Lowered, AtMost, Strict
    <3>3. Overrides'
      BY Zenon DEF Overrides, Inherits, Kept, FsCaps
    <3>4. Sufficient'
      BY Zenon DEF Sufficient, Needed, FsCaps
    <3>5. Explained'
      BY Zenon DEF Explained
    <3> QED
      BY Zenon, <3>1, <3>2, <3>3, <3>4, <3>5
  <2> QED
    BY Zenon, <1>5, <1>0, <2>2, <2>3, Limits
<1>6. CASE SetSecurebits
  <2>1. child.pc = "securebits"
    BY Zenon, <1>6 DEF SetSecurebits, At
  <2>2. CASE Failed({})
    <3>1. Confined' /\ Lowered' /\ Overrides' /\ Explained'
      BY Zenon, <1>0, <2>1, <2>2, FailedKeeps DEF Failed
    <3>2. Sufficient'
      BY Zenon, <1>0, <2>1, <2>2 DEF LdcacheInv, Sufficient, Failed, Frame, Needed, ChangeUserNeeds, Early, AfterCaps, AfterRoot, AfterPrivileges, Ended
    <3> QED
      BY <3>1, <3>2 DEF LdcacheInv
  <2>3. CASE Moved("privileges")
    <3> USE <1>6, <1>0, <2>1, <2>3, Securebits DEF LdcacheInv, Failed, Moved, Frame, At, Early, AfterCaps, AfterRoot, AfterPrivileges, Ended
    <3>1. Confined'
      BY Zenon DEF Confined, Past
    <3>2. Lowered'
      BY Zenon DEF Lowered, AtMost, Strict
    <3>3. Overrides'
      BY Zenon DEF Overrides, Inherits, Kept, FsCaps
    <3>4. Sufficient'
      BY Zenon DEF Sufficient, Needed, FsCaps
    <3>5. Explained'
      BY Zenon DEF Explained
    <3> QED
      BY Zenon, <3>1, <3>2, <3>3, <3>4, <3>5
  <2> QED
    BY Zenon, <1>6, <1>0, <2>2, <2>3, Securebits
<1>7. CASE perm_drop_privileges
  <2>1. child.pc = "privileges"
    BY Zenon, <1>7 DEF perm_drop_privileges, At
  <2>2. CASE Failed(ChangeUserNeeds(cred, conf.uid, jail.drop_groups))
    <3>1. Confined' /\ Lowered' /\ Overrides' /\ Explained'
      BY Zenon, <1>0, <2>1, <2>2, FailedKeeps DEF Failed
    <3>2. Sufficient'
      BY Zenon, <1>0, <2>1, <2>2 DEF LdcacheInv, Sufficient, Failed, Frame, Needed, ChangeUserNeeds, Early, AfterCaps, AfterRoot, AfterPrivileges, Ended
    <3> QED
      BY <3>1, <3>2 DEF LdcacheInv
  <2>3. CASE Moved("syscalls")
    <3> USE <1>7, <1>0, <2>1, <2>3, Privileges DEF LdcacheInv, Failed, Moved, Frame, At, Early, AfterCaps, AfterRoot, AfterPrivileges, Ended
    <3>1. Confined'
      BY Zenon DEF Confined, Past
    <3>2. Lowered'
      BY Zenon DEF Lowered, AtMost, Strict
    <3>3. Overrides'
      BY Zenon DEF Overrides, Inherits, Kept, FsCaps
    <3>4. Sufficient'
      BY Zenon DEF Sufficient, Needed, FsCaps
    <3>5. Explained'
      BY Zenon DEF Explained
    <3> QED
      BY Zenon, <3>1, <3>2, <3>3, <3>4, <3>5
  <2> QED
    BY Zenon, <1>7, <1>0, <2>2, <2>3, Privileges
<1>8. CASE limit_syscalls
  <2>1. child.pc = "syscalls"
    BY Zenon, <1>8 DEF limit_syscalls, At
  <2>2. CASE Failed({})
    <3>1. Confined' /\ Lowered' /\ Overrides' /\ Explained'
      BY Zenon, <1>0, <2>1, <2>2, FailedKeeps DEF Failed
    <3>2. Sufficient'
      BY Zenon, <1>0, <2>1, <2>2 DEF LdcacheInv, Sufficient, Failed, Frame, Needed, ChangeUserNeeds, Early, AfterCaps, AfterRoot, AfterPrivileges, Ended
    <3> QED
      BY <3>1, <3>2 DEF LdcacheInv
  <2>3. CASE Moved("exec")
    <3> USE <1>8, <1>0, <2>1, <2>3, Syscalls DEF LdcacheInv, Failed, Moved, Frame, At, Early, AfterCaps, AfterRoot, AfterPrivileges, Ended
    <3>1. Confined'
      BY Zenon DEF Confined, Past
    <3>2. Lowered'
      BY Zenon DEF Lowered, AtMost, Strict
    <3>3. Overrides'
      BY Zenon DEF Overrides, Inherits, Kept, FsCaps
    <3>4. Sufficient'
      BY Zenon DEF Sufficient, Needed, FsCaps
    <3>5. Explained'
      BY Zenon DEF Explained
    <3> QED
      BY Zenon, <3>1, <3>2, <3>3, <3>4, <3>5
  <2> QED
    BY Zenon, <1>8, <1>0, <2>2, <2>3, Syscalls
<1> QED
  BY Zenon, <1>1, <1>2, <1>3, <1>4, <1>5, <1>6, <1>7, <1>8

(* execve leaves what the inheritable and ambient sets say. *)
LEMMA ExecveStep ==
  ASSUME LdcacheInv, LdcacheTypeOK', Execve
  PROVE  LdcacheInv'
<1>0. Frame /\ child.pc = "exec" /\ ~child.ran /\ LdcacheTypeOK
  BY Zenon DEF LdcacheInv, Confined, Ended, At, Execve
<1>1. CASE Fails({}, AnyErrno)
  <2>1. child'.ran = child.ran /\ child'.pc = "fail" /\ cred' = cred /\ child'.denied = child.denied
    BY Zenon, <1>0, <1>1 DEF Fails, LdcacheTypeOK, Child
  <2>2. Confined' /\ Lowered' /\ Overrides' /\ Explained'
    BY Zenon, <1>0, <2>1, FailedKeeps
  <2>3. Sufficient'
    BY Zenon, <1>0, <2>1 DEF LdcacheInv, Sufficient, Frame, Early
  <2> QED
    BY Zenon, <2>2, <2>3 DEF LdcacheInv
<1>2. CASE ~Fails({}, AnyErrno)
  <2>1. /\ child'.pc = "run" /\ child'.ran = TRUE /\ child'.denied = child.denied
        /\ jail' = jail /\ cred' = Executed(cred)
    BY Zenon, <1>0, <1>2 DEF Execve, LdcacheTypeOK, Child
  <2> DEFINE new == cred.A \cup (IF cred.uid = 0 THEN cred.I \cup cred.B ELSE {})
  <2>2. cred'.P = new /\ cred'.uid = cred.uid /\ cred'.nnp = cred.nnp
    BY Zenon, <1>0, <2>1 DEF Executed, LdcacheTypeOK, Cred
  <2> USE <1>0, <2>1, <2>2 DEF LdcacheInv, Frame, At, Early, AfterCaps, AfterRoot, AfterPrivileges, Ended
  <2>3. Confined'
    BY Zenon DEF Confined, Past
  <2>4. Lowered'
    BY Zenon DEF Lowered, AtMost, Strict
  <2>5. Overrides'
    BY Zenon DEF Overrides, Inherits, Kept, Confined, Past
  <2>6. Sufficient'
    BY Zenon DEF Sufficient
  <2>7. Explained'
    BY Zenon DEF Explained
  <2> QED
    BY Zenon, <2>3, <2>4, <2>5, <2>6, <2>7
<1> QED
  BY Zenon, <1>1, <1>2

(* The steps that leave the credentials and the confinement alone: those   *)
(* of the caller, the first and the last of the child.                     *)
LEMMA OtherStep ==
  ASSUME LdcacheInv, LdcacheTypeOK',
         ParentStep \/ ReadFails \/ WaitFails \/ RedirectOutput \/ ExitAfterFailure \/ LdconfigEnds
           \/ UNCHANGED vars
  PROVE  LdcacheInv'
<1> DEFINE Same == child'.ran = child.ran /\ child'.err = child.err /\ child'.denied = child.denied
<1>0. LdcacheTypeOK /\ conf' = conf /\ cred' = cred /\ jail' = jail
  BY Zenon DEF LdcacheInv, ParentStep, OpenFails, create_process, CloseWriteEnd, ReadToTheEnd, Reap, ReadFails,
         WaitFails, RedirectOutput, ExitAfterFailure, LdconfigEnds, Exits, vars
<1>1. \/ child' = child
      \/ child.pc = "none" /\ child'.pc = "stdio" /\ child'.status = child.status /\ Same
      \/ child.pc = "stdio" /\ child'.pc = "ns" /\ child'.status = child.status /\ Same
      \/ child.pc = "fail" /\ child'.pc = "exited" /\ Same
           /\ (child'.status = "0" => child.err = "ENOENT")
      \/ child.pc = "run" /\ child'.pc = "exited" /\ Same
      \/ child.pc = "exited" /\ child'.pc = "reaped" /\ child'.status = child.status /\ Same
  <2>1. CASE OpenFails
    BY Zenon, <1>0, <2>1 DEF OpenFails, At, Goto, Exits, LdcacheTypeOK, Child
  <2>2. CASE create_process
    BY <1>0, <2>2 DEF create_process, LdcacheTypeOK, Child, LdcacheInv, Explained, At
  <2>3. CASE CloseWriteEnd
    BY Zenon, <1>0, <2>3 DEF CloseWriteEnd, At, Goto, Exits, LdcacheTypeOK, Child
  <2>4. CASE ReadToTheEnd
    BY Zenon, <1>0, <2>4 DEF ReadToTheEnd, At, Goto, Exits, LdcacheTypeOK, Child
  <2>5. CASE Reap
    BY Zenon, <1>0, <2>5 DEF Reap, At, Goto, Exits, LdcacheTypeOK, Child
  <2>6. CASE ReadFails
    BY Zenon, <1>0, <2>6 DEF ReadFails, At, Goto, Exits, LdcacheTypeOK, Child
  <2>7. CASE WaitFails
    BY Zenon, <1>0, <2>7 DEF WaitFails, At, Goto, Exits, LdcacheTypeOK, Child
  <2>8. CASE RedirectOutput
    BY Zenon, <1>0, <2>8 DEF RedirectOutput, At, Goto, Exits, LdcacheTypeOK, Child
  <2>9. CASE ExitAfterFailure
    BY <1>0, <2>9 DEF ExitAfterFailure, At, Goto, Exits, LdcacheTypeOK, Child
  <2>10. CASE LdconfigEnds
    BY <1>0, <2>10 DEF LdconfigEnds, At, Goto, Exits, LdcacheTypeOK, Child
  <2>11. CASE UNCHANGED vars
    BY Zenon, <2>11 DEF vars
  <2> QED
    BY Zenon, <2>1, <2>2, <2>3, <2>4, <2>5, <2>6, <2>7, <2>8, <2>9, <2>10, <2>11 DEF ParentStep
<1>2. /\ ret' = "0" => \/ ret = "0" /\ parent' = parent
                       \/ child.pc = "exited" /\ child.status = "0" /\ parent' = "done" /\ child'.pc = "reaped"
      /\ parent' = "call" => parent = "call" /\ child' = child
  <2>1. CASE OpenFails
    BY Zenon, <1>0, <2>1 DEF OpenFails, At, Goto, Exits, LdcacheTypeOK, Child, LdcacheInv, Explained
  <2>2. CASE create_process
    BY Zenon, <1>0, <2>2 DEF create_process, At, Goto, Exits, LdcacheTypeOK, Child, LdcacheInv, Explained
  <2>3. CASE CloseWriteEnd
    BY Zenon, <1>0, <2>3 DEF CloseWriteEnd, At, Goto, Exits, LdcacheTypeOK, Child, LdcacheInv, Explained
  <2>4. CASE ReadToTheEnd
    BY Zenon, <1>0, <2>4 DEF ReadToTheEnd, At, Goto, Exits, LdcacheTypeOK, Child, LdcacheInv, Explained
  <2>5. CASE Reap
    BY Zenon, <1>0, <2>5 DEF Reap, At, Goto, Exits, LdcacheTypeOK, Child, LdcacheInv, Explained
  <2>6. CASE ReadFails
    BY Zenon, <1>0, <2>6 DEF ReadFails, At, Goto, Exits, LdcacheTypeOK, Child, LdcacheInv, Explained
  <2>7. CASE WaitFails
    BY Zenon, <1>0, <2>7 DEF WaitFails, At, Goto, Exits, LdcacheTypeOK, Child, LdcacheInv, Explained
  <2>8. CASE RedirectOutput
    BY Zenon, <1>0, <2>8 DEF RedirectOutput, At, Goto, Exits, LdcacheTypeOK, Child, LdcacheInv, Explained
  <2>9. CASE ExitAfterFailure
    BY Zenon, <1>0, <2>9 DEF ExitAfterFailure, At, Goto, Exits, LdcacheTypeOK, Child, LdcacheInv, Explained
  <2>10. CASE LdconfigEnds
    BY Zenon, <1>0, <2>10 DEF LdconfigEnds, At, Goto, Exits, LdcacheTypeOK, Child, LdcacheInv, Explained
  <2>11. CASE UNCHANGED vars
    BY Zenon, <2>11 DEF vars
  <2> QED
    BY Zenon, <2>1, <2>2, <2>3, <2>4, <2>5, <2>6, <2>7, <2>8, <2>9, <2>10, <2>11 DEF ParentStep
<1> HIDE DEF Same
<1>3. Confined' /\ Lowered' /\ Overrides' /\ Sufficient'
  <2> USE <1>0, <1>1 DEF LdcacheInv, At, Early, AfterCaps, AfterRoot, AfterPrivileges, Ended, Same
  <2>1. Confined'
    BY Zenon DEF Confined, Past
  <2>2. Lowered'
    BY Zenon DEF Lowered, AtMost, Strict, Confined
  <2>3. Overrides'
    BY Zenon DEF Overrides, Inherits, Kept, Confined
  <2>4. Sufficient'
    BY Zenon DEF Sufficient
  <2> QED
    BY Zenon, <2>1, <2>2, <2>3, <2>4
<1>4. Explained'
  BY Zenon, <1>0, <1>1, <1>2 DEF LdcacheInv, Explained, Confined, At, Same
<1> QED
  BY Zenon, <1>3, <1>4 DEF LdcacheInv

(* Every step keeps the invariant. *)
LEMMA InvStep == LdcacheInv /\ [LdcacheNext]_vars => LdcacheInv'
<1> SUFFICES ASSUME LdcacheInv, [LdcacheNext]_vars PROVE LdcacheInv'
  OBVIOUS
<1>1. LdcacheTypeOK'
  BY Zenon, TypeStep DEF LdcacheInv
<1> QED
  BY Zenon, <1>1, SetupStep, ExecveStep, OtherStep DEF LdcacheNext, ChildSetup

(* The invariant holds in every state, from any caller. *)
THEOREM Invariance == LdcacheSpec => []LdcacheInv
  BY InitInv, InvStep, PTL DEF LdcacheSpec

(* Whatever the credentials of the caller and the owner of the root        *)
(* filesystem, ldconfig runs only under every confinement (nvc_ldcache.c). *)
THEOREM Confinement == LdcacheSpec => []ExecIsConfined
<1>1. LdcacheInv => ExecIsConfined
  BY Zenon DEF LdcacheInv, LdcacheTypeOK, Jail, Confined, Past, ExecIsConfined
<1> QED
  BY <1>1, Invariance, PTL

(* ldconfig has no capability but DAC_OVERRIDE, and the host's has it when *)
(* the caller can give it.                                                 *)
THEOREM CapabilitiesOfLdconfig == LdcacheSpec => []ExecCapabilities
<1>1. LdcacheInv => ExecCapabilities
  BY Zenon DEF LdcacheInv, Lowered, Overrides, Kept, AtMost, ExecCapabilities
<1> QED
  BY <1>1, Invariance, PTL

(* No step of the child is denied for want of a capability when the call   *)
(* is made in the ldcache stage of the command line.                       *)
THEOREM StageSuffices == LdcacheSpec => []StageIsSufficient
<1>1. LdcacheInv => StageIsSufficient
  BY Zenon DEF LdcacheInv, Sufficient, StageIsSufficient
<1> QED
  BY <1>1, Invariance, PTL

(* Success of nvc_ldcache_update has one of its two explanations.          *)
THEOREM SuccessExplained == LdcacheSpec => []SuccessIsExplained
<1>1. LdcacheInv => SuccessIsExplained
  BY Zenon DEF LdcacheInv, Explained, SuccessIsExplained
<1> QED
  BY <1>1, Invariance, PTL
=============================================================================
