---------------------------- MODULE Capabilities ----------------------------
(***************************************************************************)
(* Credentials of a process and what the perm_ functions of utils.c do to  *)
(* them. An operation is a relation between the credentials before and     *)
(* after; what the kernel permits is part of it.                           *)
(***************************************************************************)
EXTENDS Integers, Sequences, FiniteSets

Caps == {"CHOWN", "DAC_OVERRIDE", "DAC_READ_SEARCH", "FOWNER", "KILL", "MKNOD", "NET_ADMIN",
         "SETGID", "SETPCAP", "SETUID", "SYS_ADMIN", "SYS_CHROOT", "SYS_PTRACE", "SYS_MODULE"}

pcaps == Caps \ {"SYS_MODULE"}

bcaps == {"DAC_OVERRIDE", "SYS_MODULE"}

(* Effective capabilities of each stage of the command line. *)
\* variant: the ldcache stage without SETPCAP
ecaps_NoSetpcap == [ldcache |-> {"KILL", "SETUID", "SETGID", "SYS_CHROOT", "SYS_ADMIN",
                                 "DAC_READ_SEARCH", "SYS_PTRACE"}]

\* variant: the info stage without KILL
ecaps_InfoNoKill ==
  [init      |-> {"KILL", "SETUID", "SETGID", "SYS_CHROOT"},
   kmods     |-> {"KILL", "SETUID", "SETGID", "SYS_CHROOT", "CHOWN", "FOWNER", "MKNOD", "SETPCAP"},
   shutdown  |-> {"KILL"},
   container |-> {"KILL", "DAC_READ_SEARCH", "SYS_PTRACE"},
   info      |-> {},
   mount     |-> {"KILL", "NET_ADMIN", "SETUID", "SETGID", "SYS_CHROOT", "SYS_ADMIN",
                  "DAC_READ_SEARCH", "SYS_PTRACE", "DAC_OVERRIDE"},
   ldcache   |-> {"KILL", "SETUID", "SETGID", "SYS_CHROOT", "SYS_ADMIN", "DAC_READ_SEARCH",
                  "SYS_PTRACE", "SETPCAP"}]

ecaps ==
  [init      |-> {"KILL", "SETUID", "SETGID", "SYS_CHROOT"},
   kmods     |-> {"KILL", "SETUID", "SETGID", "SYS_CHROOT", "CHOWN", "FOWNER", "MKNOD", "SETPCAP"},
   shutdown  |-> {"KILL"},
   container |-> {"KILL", "DAC_READ_SEARCH", "SYS_PTRACE"},
   info      |-> {"KILL"},
   mount     |-> {"KILL", "NET_ADMIN", "SETUID", "SETGID", "SYS_CHROOT", "SYS_ADMIN",
                  "DAC_READ_SEARCH", "SYS_PTRACE", "DAC_OVERRIDE"},
   ldcache   |-> {"KILL", "SETUID", "SETGID", "SYS_CHROOT", "SYS_ADMIN", "DAC_READ_SEARCH",
                  "SYS_PTRACE", "SETPCAP"}]

(* The capabilities that go with the filesystem user ID. *)
FsCaps == {"CHOWN", "DAC_OVERRIDE", "DAC_READ_SEARCH", "FOWNER", "MKNOD"}

Cred == [uid : Nat, fixup : BOOLEAN, nnp : BOOLEAN,
         P : SUBSET Caps, E : SUBSET Caps, I : SUBSET Caps, A : SUBSET Caps, B : SUBSET Caps]

(* perm_set_capabilities, by type. *)
SetPermitted(c, S)   == [c EXCEPT !.P = S, !.E = c.E \cap S, !.A = c.A \cap S]
SetEffective(c, S)   == [c EXCEPT !.E = S]
SetInheritable(c, S) == [c EXCEPT !.I = S, !.A = c.A \cap S]
SetAmbient(c, S)     == [c EXCEPT !.A = S]

MaySetPermitted(c, S) == S \subseteq c.P
MaySetEffective(c, S) == S \subseteq c.P
MaySetAmbient(c, S)   == S \subseteq c.P \cap c.I

MaySetInheritable(c, S) ==
  /\ S \subseteq c.I \cup c.B
  /\ S \subseteq c.I \cup c.P \/ "SETPCAP" \in c.E

(* perm_set_bounds drops everything else that is still in the set. *)
SetBounds(c, S)    == [c EXCEPT !.B = c.B \cap S]
MaySetBounds(c, S) == c.B \subseteq S \/ "SETPCAP" \in c.E

(* file_create takes the filesystem user ID of the owner and returns from  *)
(* it. Leaving user 0 lowers the filesystem capabilities and coming back   *)
(* raises all that are permitted; set_fsugid ends by raising DAC_OVERRIDE. *)
FileCreated(c, uid) ==
  LET dac == c.P \cap {"DAC_OVERRIDE"} IN
    [c EXCEPT !.E = CASE c.uid = 0 /\ uid # 0 -> @ \cup (c.P \cap FsCaps)
                      [] c.uid # 0 /\ uid = 0 -> (@ \ FsCaps) \cup dac
                      [] OTHER -> @ \cup dac]

(* perm_drop_privileges. A change to or from user 0 changes the            *)
(* capabilities unless SECBIT_NO_SETUID_FIXUP is set.                      *)
DropPrivileges(c, uid) ==
  LET leaves == c.fixup /\ c.uid = 0 /\ uid # 0
      enters == c.fixup /\ c.uid # 0 /\ uid = 0 IN
    [c EXCEPT !.uid = uid, !.nnp = TRUE,
              !.P = IF leaves THEN {} ELSE @, !.A = IF leaves THEN {} ELSE @,
              !.E = IF leaves THEN {} ELSE IF enters THEN c.P ELSE @]

(* What changing the user, and the group with it, and the supplementary    *)
(* groups takes.                                                           *)
ChangeUserNeeds(c, uid, groups) ==
  (IF c.uid # uid THEN {"SETUID", "SETGID"} ELSE {}) \cup (IF groups THEN {"SETGID"} ELSE {})

(* execve of a file without capabilities. *)
Executed(c) ==
  LET new == c.A \cup (IF c.uid = 0 THEN c.I \cup c.B ELSE {}) IN
    [c EXCEPT !.P = new, !.E = new]
=============================================================================
