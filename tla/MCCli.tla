------------------------------- MODULE MCCli --------------------------------
(***************************************************************************)
(* The command line for TLC: a behaviour is that of the commands, or of    *)
(* the evaluation of one requirement.                                      *)
(***************************************************************************)
EXTENDS Commands, Dsl

Tokens ==
  {[kind |-> k, gpu |-> g] : k \in {"uuid", "xuuid", "index"}, g \in Gpus}
    \cup {[kind |-> k, gpu |-> 0] : k \in {"busid", "all", "empty", "other"}}
Lists(n) == UNION {[1 .. m -> Tokens] : m \in 0 .. n}
\* three names that are found, with repetitions
Found == {t \in Tokens : t.kind \in {"xuuid", "index"}}

Native == [release |-> "no", family |-> "other", nvml |-> TRUE]
Tegra == [release |-> "no", family |-> "tegra", nvml |-> FALSE]
MCMachines ==
  {Native, Tegra, [Tegra EXCEPT !.release = "yes"], [Tegra EXCEPT !.nvml = TRUE], [Tegra EXCEPT !.release = "error"]}

Start(cmds, ms, bares, ks, lists, migs, owners, rs, Sets) ==
  {c \in [cmd : cmds, machine : ms, bare : bares, kmods : ks, ngpus : 0 .. MaxGpus, toks : lists, mig : migs,
          owner : owners, reqs : rs,
          holds : {[x \in (Reqs \cup Special) \X (Gpus \cup {None}) |-> x[1] \in Reqs /\ x[2] \in S] : S \in Sets}] :
     c.bare => c.toks = <<>> /\ c.mig = "none"}

Migs == {"none", "all", "other"}

\* all that matters to configure; the two libraries; list and info
MCStarts ==
  Start({"configure"}, {Native}, {FALSE}, BOOLEAN, Lists(2) \cup [1 .. 3 -> Found], Migs, {0, 1000}, {<<"r">>},
        SUBSET (Gpus \cup {None}))
  \cup Start({"configure"}, MCMachines, {FALSE}, {FALSE}, Lists(1), {"none"}, {0},
             {<<>>, <<"base-only", "r">>, <<"r", "r", "r">>, <<"csv-mounts=all", "r", "base-only", "r">>},
             SUBSET (Gpus \cup {None}))
  \cup Start({"list", "info"}, {Native, Tegra}, BOOLEAN, BOOLEAN, Lists(2), Migs, {0}, {<<>>}, {{}})

UuidStarts == Start({"configure"}, {Native}, {FALSE}, {FALSE}, Lists(2), {"none"}, {0}, {<<>>}, {{}})

\* started by root, and by a user without privileges
RootCred == [uid |-> 0, fixup |-> TRUE, nnp |-> FALSE,
             P |-> Caps, E |-> Caps, I |-> {}, A |-> {}, B |-> Caps]
UserCred == [RootCred EXCEPT !.uid = 1000, !.P = {}, !.E = {}]
Root == {RootCred}
RootOrUser == {RootCred, UserCred}

CommandsIdle ==
  /\ conf = <<>> /\ pc = "idle" /\ major = -1 /\ reqs = {} /\ cred = RootCred /\ svc = FALSE /\ tok = 1 /\ gpu = 0
  /\ devices = [gpus |-> <<>>, all |-> FALSE, exceeds |-> FALSE]
  /\ mounted = <<>> /\ updated = FALSE /\ listed = <<>> /\ rv = "EXIT_FAILURE"
-----------------------------------------------------------------------------
Versions == UNION {[1 .. n -> 0 .. 2] : n \in 1 .. 3}
Ops == {"=", "!=", "!", "==", "<", "<=", ">", ">="}
MCData == [cuda |-> <<1, 1>>, driver |-> <<1, 0, 0>>, arch |-> NULL, brand |-> NULL]

\* one expression: every operator against every version
OneExpression ==
  {<< <<[rule |-> r, op |-> o, val |-> v]>> >> :
     r \in {"cuda", "driver", "arch"}, o \in Ops, v \in Versions \cup {Text, <<>>}}

True  == [rule |-> "cuda", op |-> ">=", val |-> <<1>>]
False == [rule |-> "driver", op |-> ">", val |-> <<1>>]
Bad   == [rule |-> "other", op |-> "=", val |-> <<1>>]

\* up to three groups of up to two expressions; one empty expression is the
\* empty group
Groups == UNION {[1 .. n -> {True, False, Bad, Empty}] : n \in 0 .. 2} \ {<<Empty>>}
MCPredicates == OneExpression \cup UNION {[1 .. n -> Groups] : n \in 0 .. 3}

DslIdle == predicate = <<>> /\ group = 1 /\ expr = 1 /\ ret = 1 /\ verdict = 0
-----------------------------------------------------------------------------
MCInit == \/ CommandsInit /\ DslIdle
          \/ CommandsIdle /\ DslInit

MCNext == \/ CommandsNext /\ UNCHANGED dslvars
          \/ DslNext /\ UNCHANGED vars

MCSpec == MCInit /\ [][MCNext]_<<vars, dslvars>>
=============================================================================
