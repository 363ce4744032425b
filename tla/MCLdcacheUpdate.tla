-------------------------- MODULE MCLdcacheUpdate ---------------------------
(***************************************************************************)
(* Instances of LdcacheUpdate for the model checker: the credentials of    *)
(* the command line in its ldcache stage, and those of a caller without    *)
(* privileges.                                                             *)
(***************************************************************************)
EXTENDS LdcacheUpdate

CliCred == [uid |-> 0, fixup |-> TRUE, nnp |-> FALSE,
            P |-> pcaps, E |-> ecaps["ldcache"], I |-> {}, A |-> {}, B |-> bcaps]

UserCred == [uid |-> 1000, fixup |-> TRUE, nnp |-> FALSE,
             P |-> {}, E |-> {}, I |-> {}, A |-> {}, B |-> bcaps]

\* in a user namespace with an empty bounding set
BareCred == [CliCred EXCEPT !.B = {}, !.uid = 1000]

AnyCaller == {CliCred, UserCred, BareCred}
=============================================================================
