------------------------------ MODULE Service ------------------------------
(***************************************************************************)
(* What the RPC layer promises the rest of the library about a service,    *)
(* without forks, sockets, signals or timeouts: an initialized context     *)
(* stands for one process, which is nobody else's, never changes and never *)
(* comes back once it is gone; the context is given up only after the      *)
(* process is gone.                                                        *)
(***************************************************************************)
CONSTANTS
  Services,    \* the RPC programs
  Processes    \* what can run them

VARIABLES
  alive,       \* the process that uses the services is there
  handle       \* per service: "down", "up" or "gone", and the process meant

servicevars == <<alive, handle>>

(* The process of a handle that is down is of no concern. *)
Down == [life |-> "down", proc |-> {}]
To(l, p) == [life |-> l, proc |-> {p}]

ServiceInit ==
  /\ alive = TRUE
  /\ handle = [s \in Services |-> Down]

(* An initialization that succeeded.  The process may have died since it   *)
(* answered, but no other service is known by it.                          *)
Start(s) ==
  /\ alive
  /\ handle[s] = Down
  /\ \E p \in Processes, l \in {"up", "gone"} :
       /\ \A t \in Services : handle[t].proc # {p}
       /\ handle' = [handle EXCEPT ![s] = To(l, p)]
  /\ UNCHANGED alive

(* The process of s ends, for whatever reason. *)
Die(s) ==
  /\ alive
  /\ \E p \in Processes :
       /\ handle[s] = To("up", p)
       /\ handle' = [handle EXCEPT ![s] = To("gone", p)]
  /\ UNCHANGED alive

(* A shutdown that succeeded. *)
Stop(s) ==
  /\ alive
  /\ handle[s].life = "gone"
  /\ handle' = [handle EXCEPT ![s] = Down]
  /\ UNCHANGED alive

(* The user of the services dies, and its handles with it. *)
UserDies ==
  /\ alive
  /\ alive' = FALSE
  /\ handle' = [s \in Services |-> Down]

ServiceNext ==
  \/ \E s \in Services : Start(s) \/ Die(s) \/ Stop(s)
  \/ UserDies

ServiceSpec == ServiceInit /\ [][ServiceNext]_servicevars
=============================================================================
