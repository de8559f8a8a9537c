------------------------------ MODULE Catalog ------------------------------
(***************************************************************************)
(* What registration promises the backend: entities appear one at a time,  *)
(* each when everything its compilation refers to is there already, and    *)
(* none ever goes away.  A launch plan becomes active when it is there.    *)
(***************************************************************************)

VARIABLES
    requires,       \* the ids that each id refers to
    registered,     \* the ids that are there
    active          \* the launch plans that are active

vars == <<requires, registered, active>>

Init ==
    /\ registered = {}
    /\ active = {}

(* An id is registered after what it refers to.                            *)
Register(id) ==
    /\ requires[id] \subseteq registered
    /\ registered' = registered \cup {id}
    /\ UNCHANGED <<requires, active>>

Activate(id) ==
    /\ id \in registered
    /\ active' = active \cup {id}
    /\ UNCHANGED <<requires, registered>>

Next == \E id \in DOMAIN requires : Register(id) \/ Activate(id)

Spec == Init /\ [][Next]_vars
=============================================================================
