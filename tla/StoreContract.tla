--------------------------- MODULE StoreContract ---------------------------
(***************************************************************************)
(* What a store promises its users, whatever its files and processes: an   *)
(* object changes because whole bytes are published under its identity,    *)
(* because somebody outside damages it, or because an authorised           *)
(* collection removes it; a collection is authorised by a non-empty set of *)
(* roots, one at a time, and spares everything those roots reach through   *)
(* the objects that have been readable since it began.                     *)
(***************************************************************************)
EXTENDS Reachability

VARIABLES
    objects, \* objects[i]: "absent", "whole", "damaged" or "empty"
    live,    \* the roots the running collection works with; {} when none runs
    intact   \* the objects readable since it began

vars == <<objects, live, intact>>

Init ==
    /\ objects \in [Identities -> {"whole", "absent"}]
    /\ live   = {}
    /\ intact = {}

Publish(i) ==
    /\ objects' = [objects EXCEPT ![i] = "whole"]
    /\ UNCHANGED <<live, intact>>

Damage(i) ==
    /\ objects[i] # "absent"
    /\ \E c \in {"damaged", "empty"} : objects' = [objects EXCEPT ![i] = c]
    /\ intact' = intact \ {i}
    /\ UNCHANGED live

Authorise(R) ==
    /\ live = {}
    /\ R # {}
    /\ live'   = R
    /\ intact' = {i \in Identities : objects[i] = "whole"}
    /\ UNCHANGED objects

Collect(i) ==
    /\ live # {}
    /\ i \notin Closure(live, intact)
    /\ objects' = [objects EXCEPT ![i] = "absent"]
    /\ intact'  = intact \ {i}
    /\ UNCHANGED live

Finish ==
    /\ live # {}
    /\ live'   = {}
    /\ intact' = {}
    /\ UNCHANGED objects

Next ==
    \/ \E i \in Identities : Publish(i) \/ Damage(i) \/ Collect(i)
    \/ \E R \in SUBSET Identities : Authorise(R)
    \/ Finish

Spec == Init /\ [][Next]_vars
=============================================================================
