--------------------------- MODULE Reachability ----------------------------
(***************************************************************************)
(* Reachability through imports, defined without a walk: an identity is    *)
(* reachable from R through the objects of G when it belongs to every set  *)
(* that contains R and, with an object of G, everything that object        *)
(* imports.  The walk of transitive_closure is compared with this.         *)
(***************************************************************************)
CONSTANTS
    Identities, \* the content identities in play
    Imports     \* Imports[i]: the targets in the imports table of object i

ASSUME ImportsAssumption == Imports \in [Identities -> SUBSET Identities]

ClosedUnder(S, R, G) ==
    /\ R \subseteq S
    /\ \A j \in S \intersect G : Imports[j] \subseteq S

Closure(R, G) ==
    {i \in Identities : \A S \in SUBSET Identities : ClosedUnder(S, R, G) => i \in S}
=============================================================================
