----------------------------- MODULE RootsFile -----------------------------
(***************************************************************************)
(* The ROOTS file of a store and its two editors, add_root and             *)
(* remove_root: read the file, compute the new list, write it back with    *)
(* write_text, which truncates the file and then writes it.  No lock is    *)
(* taken.  A list of roots is reduced to the set of identities on it, and  *)
(* a missing file is an empty one, as read_roots has it; the file is short *)
(* enough to be written by one system call.                                *)
(***************************************************************************)
EXTENDS SymbolStore

VARIABLES
    roots,    \* the identities ROOTS lists
    newRoots, \* newRoots[p]: the list process p is about to write
    acked     \* history: identities whose last completed edit was an add_root

rootsVars == <<roots, newRoots, acked>>

EditingRoots(p) == pc[p] \in {"truncateRoots", "writeRoots"}

RootsTypeOK ==
    /\ roots    \subseteq Identities
    /\ newRoots \in [Procs -> SUBSET Identities]
    /\ acked    \subseteq Identities
    /\ \A p \in Procs : ~EditingRoots(p) => newRoots[p] = {}

\* ROOTS may already list any identities, each added by an earlier call.
RootsInit ==
    /\ roots    \in SUBSET Identities
    /\ newRoots = [p \in Procs |-> {}]
    /\ acked    = roots

\* The root is already declared: nothing is written.
AddRootPresent(p, i) ==
    /\ MayCall(p, "addRoot")
    /\ i \in roots
    /\ acked' = acked \union {i}
    /\ Return(p, "done")
    /\ UNCHANGED <<roots, newRoots>>

\* Bug: the new root replaces the list instead of joining it.
AddRootForgets(p, i) ==
    /\ MayCall(p, "addRoot")
    /\ i \notin roots
    /\ newRoots' = [newRoots EXCEPT ![p] = {i}]
    /\ Enter(p, i, "truncateRoots")
    /\ UNCHANGED <<roots, acked>>

AddRootRead(p, i) ==
    /\ MayCall(p, "addRoot")
    /\ i \notin roots
    /\ newRoots' = [newRoots EXCEPT ![p] = roots \union {i}]
    /\ Enter(p, i, "truncateRoots")
    /\ UNCHANGED <<roots, acked>>

RemoveRootAbsent(p, i) ==
    /\ MayCall(p, "removeRoot")
    /\ i \notin roots
    /\ acked' = acked \ {i}
    /\ Return(p, "done")
    /\ UNCHANGED <<roots, newRoots>>

RemoveRootRead(p, i) ==
    /\ MayCall(p, "removeRoot")
    /\ i \in roots
    /\ newRoots' = [newRoots EXCEPT ![p] = roots \ {i}]
    /\ Enter(p, i, "truncateRoots")
    /\ UNCHANGED <<roots, acked>>

\* write_text opens the file for writing: it is empty from here on.
TruncateRoots(p) ==
    /\ Advance(p, "truncateRoots", "writeRoots")
    /\ roots' = {}
    /\ UNCHANGED <<newRoots, acked>>

\* The new list is written and the call returns.
WriteRoots(p) ==
    /\ pc[p] = "writeRoots"
    /\ roots' = newRoots[p]
    /\ acked' = IF arg[p] \in newRoots[p]
                  THEN acked \union {arg[p]}
                  ELSE acked \ {arg[p]}
    /\ newRoots' = [newRoots EXCEPT ![p] = {}]
    /\ Return(p, "done")
=============================================================================
