---------------------------- MODULE StoreSystem ----------------------------
(***************************************************************************)
(* The whole store: processes that put, read, edit ROOTS and collect, on   *)
(* one directory, with the crash of a process and damage from outside.     *)
(***************************************************************************)
EXTENDS Collector

vars == <<storeVars, procVars, rootsVars, gcVars>>

Init == SymbolStoreInit /\ RootsInit /\ CollectorInit

\* A process that is idle enters a call (or makes a call of one step).
Begin(p) ==
    \/ /\ \E i \in Identities :
             \/ WriteRefused(p, i) \/ PutPresent(p, i) \/ PutBegin(p, i)
             \/ ReadMissing(p, i) \/ ReadBegin(p, i)
       /\ UNCHANGED <<rootsVars, gcVars>>
    \/ /\ \E i \in Identities :
             \/ AddRootPresent(p, i) \/ AddRootRead(p, i)
             \/ RemoveRootAbsent(p, i) \/ RemoveRootRead(p, i)
       /\ UNCHANGED <<storeVars, gcVars>>
    \/ /\ GcRefused(p) \/ \E x \in BOOLEAN : GcReadRoots(p, x)
       /\ UNCHANGED <<storeVars, rootsVars>>

\* A process that is inside a call goes on with it.
Continue(p) ==
    \/ /\ PutWrite(p) \/ PutReplace(p) \/ PutFails(p) \/ ReadReopen(p) \/ ReadBytes(p)
       /\ UNCHANGED <<rootsVars, gcVars>>
    \/ /\ TruncateRoots(p) \/ WriteRoots(p)
       /\ UNCHANGED <<storeVars, gcVars>>
    \/ /\ \/ GcAcquire(p) \/ GcScan(p) \/ GcVisit(p) \/ GcClose(p)
          \/ GcDeleteFails(p) \/ GcAppendLog(p) \/ GcLogFails(p) \/ GcRelease(p)
       /\ UNCHANGED <<storeVars, rootsVars>>
    \/ /\ GcDelete(p)
       /\ UNCHANGED <<temp, rootsVars>>

\* The process dies inside a call and comes back with nothing: its temporary
\* file stays, the kernel drops its lock.
Crash(p) ==
    /\ "crash" \in Faults
    /\ pc[p] # "idle"
    /\ Return(p, "none")
    /\ temp'     = [temp EXCEPT ![p] = NoFile]
    /\ newRoots' = [newRoots EXCEPT ![p] = {}]
    /\ ForgetCall(p)
    /\ IF lock = p THEN Unlock ELSE UNCHANGED <<lock, walkVars, histVars>>
    /\ UNCHANGED <<file, roots, acked, log>>

DamageFile(i) ==
    /\ Damage(i)
    /\ intact' = intact \ {i}
    /\ UNCHANGED <<rootsVars, lock, log, callVars, walkVars, presentAtLock, rootsAtWalk, gone>>

Next ==
    \/ \E p \in Procs : Begin(p) \/ Continue(p) \/ Crash(p)
    \/ \E i \in Identities : DamageFile(i)

Spec == Init /\ [][Next]_vars

\* The operating system schedules every process that is inside a call.
Fairness == \A p \in Procs : WF_vars(Continue(p))

FairSpec == Spec /\ Fairness

-----------------------------------------------------------------------------
(***************************************************************************)
(* Properties.                                                             *)
(***************************************************************************)

TypeOK == SymbolStoreTypeOK /\ RootsTypeOK /\ CollectorTypeOK

\* The bytes at an object path are never half written and never those of a
\* caller that named them falsely, whichever processes die or race while writing.
OnlyWholeObjects == \A i \in Identities : file[i] \notin {"wrong", "partial"}

\* The part of gc that lists, walks, deletes and logs runs in the process that
\* holds LOCK, and in no other; nobody else holds it.
OneCollector == \A p \in Procs : pc[p] \in Locked <=> lock = p

\* What a collection is about to delete, or has deleted, or reports as garbage.
Garbage == unreachable \union deleted

\* Nothing that the roots a run has read reach, through objects readable since
\* the run took the lock, is on its list of garbage: whatever is put, damaged
\* or edited while it walks.
SweepSparesReachable ==
    \A p \in Procs :
        pc[p] \in {"gcSweep", "gcUnlock"} =>
            Garbage \intersect Closure(gcRoots[p], intact) = {}

\* A file leaves the store only by the sweep of an executing collection that
\* has read at least one root, and only if its roots do not reach it.
DeletionsAuthorised ==
    [][\A i \in Present \ Present' :
          \E p \in Procs :
             /\ lock = p
             /\ execute[p] /\ gcRoots[p] # {}
             /\ i \notin Closure(gcRoots[p], intact)]_vars

\* The objects the running sweep has removed, those of length zero excepted.
Removed == {i \in Identities : \E c \in Contents \ {"empty"} : <<i, c>> \in gone}

\* A sweep that goes through names in GC.LOG exactly what it removed, those of
\* length zero excepted, and nothing else is ever written there.  A run that has
\* not written its log never returns a report: it died, or the append failed and
\* gc raises.  docs/STORE.md promises more, a line for every deletion: what is
\* excepted here is what the code does not keep of that.
LogMatchesSweep ==
    [][IF \E p \in Procs : pc[p] = "gcSweep" /\ pc'[p] = "gcUnlock"
         THEN log' = log \union Removed
         ELSE /\ log' = log
              /\ \A p \in Procs : pc[p] = "gcSweep" /\ pc'[p] = "idle" => ret'[p] # "report"]_vars

\* A sweep that comes to its end has removed everything that was in the store
\* when it took the lock and that its roots do not reach by any import table.
GarbageRemoved ==
    \A p \in Procs :
        pc[p] = "gcUnlock" /\ execute[p] =>
            \A i \in presentAtLock \ Closure(gcRoots[p], Identities) :
                \E c \in Contents : <<i, c>> \in gone

\* The store keeps the promise of StoreContract: its files are the objects, and
\* a collection is authorised from the moment LOCK is taken for a run that deletes.
Collecting == lock # NoProc /\ execute[lock]

Contract == INSTANCE StoreContract WITH
    objects <- file,
    live    <- IF Collecting THEN gcRoots[lock] ELSE {},
    intact  <- IF Collecting THEN intact ELSE {}

KeepsContract == Contract!Spec

\* A call that is not waiting for LOCK returns (or its process dies): the walk
\* over the imports ends, the sweep ends, and LOCK is free again.
CallsReturn ==
    \A p \in Procs : pc[p] \notin {"idle", "gcLock"} ~> pc[p] = "idle"

-----------------------------------------------------------------------------
(***************************************************************************)
(* Properties of ROOTS.                                                    *)
(***************************************************************************)

\* When nobody is editing ROOTS, it lists every root whose add_root returned
\* and was not undone by a remove_root.
AckedRootsKept == (\A p \in Procs : ~EditingRoots(p)) => acked \subseteq roots

\* A collection that may delete starts from every root acknowledged before it:
\* a reader that meets ROOTS between its truncation and its rewriting sees no
\* root at all and refuses, it never sees some of them.
CollectorsSeeEveryRoot ==
    [][\A p \in Procs :
          pc[p] = "idle" /\ pc'[p] = "gcLock" /\ execute'[p] =>
              acked \subseteq gcRoots'[p]]_vars

\* gc.py, sound-deletion contract (b): what gc deletes is not reachable from any
\* root when the closure is computed.
RootsOfTheMomentSpared ==
    \A p \in Procs :
        pc[p] = "gcSweep" =>
            unreachable \intersect Closure(rootsAtWalk, intact) = {}
=============================================================================
