----------------------------- MODULE Collector -----------------------------
(***************************************************************************)
(* Garbage collection of a store (src/codifide/store/gc.py): gc reads      *)
(* ROOTS, then takes the LOCK, lists the store, walks the imports from the *)
(* roots, deletes what the walk did not reach, logs it and releases the    *)
(* LOCK.  A dry run stops before the deletions.                            *)
(*                                                                         *)
(* Only collectors take the LOCK and only collectors delete, so one visit  *)
(* of the walk (has, then get) is one step: the file it looks at can only  *)
(* appear or be damaged in between, and reads as the later moment does.    *)
(* The frontier, a stack in the code, is a set: any order of visits is     *)
(* allowed, and so is any order of deletions (the code sorts by hash).     *)
(* The local variables of gc from the lock on exist once, for the process  *)
(* that holds LOCK: StoreSystem shows that no other process uses them.     *)
(***************************************************************************)
EXTENDS RootsFile

NoProc == "nobody"
ASSUME NoProcAssumption == NoProc \notin Procs

VARIABLES
    lock,          \* the process that holds LOCK
    log,           \* the identities GC.LOG names
    execute,       \* execute[p]: the argument of the call of gc p is in
    gcRoots,       \* gcRoots[p]: the roots that call has read
    listed,        \* all_identities of the run that holds LOCK
    reachable,     \* what its walk has visited
    frontier,      \* what its walk has still to visit
    unreachable,   \* what it has still to delete
    deleted,       \* what it will report and log
    intact,        \* history: the objects readable since LOCK was taken
    presentAtLock, \* history: the objects in the store when it was taken
    rootsAtWalk,   \* history: ROOTS when the walk began
    gone           \* history: the files removed since, each with what it held

callVars == <<execute, gcRoots>>
walkVars == <<listed, reachable, frontier, unreachable, deleted>>
histVars == <<intact, presentAtLock, rootsAtWalk, gone>>
gcVars   == <<lock, log, callVars, walkVars, histVars>>

\* The locations at which a process holds LOCK.
Locked == {"gcScan", "gcWalk", "gcSweep", "gcUnlock"}

CollectorTypeOK ==
    /\ lock \in Procs \union {NoProc}
    /\ execute \in [Procs -> BOOLEAN]
    /\ gcRoots \in [Procs -> SUBSET Identities]
    /\ \A s \in {log, listed, reachable, frontier, unreachable, deleted,
                 intact, presentAtLock, rootsAtWalk} : s \subseteq Identities
    /\ gone \subseteq Identities \X Contents
    /\ \A p \in Procs : pc[p] \notin Locked \union {"gcLock"} => ~execute[p] /\ gcRoots[p] = {}

CollectorInit ==
    /\ lock    = NoProc
    /\ log     = {}
    /\ execute = [p \in Procs |-> FALSE]
    /\ gcRoots = [p \in Procs |-> {}]
    /\ listed = {} /\ reachable = {} /\ frontier = {} /\ unreachable = {} /\ deleted = {}
    /\ intact = {} /\ presentAtLock = {} /\ rootsAtWalk = {} /\ gone = {}

\* The locals of the call go out of scope.
ForgetCall(p) ==
    /\ execute' = [execute EXCEPT ![p] = FALSE]
    /\ gcRoots' = [gcRoots EXCEPT ![p] = {}]

\* The lock is released, with the end of the with block or of the process.
Unlock ==
    /\ lock' = NoProc
    /\ listed' = {} /\ reachable' = {} /\ frontier' = {}
    /\ unreachable' = {} /\ deleted' = {}
    /\ intact' = {} /\ presentAtLock' = {} /\ rootsAtWalk' = {} /\ gone' = {}

-----------------------------------------------------------------------------
\* gc(execute = TRUE) with nothing in ROOTS raises before the lock is asked for.
GcRefused(p) ==
    /\ MayCall(p, "gc")
    /\ roots = {}
    /\ Return(p, "GCError")
    /\ UNCHANGED gcVars

\* Bug: the footgun guard is gone.
MayCollectAlways(x) == TRUE

\* The footgun guard: a run that deletes needs a root.
MayCollect(x) == x => roots # {}

GcReadRoots(p, x) ==
    /\ MayCall(p, IF x THEN "gc" ELSE "dryRun")
    /\ MayCollect(x)
    /\ execute' = [execute EXCEPT ![p] = x]
    /\ gcRoots' = [gcRoots EXCEPT ![p] = roots]
    /\ Enter(p, NoId, "gcLock")
    /\ UNCHANGED <<lock, log, walkVars, histVars>>

\* Bug: flock is not asked for.
LockIgnored == TRUE

LockFree == lock = NoProc

\* flock grants LOCK; the scan of the shard directories begins.
GcAcquire(p) ==
    /\ LockFree
    /\ Advance(p, "gcLock", "gcScan")
    /\ lock'   = p
    /\ listed' = Present
    /\ intact' = Whole
    /\ presentAtLock' = Present
    /\ UNCHANGED <<log, callVars, reachable, frontier, unreachable, deleted, rootsAtWalk, gone>>

\* The scan ends: what was there all along is listed, what appeared while it
\* went from shard to shard may be.
GcScan(p) ==
    /\ Advance(p, "gcScan", "gcWalk")
    /\ \E extra \in SUBSET (Present \ listed) : listed' = listed \union extra
    /\ frontier'    = gcRoots[p]
    /\ rootsAtWalk' = roots
    /\ UNCHANGED <<lock, log, callVars, reachable, unreachable, deleted,
                   intact, presentAtLock, gone>>

\* Bug: only the roots themselves are kept.
ImportsIgnored(i) == {}

\* A missing or unreadable object is reachable; its imports are not looked at.
ImportsFound(i) == IF file[i] = "whole" THEN Imports[i] ELSE {}

\* Bug: what was already seen goes back on the frontier.
VisitAgain(i) ==
    /\ reachable' = reachable \union {i}
    /\ frontier'  = frontier \union ImportsFound(i)

Visit(i) ==
    /\ reachable' = reachable \union {i}
    /\ frontier'  = (frontier \union ImportsFound(i)) \ reachable'

GcVisit(p) ==
    /\ pc[p] = "gcWalk"
    /\ \E i \in frontier : Visit(i)
    /\ UNCHANGED <<lock, log, callVars, listed, unreachable, deleted, histVars, procVars>>

\* The walk is over; a dry run reports what it would delete.
GcClose(p) ==
    /\ frontier = {}
    /\ IF execute[p]
         THEN /\ Advance(p, "gcWalk", "gcSweep")
              /\ unreachable' = listed \ reachable
              /\ UNCHANGED deleted
         ELSE /\ Advance(p, "gcWalk", "gcUnlock")
              /\ deleted' = listed \ reachable
              /\ UNCHANGED unreachable
    /\ UNCHANGED <<lock, log, callVars, listed, reachable, frontier, histVars>>

\* What unlink frees: a file of length zero frees nothing and is not reported.
Reported(i) == file[i] \notin {NoFile, "empty"}

GcDelete(p) ==
    /\ pc[p] = "gcSweep"
    /\ \E i \in unreachable :
          /\ unreachable' = unreachable \ {i}
          /\ file'    = [file EXCEPT ![i] = NoFile]
          /\ deleted' = deleted \union {j \in {i} : Reported(j)}
          /\ intact'  = intact \ {i}
          /\ gone'    = gone \union {<<j, file[j]>> : j \in {i} \intersect Present}
    /\ UNCHANGED <<lock, log, callVars, listed, reachable, frontier,
                   presentAtLock, rootsAtWalk, procVars>>

\* unlink raises: the file stays and is not reported.
GcDeleteFails(p) ==
    /\ "unlinkFails" \in Faults
    /\ pc[p] = "gcSweep"
    /\ \E i \in unreachable : unreachable' = unreachable \ {i}
    /\ UNCHANGED <<lock, log, callVars, listed, reachable, frontier, deleted,
                   histVars, procVars>>

\* Bug: the plan is logged, not what was done.
ToLogPlan == listed \ reachable

ToLog == deleted

\* Bug: the sweep returns after its first deletions.
SweepOverEarly == TRUE

SweepOver == unreachable = {}

\* One append for the whole sweep.
GcAppendLog(p) ==
    /\ SweepOver
    /\ Advance(p, "gcSweep", "gcUnlock")
    /\ log' = log \union ToLog
    /\ UNCHANGED <<lock, callVars, walkVars, histVars>>

\* GC.LOG cannot be opened or written: the error leaves gc, the lock is released.
GcLogFails(p) ==
    /\ "logFails" \in Faults
    /\ pc[p] = "gcSweep"
    /\ SweepOver
    /\ deleted # {}
    /\ Return(p, "OSError")
    /\ ForgetCall(p)
    /\ Unlock
    /\ UNCHANGED log

GcRelease(p) ==
    /\ pc[p] = "gcUnlock"
    /\ Return(p, "report")
    /\ ForgetCall(p)
    /\ Unlock
    /\ UNCHANGED log
=============================================================================
