------------------------- MODULE StoreSystemProofs -------------------------
(***************************************************************************)
(* Proofs about the store system, for any processes, identities, imports,  *)
(* calls and faults.                                                       *)
(***************************************************************************)
EXTENDS StoreSystem, TLAPS

-----------------------------------------------------------------------------
(***************************************************************************)
(* Type correctness, component by component.                               *)
(***************************************************************************)

\* The object files and the calls on them stay well formed under every step.
LEMMA SymbolStoreTypeStep ==
    ASSUME SymbolStoreTypeOK, [Next]_vars
    PROVE  SymbolStoreTypeOK'
<1> USE NoIdAssumption
      DEF SymbolStoreTypeOK, Contents, NoFile, NoId, Locations, ObjectLocations, Results,
          Return, Enter, Advance, storeVars, procVars
<1>1. ASSUME NEW p \in Procs, Begin(p)
      PROVE  SymbolStoreTypeOK'
  BY <1>1 DEF Begin, WriteRefused, PutPresent, PutBegin, ReadMissing, ReadBegin,
              AddRootPresent, AddRootRead, RemoveRootAbsent, RemoveRootRead,
              GcRefused, GcReadRoots, MayCall
<1>2. ASSUME NEW p \in Procs, Continue(p)
      PROVE  SymbolStoreTypeOK'
  <2>1. CASE PutWrite(p) \/ PutReplace(p) \/ PutFails(p)
    BY <2>1 DEF PutWrite, PutReplace, PutFails
  <2>2. CASE ReadReopen(p) \/ ReadBytes(p)
    BY <2>2 DEF ReadReopen, ReadBytes, ReadOutcome
  <2>3. CASE (TruncateRoots(p) \/ WriteRoots(p)) /\ UNCHANGED storeVars
    BY <2>3 DEF TruncateRoots, WriteRoots
  <2>4. CASE GcDelete(p) /\ UNCHANGED temp
    BY <2>4 DEF GcDelete
  <2>5. CASE UNCHANGED storeVars /\ (GcAcquire(p) \/ GcScan(p) \/ GcVisit(p) \/ GcClose(p)
               \/ GcDeleteFails(p) \/ GcAppendLog(p) \/ GcLogFails(p) \/ GcRelease(p))
    BY <2>5 DEF GcAcquire, GcScan, GcVisit, GcClose, GcDeleteFails,
                GcAppendLog, GcLogFails, GcRelease
  <2>6. QED
    BY <1>2, <2>1, <2>2, <2>3, <2>4, <2>5 DEF Continue
<1>3. ASSUME NEW p \in Procs, Crash(p)
      PROVE  SymbolStoreTypeOK'
  BY <1>3 DEF Crash
<1>4. ASSUME NEW i \in Identities, DamageFile(i)
      PROVE  SymbolStoreTypeOK'
  BY <1>4 DEF DamageFile, Damage, Present
<1>5. CASE UNCHANGED vars
  BY <1>5 DEF vars
<1>6. QED
  BY <1>1, <1>2, <1>3, <1>4, <1>5 DEF Next

\* ROOTS and the lists about to be written to it hold identities and nothing else.
LEMMA RootsTypeStep ==
    ASSUME SymbolStoreTypeOK, RootsTypeOK, [Next]_vars
    PROVE  RootsTypeOK'
<1> USE NoIdAssumption
    DEF SymbolStoreTypeOK, RootsTypeOK, EditingRoots, NoId, Locations, ObjectLocations,
        Return, Enter, Advance, procVars, rootsVars
<1>1. ASSUME NEW p \in Procs, Begin(p)
      PROVE  RootsTypeOK'
  BY <1>1 DEF Begin, WriteRefused, PutPresent, PutBegin, ReadMissing, ReadBegin,
              AddRootPresent, AddRootRead, RemoveRootAbsent, RemoveRootRead,
              GcRefused, GcReadRoots, MayCall
<1>2. ASSUME NEW p \in Procs, Continue(p)
      PROVE  RootsTypeOK'
  <2>1. CASE (PutWrite(p) \/ PutReplace(p) \/ PutFails(p)) /\ UNCHANGED rootsVars
    BY <2>1 DEF PutWrite, PutReplace, PutFails
  <2>2. CASE (ReadReopen(p) \/ ReadBytes(p)) /\ UNCHANGED rootsVars
    BY <2>2 DEF ReadReopen, ReadBytes
  <2>3. CASE TruncateRoots(p) \/ WriteRoots(p)
    BY <2>3 DEF TruncateRoots, WriteRoots
  <2>4. CASE GcDelete(p) /\ UNCHANGED rootsVars
    BY <2>4 DEF GcDelete
  <2>5. CASE UNCHANGED rootsVars /\ (GcAcquire(p) \/ GcScan(p) \/ GcVisit(p) \/ GcClose(p)
               \/ GcDeleteFails(p) \/ GcAppendLog(p) \/ GcLogFails(p) \/ GcRelease(p))
    BY <2>5 DEF GcAcquire, GcScan, GcVisit, GcClose, GcDeleteFails,
                GcAppendLog, GcLogFails, GcRelease
  <2>6. QED
    BY <1>2, <2>1, <2>2, <2>3, <2>4, <2>5 DEF Continue
<1>3. ASSUME NEW p \in Procs, Crash(p)
      PROVE  RootsTypeOK'
  BY <1>3 DEF Crash
<1>4. ASSUME NEW i \in Identities, DamageFile(i)
      PROVE  RootsTypeOK'
  BY <1>4 DEF DamageFile, Damage
<1>5. CASE UNCHANGED vars
  BY <1>5 DEF vars
<1>6. QED
  BY <1>1, <1>2, <1>3, <1>4, <1>5 DEF Next

-----------------------------------------------------------------------------
(***************************************************************************)
(* Most steps are quiet: they leave the variables of the collector alone,  *)
(* move no process into or out of gc, and spoil no object.  The invariants *)
(* of the collector are disturbed by the other steps only.                 *)
(***************************************************************************)
GcLocations == Locked \union {"gcLock"}

Quiet ==
    /\ UNCHANGED gcVars
    /\ \A q \in Procs : (pc[q] \in GcLocations \/ pc'[q] \in GcLocations) => pc'[q] = pc[q]
    /\ \A i \in Identities : file[i] = "whole" => file'[i] = "whole"

CollectorStep(p) ==
    \/ /\ \/ \E x \in BOOLEAN : GcReadRoots(p, x)
          \/ GcAcquire(p) \/ GcScan(p) \/ GcVisit(p) \/ GcClose(p)
          \/ GcDeleteFails(p) \/ GcAppendLog(p) \/ GcLogFails(p) \/ GcRelease(p)
       /\ UNCHANGED <<storeVars, rootsVars>>
    \/ GcDelete(p) /\ UNCHANGED <<temp, rootsVars>>

LEMMA StepCases ==
    ASSUME SymbolStoreTypeOK, [Next]_vars
    PROVE  \/ Quiet
           \/ \E p \in Procs : CollectorStep(p) \/ Crash(p)
           \/ \E i \in Identities : DamageFile(i)
<1> USE DEF Quiet, GcLocations, Locked, Return, Enter, Advance, storeVars, procVars
<1>0. /\ pc \in [Procs -> Locations]
      /\ file \in [Identities -> Contents \union {NoFile}]
      /\ \A p \in Procs : pc[p] = "replace" <=> temp[p] = "whole"
  BY DEF SymbolStoreTypeOK
<1>1. ASSUME NEW p \in Procs, Begin(p)
      PROVE  Quiet \/ CollectorStep(p)
  <2>1. CASE /\ \E i \in Identities :
                  \/ WriteRefused(p, i) \/ PutPresent(p, i) \/ PutBegin(p, i)
                  \/ ReadMissing(p, i) \/ ReadBegin(p, i)
             /\ UNCHANGED <<rootsVars, gcVars>>
    BY <1>0, <2>1 DEF WriteRefused, PutPresent, PutBegin, ReadMissing, ReadBegin, MayCall
  <2>2. CASE /\ \E i \in Identities :
                  \/ AddRootPresent(p, i) \/ AddRootRead(p, i)
                  \/ RemoveRootAbsent(p, i) \/ RemoveRootRead(p, i)
             /\ UNCHANGED <<storeVars, gcVars>>
    BY <1>0, <2>2 DEF AddRootPresent, AddRootRead, RemoveRootAbsent, RemoveRootRead, MayCall
  <2>3. CASE GcRefused(p) /\ UNCHANGED <<storeVars, rootsVars>>
    BY <1>0, <2>3 DEF GcRefused, MayCall
  <2>4. QED
    BY <1>1, <2>1, <2>2, <2>3 DEF Begin, CollectorStep
<1>2. ASSUME NEW p \in Procs, Continue(p)
      PROVE  Quiet \/ CollectorStep(p)
  <2>1. CASE /\ PutWrite(p) \/ PutReplace(p) \/ PutFails(p) \/ ReadReopen(p) \/ ReadBytes(p)
             /\ UNCHANGED <<rootsVars, gcVars>>
    BY <1>0, <2>1 DEF PutWrite, PutReplace, PutFails, ReadReopen, ReadBytes
  <2>2. CASE (TruncateRoots(p) \/ WriteRoots(p)) /\ UNCHANGED <<storeVars, gcVars>>
    BY <1>0, <2>2 DEF TruncateRoots, WriteRoots
  <2>3. QED
    BY <1>2, <2>1, <2>2 DEF Continue, CollectorStep
<1>3. CASE UNCHANGED vars
  BY <1>3 DEF vars
<1>4. QED
  BY <1>1, <1>2, <1>3 DEF Next

\* The walk of a collection stays inside the identities, whatever the disk holds.
LEMMA CollectorTypeStep ==
    ASSUME SymbolStoreTypeOK, RootsTypeOK, CollectorTypeOK, [Next]_vars
    PROVE  CollectorTypeOK'
<1> USE ImportsAssumption
    DEF CollectorTypeOK, Locked, gcVars, callVars, walkVars, histVars
<1>0. /\ pc \in [Procs -> Locations] /\ roots \subseteq Identities
      /\ file \in [Identities -> Contents \union {NoFile}]
  BY DEF SymbolStoreTypeOK, RootsTypeOK
<1>1. CASE Quiet
  BY <1>1 DEF Quiet, GcLocations
<1>2. ASSUME NEW p \in Procs, CollectorStep(p)
      PROVE  CollectorTypeOK'
  <2>1. CASE \E x \in BOOLEAN : GcReadRoots(p, x)
    BY <1>0, <2>1 DEF GcReadRoots, Enter
  <2>2. CASE GcAcquire(p)
    BY <1>0, <2>2 DEF GcAcquire, Advance, Present, Whole
  <2>3. CASE GcScan(p)
    BY <1>0, <2>3 DEF GcScan, Advance, Present
  <2>4. CASE GcVisit(p)
    BY <1>0, <2>4 DEF GcVisit, Visit, ImportsFound, procVars
  <2>5. CASE GcClose(p)
    BY <1>0, <2>5 DEF GcClose, Advance
  <2>6. CASE GcDelete(p)
    BY <1>0, <2>6 DEF GcDelete, Present, procVars
  <2>7. CASE GcDeleteFails(p)
    BY <1>0, <2>7 DEF GcDeleteFails, procVars
  <2>8. CASE GcAppendLog(p)
    BY <1>0, <2>8 DEF GcAppendLog, ToLog, Advance
  <2>9. CASE GcLogFails(p) \/ GcRelease(p)
    <3>1. /\ pc' = [pc EXCEPT ![p] = "idle"]
          /\ ForgetCall(p) /\ Unlock /\ UNCHANGED log
      BY <2>9 DEF GcLogFails, GcRelease, Return
    <3>2. QED
      BY <1>0, <3>1 DEF ForgetCall, Unlock
  <2>10. QED
    BY <1>2, <2>1, <2>2, <2>3, <2>4, <2>5, <2>6, <2>7, <2>8, <2>9 DEF CollectorStep
<1>3. ASSUME NEW p \in Procs, Crash(p)
      PROVE  CollectorTypeOK'
  BY <1>0, <1>3 DEF Crash, Return, ForgetCall, Unlock
<1>4. ASSUME NEW i \in Identities, DamageFile(i)
      PROVE  CollectorTypeOK'
  BY <1>4 DEF DamageFile, Damage, procVars
<1>5. QED
  BY StepCases, <1>1, <1>2, <1>3, <1>4

\* Every variable holds a value of its kind, temporary files exist only inside
\* a write, and a process outside gc holds none of its local variables.
THEOREM TypeCorrect == Spec => []TypeOK
<1> USE DEF TypeOK
<1>1. Init => TypeOK
  BY NoIdAssumption
  DEF Init, SymbolStoreInit, RootsInit, CollectorInit, SymbolStoreTypeOK, RootsTypeOK,
      CollectorTypeOK, Contents, NoFile, NoId, Locations, ObjectLocations, Results,
      EditingRoots
<1>2. TypeOK /\ [Next]_vars => TypeOK'
  BY SymbolStoreTypeStep, RootsTypeStep, CollectorTypeStep
<1>3. QED
  BY <1>1, <1>2, PTL DEF Spec

-----------------------------------------------------------------------------
(***************************************************************************)
(* What is written and who collects.                                       *)
(***************************************************************************)

\* The steps that touch an object path.
LEMMA FileSteps ==
    ASSUME [Next]_vars
    PROVE  \/ UNCHANGED file
           \/ \E p \in Procs : PutReplace(p) /\ UNCHANGED gcVars
           \/ \E p \in Procs : GcDelete(p)
           \/ \E i \in Identities : DamageFile(i)
<1> USE DEF storeVars
<1>1. ASSUME NEW p \in Procs, Begin(p) \/ Crash(p)
      PROVE  UNCHANGED file
  BY <1>1 DEF Begin, Crash, WriteRefused, PutPresent, PutBegin, ReadMissing, ReadBegin
<1>2. ASSUME NEW p \in Procs, Continue(p)
      PROVE  UNCHANGED file \/ (PutReplace(p) /\ UNCHANGED gcVars) \/ GcDelete(p)
  BY <1>2 DEF Continue, PutWrite, PutFails, ReadReopen, ReadBytes
<1>3. QED
  BY <1>1, <1>2 DEF Next, vars

\* No crash, race or false name makes a half-written or misnamed object visible.
THEOREM ObjectsAreWhole == Spec => []OnlyWholeObjects
<1> USE DEF OnlyWholeObjects
<1>1. Init => OnlyWholeObjects
  BY DEF Init, SymbolStoreInit, NoFile
<1>2. TypeOK /\ OnlyWholeObjects /\ [Next]_vars => OnlyWholeObjects'
  <2> SUFFICES ASSUME TypeOK, OnlyWholeObjects, [Next]_vars
               PROVE  OnlyWholeObjects'
    OBVIOUS
  <2> USE DEF TypeOK, SymbolStoreTypeOK, NoFile
  <2>1. ASSUME NEW p \in Procs, PutReplace(p)
        PROVE  OnlyWholeObjects'
    BY <2>1 DEF PutReplace
  <2>2. ASSUME NEW p \in Procs, GcDelete(p)
        PROVE  OnlyWholeObjects'
    BY <2>2 DEF GcDelete
  <2>3. ASSUME NEW i \in Identities, DamageFile(i)
        PROVE  OnlyWholeObjects'
    BY <2>3 DEF DamageFile, Damage
  <2>4. QED
    BY FileSteps, <2>1, <2>2, <2>3
<1>3. QED
  BY <1>1, <1>2, TypeCorrect, PTL DEF Spec

LEMMA OneCollectorStep ==
    ASSUME TypeOK, OneCollector, [Next]_vars
    PROVE  OneCollector'
<1> USE NoProcAssumption
    DEF OneCollector, Locked, gcVars, Advance, Return, procVars
<1>0. /\ SymbolStoreTypeOK /\ pc \in [Procs -> Locations]
      /\ lock \in Procs \union {NoProc}
  BY DEF TypeOK, SymbolStoreTypeOK, CollectorTypeOK
<1>1. CASE Quiet
  BY <1>1 DEF Quiet, GcLocations
<1>2. ASSUME NEW p \in Procs, CollectorStep(p)
      PROVE  OneCollector'
  <2>1. CASE \E x \in BOOLEAN : GcReadRoots(p, x)
    BY <1>0, <2>1 DEF GcReadRoots, Enter, MayCall
  <2>2. CASE GcAcquire(p)
    BY <1>0, <2>2 DEF GcAcquire, LockFree
  <2>3. CASE GcScan(p) \/ GcVisit(p) \/ GcClose(p)
    BY <1>0, <2>3 DEF GcScan, GcVisit, GcClose
  <2>4. CASE GcDelete(p) \/ GcDeleteFails(p) \/ GcAppendLog(p)
    BY <1>0, <2>4 DEF GcDelete, GcDeleteFails, GcAppendLog
  <2>5. CASE GcLogFails(p) \/ GcRelease(p)
    BY <1>0, <2>5 DEF GcLogFails, GcRelease, Unlock
  <2>6. QED
    BY <1>2, <2>1, <2>2, <2>3, <2>4, <2>5 DEF CollectorStep
<1>3. ASSUME NEW p \in Procs, Crash(p)
      PROVE  OneCollector'
  BY <1>0, <1>3 DEF Crash, Unlock
<1>4. ASSUME NEW i \in Identities, DamageFile(i)
      PROVE  OneCollector'
  BY <1>4 DEF DamageFile, Damage
<1>5. QED
  BY <1>0, StepCases, <1>1, <1>2, <1>3, <1>4

\* The process that lists, walks, deletes and logs is the holder of LOCK.
THEOREM CollectorsExclude == Spec => []OneCollector
<1>1. Init => OneCollector
  BY NoProcAssumption
  DEF Init, SymbolStoreInit, CollectorInit, OneCollector, Locked
<1>2. TypeOK /\ OneCollector /\ [Next]_vars => OneCollector'
  BY OneCollectorStep
<1>3. QED
  BY <1>1, <1>2, TypeCorrect, PTL DEF Spec

-----------------------------------------------------------------------------
(***************************************************************************)
(* The walk and the sweep.  SweepSparesReachable speaks of the closure,    *)
(* which no step computes.  What is inductive is that the walk keeps its   *)
(* visited set and its frontier closed together: when the frontier is      *)
(* empty the visited set is one of the sets the closure is the             *)
(* intersection of.  It must hold although files appear and are damaged    *)
(* while the walk goes on, so it is stated for the objects that have been  *)
(* intact since the lock was taken, of which there are only ever fewer.    *)
(***************************************************************************)

\* A run that deletes has read a root.
CallInv ==
    \A p \in Procs :
        /\ pc[p] \in GcLocations /\ execute[p] => gcRoots[p] # {}
        /\ pc[p] = "gcSweep" => execute[p]

NothingDone == unreachable = {} /\ deleted = {} /\ gone = {}

NotWalked == reachable = {} /\ frontier = {}

WalkInv ==
    /\ intact \subseteq Whole
    /\ lock = NoProc => intact = {} /\ NotWalked /\ NothingDone
    /\ \A p \in Procs : pc[p] = "gcScan" => NotWalked /\ NothingDone
    /\ \A p \in Procs : pc[p] = "gcWalk" =>
          /\ NothingDone
          /\ gcRoots[p] \subseteq reachable \union frontier
          /\ \A j \in reachable \intersect intact : Imports[j] \subseteq reachable \union frontier
    /\ \A p \in Procs : pc[p] \in {"gcSweep", "gcUnlock"} =>
          /\ ClosedUnder(reachable, gcRoots[p], intact)
          /\ Garbage \intersect reachable = {}

LEMMA CallStep ==
    ASSUME TypeOK, CallInv, [Next]_vars
    PROVE  CallInv'
<1> USE DEF CallInv, GcLocations, Locked, gcVars, callVars, Advance, Return, procVars
<1>0. /\ SymbolStoreTypeOK /\ pc \in [Procs -> Locations]
      /\ execute \in [Procs -> BOOLEAN] /\ gcRoots \in [Procs -> SUBSET Identities]
  BY DEF TypeOK, SymbolStoreTypeOK, CollectorTypeOK
<1>1. CASE Quiet
  BY <1>1 DEF Quiet
<1>2. ASSUME NEW p \in Procs, CollectorStep(p)
      PROVE  CallInv'
  <2>1. CASE \E x \in BOOLEAN : GcReadRoots(p, x)
    BY <1>0, <2>1 DEF GcReadRoots, MayCollect, Enter
  <2>2. CASE GcAcquire(p) \/ GcScan(p) \/ GcVisit(p)
    BY <1>0, <2>2 DEF GcAcquire, GcScan, GcVisit
  <2>3. CASE GcClose(p)
    BY <1>0, <2>3 DEF GcClose
  <2>4. CASE GcDelete(p) \/ GcDeleteFails(p) \/ GcAppendLog(p)
    BY <1>0, <2>4 DEF GcDelete, GcDeleteFails, GcAppendLog
  <2>5. CASE GcLogFails(p) \/ GcRelease(p)
    BY <1>0, <2>5 DEF GcLogFails, GcRelease, ForgetCall
  <2>6. QED
    BY <1>2, <2>1, <2>2, <2>3, <2>4, <2>5 DEF CollectorStep
<1>3. ASSUME NEW p \in Procs, Crash(p)
      PROVE  CallInv'
  BY <1>0, <1>3 DEF Crash, ForgetCall
<1>4. ASSUME NEW i \in Identities, DamageFile(i)
      PROVE  CallInv'
  BY <1>4 DEF DamageFile, Damage
<1>5. QED
  BY <1>0, StepCases, <1>1, <1>2, <1>3, <1>4

LEMMA WalkStep ==
    ASSUME TypeOK, OneCollector, WalkInv, [Next]_vars
    PROVE  WalkInv'
<1> USE DEF WalkInv, NothingDone, NotWalked, Garbage
<1>0. /\ SymbolStoreTypeOK /\ pc \in [Procs -> Locations]
      /\ file \in [Identities -> Contents \union {NoFile}]
      /\ gcRoots \in [Procs -> SUBSET Identities]
      /\ intact \subseteq Whole /\ unreachable \subseteq Identities
      /\ NoProc \notin Procs
      /\ OneCollector'
  BY OneCollectorStep, NoProcAssumption DEF TypeOK, SymbolStoreTypeOK, CollectorTypeOK
<1>1. CASE Quiet
  BY <1>0, <1>1
  DEF Quiet, GcLocations, Locked, gcVars, callVars, walkVars, histVars, Whole, ClosedUnder
<1>2. ASSUME NEW p \in Procs, CollectorStep(p)
      PROVE  WalkInv'
  <2>1. CASE (\E x \in BOOLEAN : GcReadRoots(p, x)) /\ UNCHANGED storeVars
    BY <1>0, <2>1 DEF GcReadRoots, Enter, MayCall, walkVars, histVars, storeVars, Whole, ClosedUnder
  <2>2. CASE GcAcquire(p) /\ UNCHANGED storeVars
    BY <1>0, <2>2
    DEF GcAcquire, LockFree, Advance, OneCollector, Locked, callVars, storeVars, Whole
  <2>3. CASE GcScan(p) /\ UNCHANGED storeVars
    BY <1>0, <2>3
    DEF GcScan, Advance, OneCollector, Locked, callVars, storeVars, Whole
  <2>4. CASE GcVisit(p) /\ UNCHANGED storeVars
    <3>1. PICK i \in frontier : Visit(i)
      BY <2>4 DEF GcVisit
    <3>2. \A q \in Procs : pc[q] \in Locked => q = p
      BY <2>4 DEF GcVisit, OneCollector, Locked
    <3>3. /\ reachable \union frontier \subseteq reachable' \union frontier'
          /\ i \in intact => Imports[i] \subseteq reachable' \union frontier'
      BY <1>0, <3>1 DEF Visit, ImportsFound, Whole
    <3>4. /\ gcRoots[p] \subseteq reachable' \union frontier'
          /\ \A j \in reachable' \intersect intact : Imports[j] \subseteq reachable' \union frontier'
      BY <2>4, <3>1, <3>3 DEF Visit, GcVisit
    <3>5. QED
      BY <1>0, <2>4, <3>2, <3>4
      DEF GcVisit, OneCollector, Locked, callVars, histVars, procVars, storeVars, Whole
  <2>5. CASE GcClose(p) /\ UNCHANGED storeVars
    <3>1. \A q \in Procs : pc[q] \in Locked => q = p
      BY <2>5 DEF GcClose, Advance, OneCollector, Locked
    <3>2. ClosedUnder(reachable, gcRoots[p], intact)
      BY <2>5 DEF GcClose, Advance, ClosedUnder
    <3>3. /\ Garbage' \intersect reachable' = {} /\ reachable' = reachable
          /\ gcRoots' = gcRoots /\ intact' = intact /\ lock' = lock /\ lock = p
      BY <2>5 DEF GcClose, Advance, callVars, histVars, OneCollector, Locked
    <3>4. \A q \in Procs : pc'[q] \in Locked =>
             q = p /\ pc'[q] \in {"gcSweep", "gcUnlock"}
      BY <1>0, <2>5, <3>1 DEF GcClose, Advance, Locked
    <3>5. QED
      BY <1>0, <3>2, <3>3, <3>4, <2>5 DEF Locked, Whole, storeVars
  <2>6. CASE GcDelete(p)
    <3>1. \A q \in Procs : pc[q] \in Locked => q = p
      BY <2>6 DEF GcDelete, OneCollector, Locked
    <3>2. PICK i \in unreachable :
             /\ unreachable' = unreachable \ {i}
             /\ file' = [file EXCEPT ![i] = NoFile]
             /\ deleted' = deleted \union {j \in {i} : Reported(j)}
             /\ intact' = intact \ {i}
      BY <2>6 DEF GcDelete
    <3>3. Garbage' \subseteq Garbage /\ intact' \subseteq Whole'
      BY <1>0, <3>2 DEF Whole
    <3>4. ClosedUnder(reachable', gcRoots'[p], intact')
      BY <2>6, <3>2 DEF GcDelete, ClosedUnder, callVars
    <3>5. QED
      BY <1>0, <2>6, <3>1, <3>3, <3>4 DEF GcDelete, OneCollector, Locked, procVars
  <2>7. CASE GcDeleteFails(p) /\ UNCHANGED storeVars
    BY <1>0, <2>7
    DEF GcDeleteFails, callVars, histVars, procVars, storeVars, Whole, OneCollector, Locked, ClosedUnder
  <2>8. CASE GcAppendLog(p) /\ UNCHANGED storeVars
    BY <1>0, <2>8
    DEF GcAppendLog, Advance, callVars, walkVars, histVars, storeVars, Whole, ClosedUnder
  <2>9. CASE (GcLogFails(p) \/ GcRelease(p)) /\ UNCHANGED storeVars
    BY <1>0, <2>9
    DEF GcLogFails, GcRelease, Return, Unlock, ForgetCall, OneCollector, Locked
  <2>10. QED
    BY <1>2, <2>1, <2>2, <2>3, <2>4, <2>5, <2>6, <2>7, <2>8, <2>9 DEF CollectorStep
<1>3. ASSUME NEW p \in Procs, Crash(p)
      PROVE  WalkInv'
  <2>1. CASE lock = p
    BY <1>0, <1>3, <2>1 DEF Crash, Return, Unlock, OneCollector, Locked
  <2>2. CASE lock # p
    BY <1>0, <1>3, <2>2
    DEF Crash, Return, ForgetCall, walkVars, histVars, OneCollector, Locked, Whole, ClosedUnder
  <2>3. QED
    BY <2>1, <2>2
<1>4. ASSUME NEW i \in Identities, DamageFile(i)
      PROVE  WalkInv'
  BY <1>0, <1>4
  DEF DamageFile, Damage, callVars, walkVars, procVars, Whole, ClosedUnder
<1>5. QED
  BY <1>0, StepCases, <1>1, <1>2, <1>3, <1>4

\* Both hold at the start and are kept, so nothing a run's roots reach is garbage.
LEMMA WalkSound == Spec => [](TypeOK /\ OneCollector /\ CallInv /\ WalkInv)
<1>1. Init => CallInv /\ WalkInv
  BY DEF Init, SymbolStoreInit, CollectorInit, CallInv, WalkInv, NotWalked, NothingDone,
         GcLocations, Locked, Whole
<1>2. TypeOK /\ OneCollector /\ CallInv /\ WalkInv /\ [Next]_vars => CallInv' /\ WalkInv'
  BY CallStep, WalkStep
<1>3. QED
  BY <1>1, <1>2, TypeCorrect, CollectorsExclude, PTL DEF Spec

LEMMA SweepSpares ==
    ASSUME TypeOK, WalkInv
    PROVE  SweepSparesReachable
<1> SUFFICES ASSUME NEW p \in Procs, pc[p] \in {"gcSweep", "gcUnlock"}
             PROVE  Garbage \intersect Closure(gcRoots[p], intact) = {}
  BY DEF SweepSparesReachable
<1>1. reachable \in SUBSET Identities
  BY DEF TypeOK, CollectorTypeOK
<1>2. ClosedUnder(reachable, gcRoots[p], intact) /\ Garbage \intersect reachable = {}
  BY DEF WalkInv
<1>3. QED
  BY <1>1, <1>2 DEF Closure

\* What a collection deletes or reports is out of reach of the roots it has read,
\* whatever is put, damaged or edited while it walks.
THEOREM SweepSound == Spec => []SweepSparesReachable
<1>1. TypeOK /\ WalkInv => SweepSparesReachable
  BY SweepSpares
<1>2. QED
  BY <1>1, WalkSound, PTL

\* What the sweep of one process takes from the store.
LEMMA Deletion ==
    ASSUME TypeOK, OneCollector, CallInv, WalkInv, NEW p \in Procs, GcDelete(p)
    PROVE  /\ lock = p /\ execute[p] /\ gcRoots[p] # {}
           /\ \E i \in Identities :
                 /\ i \in unreachable
                 /\ i \notin Closure(gcRoots[p], intact)
                 /\ file'   = [file EXCEPT ![i] = NoFile]
                 /\ intact' = intact \ {i}
<1>1. pc[p] = "gcSweep"
  BY DEF GcDelete
<1>2. lock = p /\ execute[p] /\ gcRoots[p] # {}
  BY <1>1 DEF OneCollector, CallInv, Locked, GcLocations
<1>3. PICK i \in unreachable : file' = [file EXCEPT ![i] = NoFile] /\ intact' = intact \ {i}
  BY DEF GcDelete
<1>4. i \in Identities /\ i \notin Closure(gcRoots[p], intact)
  BY <1>1, <1>3, SweepSpares DEF SweepSparesReachable, Garbage, TypeOK, CollectorTypeOK
<1>5. QED
  BY <1>2, <1>3, <1>4

\* A file leaves the store by an authorised collection or not at all.
THEOREM OnlyAuthorisedDeletions == Spec => DeletionsAuthorised
<1> DEFINE Authorised ==
      \A i \in Present \ Present' :
         \E p \in Procs :
            /\ lock = p
            /\ execute[p] /\ gcRoots[p] # {}
            /\ i \notin Closure(gcRoots[p], intact)
<1>1. TypeOK /\ OneCollector /\ CallInv /\ WalkInv /\ [Next]_vars => Authorised
  <2> SUFFICES ASSUME TypeOK, OneCollector, CallInv, WalkInv, [Next]_vars
               PROVE  Authorised
    OBVIOUS
  <2>0. file \in [Identities -> Contents \union {NoFile}] /\ NoFile \notin Contents
    BY DEF TypeOK, SymbolStoreTypeOK, NoFile, Contents
  <2>1. CASE UNCHANGED file
    BY <2>1 DEF Present
  <2>2. ASSUME NEW p \in Procs, PutReplace(p)
        PROVE  Authorised
    BY <2>0, <2>2 DEF PutReplace, Present, TypeOK, SymbolStoreTypeOK, NoFile
  <2>3. ASSUME NEW p \in Procs, GcDelete(p)
        PROVE  Authorised
    BY <2>0, <2>3, Deletion DEF Present
  <2>4. ASSUME NEW i \in Identities, DamageFile(i)
        PROVE  Authorised
    BY <2>0, <2>4 DEF DamageFile, Damage, Present, NoFile
  <2>5. QED
    BY FileSteps, <2>1, <2>2, <2>3, <2>4
<1>2. QED
  BY <1>1, WalkSound, PTL DEF Spec, DeletionsAuthorised

-----------------------------------------------------------------------------
(***************************************************************************)
(* GC.LOG.                                                                 *)
(***************************************************************************)

\* While a sweep goes on, what it will log is what it has removed.
LogInv == \A p \in Procs : pc[p] = "gcSweep" => deleted = Removed

LEMMA LogStep ==
    ASSUME TypeOK, OneCollector, WalkInv, LogInv, [Next]_vars
    PROVE  LogInv'
<1> USE DEF LogInv, Removed
<1>0. /\ SymbolStoreTypeOK /\ pc \in [Procs -> Locations]
      /\ file \in [Identities -> Contents \union {NoFile}] /\ NoFile \notin Contents
      /\ unreachable \subseteq Identities
  BY DEF TypeOK, SymbolStoreTypeOK, CollectorTypeOK, NoFile, Contents
<1>1. CASE Quiet
  BY <1>1 DEF Quiet, GcLocations, Locked, gcVars, walkVars, histVars
<1>2. ASSUME NEW p \in Procs, CollectorStep(p)
      PROVE  LogInv'
  <2>1. CASE \E x \in BOOLEAN : GcReadRoots(p, x)
    BY <1>0, <2>1 DEF GcReadRoots, Enter, MayCall, walkVars, histVars
  <2>2. CASE GcAcquire(p) \/ GcScan(p) \/ GcVisit(p)
    BY <1>0, <2>2 DEF GcAcquire, GcScan, GcVisit, Advance, histVars, procVars
  <2>3. CASE GcClose(p)
    <3>1. deleted = {} /\ gone = {}
      BY <2>3 DEF GcClose, Advance, WalkInv, NothingDone
    <3>2. \A q \in Procs : pc'[q] = "gcSweep" => UNCHANGED <<deleted, gone>>
      <4>1. \A q \in Procs : pc[q] \in Locked => q = p
        BY <2>3 DEF GcClose, Advance, OneCollector, Locked
      <4>2. QED
        BY <1>0, <2>3, <4>1 DEF GcClose, Advance, Locked, histVars
    <3>3. QED
      BY <3>1, <3>2
  <2>4. CASE GcDelete(p)
    <3>1. PICK i \in unreachable :
             /\ deleted' = deleted \union {j \in {i} : Reported(j)}
             /\ gone'    = gone \union {<<j, file[j]>> : j \in {i} \intersect Present}
      BY <2>4 DEF GcDelete
    <3>2. deleted = Removed /\ UNCHANGED pc
      BY <2>4 DEF GcDelete, procVars
    <3>3. Removed' = Removed \union {j \in {i} : Reported(j)}
      BY <1>0, <3>1 DEF Reported, Present
    <3>4. QED
      BY <3>1, <3>2, <3>3
  <2>5. CASE GcDeleteFails(p) \/ GcAppendLog(p) \/ GcLogFails(p) \/ GcRelease(p)
    <3>1. CASE GcDeleteFails(p)
      BY <3>1 DEF GcDeleteFails, histVars, procVars
    <3>2. CASE GcAppendLog(p)
      BY <1>0, <3>2 DEF GcAppendLog, Advance, walkVars, histVars
    <3>3. CASE GcLogFails(p) \/ GcRelease(p)
      BY <1>0, <3>3 DEF GcLogFails, GcRelease, Return, OneCollector, Locked
    <3>4. QED
      BY <2>5, <3>1, <3>2, <3>3
  <2>6. QED
    BY <1>2, <2>1, <2>2, <2>3, <2>4, <2>5 DEF CollectorStep
<1>3. ASSUME NEW p \in Procs, Crash(p)
      PROVE  LogInv'
  BY <1>0, <1>3 DEF Crash, Return, OneCollector, Locked, walkVars, histVars
<1>4. ASSUME NEW i \in Identities, DamageFile(i)
      PROVE  LogInv'
  BY <1>4 DEF DamageFile, Damage, walkVars, procVars
<1>5. QED
  BY <1>0, StepCases, <1>1, <1>2, <1>3, <1>4

\* GC.LOG gains what a sweep removed, all of it, when the sweep ends, and nothing
\* at any other step; a run that stops before that returns no report.
THEOREM LogIsTheSweep == Spec => LogMatchesSweep
<1> DEFINE Logged ==
      IF \E p \in Procs : pc[p] = "gcSweep" /\ pc'[p] = "gcUnlock"
        THEN log' = log \union Removed
        ELSE /\ log' = log
             /\ \A p \in Procs : pc[p] = "gcSweep" /\ pc'[p] = "idle" => ret'[p] # "report"
<1>1. Init => LogInv
  BY DEF Init, SymbolStoreInit, LogInv
<1>2. TypeOK /\ LogInv /\ [Next]_vars => Logged
  <2> SUFFICES ASSUME TypeOK, LogInv, [Next]_vars
               PROVE  Logged
    OBVIOUS
  <2>0. /\ SymbolStoreTypeOK /\ pc \in [Procs -> Locations]
        /\ DOMAIN ret = Procs
    BY DEF TypeOK, SymbolStoreTypeOK
  <2>1. CASE Quiet
    BY <2>1 DEF Quiet, GcLocations, Locked, gcVars
  <2>2. ASSUME NEW p \in Procs, GcAppendLog(p)
        PROVE  Logged
    BY <2>0, <2>2 DEF GcAppendLog, Advance, ToLog, LogInv
  <2>3. ASSUME NEW p \in Procs, CollectorStep(p), ~GcAppendLog(p)
        PROVE  Logged
    <3>1. log' = log
      BY <2>3 DEF CollectorStep, GcReadRoots, GcAcquire, GcScan, GcVisit, GcClose,
                  GcDelete, GcDeleteFails, GcLogFails, GcRelease
    <3>2. ~\E q \in Procs : pc[q] = "gcSweep" /\ pc'[q] = "gcUnlock"
      BY <2>0, <2>3
      DEF CollectorStep, GcReadRoots, GcAcquire, GcScan, GcVisit, GcClose,
          GcDelete, GcDeleteFails, GcLogFails, GcRelease, Enter, Advance, Return, MayCall, procVars
    <3>3. ASSUME NEW q \in Procs, pc[q] = "gcSweep", pc'[q] = "idle"
          PROVE  ret'[q] # "report"
      <4>1. GcLogFails(p) /\ q = p
        BY <2>0, <2>3, <3>3
        DEF CollectorStep, GcReadRoots, GcAcquire, GcScan, GcVisit, GcClose,
            GcDelete, GcDeleteFails, GcRelease, Enter, Advance, Return, MayCall, procVars,
            GcLogFails
      <4>2. QED
        BY <2>0, <4>1 DEF GcLogFails, Return
    <3>4. QED
      BY <3>1, <3>2, <3>3
  <2>4. ASSUME NEW p \in Procs, Crash(p)
        PROVE  Logged
    BY <2>0, <2>4 DEF Crash, Return
  <2>5. ASSUME NEW i \in Identities, DamageFile(i)
        PROVE  Logged
    BY <2>5 DEF DamageFile, Damage, procVars
  <2>6. QED
    BY <2>0, StepCases, <2>1, <2>2, <2>3, <2>4, <2>5
<1>3. TypeOK /\ OneCollector /\ WalkInv /\ LogInv /\ [Next]_vars => LogInv'
  BY LogStep
<1>4. QED
  BY <1>1, <1>2, <1>3, WalkSound, PTL DEF Spec, LogMatchesSweep

-----------------------------------------------------------------------------
(***************************************************************************)
(* The contract.  Each step of the system is one of the steps of           *)
(* StoreContract or leaves its variables alone: a replace publishes, the   *)
(* taking of LOCK by a run that deletes authorises, an unlink collects,    *)
(* and the release of LOCK, however it comes about, finishes.              *)
(***************************************************************************)
Promised == Contract!Next \/ UNCHANGED Contract!vars

LEMMA SameClosure ==
    ASSUME NEW R, NEW G
    PROVE  Contract!Closure(R, G) = Closure(R, G)
BY DEF Contract!Closure, Contract!ClosedUnder, Closure, ClosedUnder

LEMMA ContractStep ==
    ASSUME TypeOK, OneCollector, CallInv, WalkInv, [Next]_vars
    PROVE  Promised
<1> USE DEF Promised, Contract!vars, Collecting
<1>0. /\ SymbolStoreTypeOK /\ pc \in [Procs -> Locations]
      /\ file \in [Identities -> Contents \union {NoFile}]
      /\ lock \in Procs \union {NoProc} /\ NoProc \notin Procs
      /\ execute \in [Procs -> BOOLEAN] /\ gcRoots \in [Procs -> SUBSET Identities]
  BY NoProcAssumption DEF TypeOK, SymbolStoreTypeOK, CollectorTypeOK
<1>1. ASSUME NEW p \in Procs, PutReplace(p), UNCHANGED gcVars
      PROVE  Promised
  <2>1. arg[p] \in Identities /\ file' = [file EXCEPT ![arg[p]] = "whole"]
    BY <1>1 DEF PutReplace, SymbolStoreTypeOK, TypeOK, ObjectLocations
  <2>2. Contract!Publish(arg[p])
    BY <1>1, <2>1 DEF Contract!Publish, gcVars, callVars, histVars
  <2>3. QED
    BY <2>1, <2>2 DEF Contract!Next
<1>2. ASSUME NEW p \in Procs, GcDelete(p)
      PROVE  Promised
  <2>1. lock = p /\ execute[p] /\ gcRoots[p] # {}
    BY <1>2, Deletion
  <2>2. PICK i \in Identities :
           /\ i \notin Closure(gcRoots[p], intact)
           /\ file'   = [file EXCEPT ![i] = NoFile]
           /\ intact' = intact \ {i}
    BY <1>2, Deletion
  <2>3. UNCHANGED <<lock, execute, gcRoots>>
    BY <1>2 DEF GcDelete, callVars
  <2>4. Collecting /\ Collecting'
    BY <1>0, <2>1, <2>3
  <2>5. Contract!Collect(i)
    BY <2>1, <2>2, <2>3, <2>4, SameClosure DEF Contract!Collect, NoFile
  <2>6. QED
    BY <2>5 DEF Contract!Next
<1>3. ASSUME NEW i \in Identities, DamageFile(i)
      PROVE  Promised
  <2>1. Contract!Damage(i)
    BY <1>0, <1>3 DEF DamageFile, Damage, Contract!Damage, Present, callVars, NoFile
  <2>2. QED
    BY <2>1 DEF Contract!Next
<1>4. ASSUME NEW p \in Procs, CollectorStep(p), UNCHANGED file, ~GcDelete(p)
      PROVE  Promised
  <2>1. CASE \E x \in BOOLEAN : GcReadRoots(p, x)
    BY <1>0, <1>4, <2>1 DEF GcReadRoots, MayCall, histVars, OneCollector, Locked
  <2>2. CASE GcAcquire(p) /\ ~execute[p]
    BY <1>0, <1>4, <2>2 DEF GcAcquire, LockFree, callVars
  <2>3. CASE GcAcquire(p) /\ execute[p]
    <3>1. gcRoots[p] # {} /\ gcRoots[p] \in SUBSET Identities
      BY <1>0, <2>3 DEF GcAcquire, Advance, CallInv, GcLocations
    <3>2. Contract!Authorise(gcRoots[p])
      BY <1>0, <1>4, <2>3, <3>1
      DEF GcAcquire, LockFree, callVars, Whole, Contract!Authorise
    <3>3. QED
      BY <3>1, <3>2 DEF Contract!Next
  <2>4. CASE GcScan(p) \/ GcVisit(p) \/ GcClose(p) \/ GcDeleteFails(p) \/ GcAppendLog(p)
    BY <1>4, <2>4
    DEF GcScan, GcVisit, GcClose, GcDeleteFails, GcAppendLog, callVars, histVars
  <2>5. CASE GcLogFails(p) \/ GcRelease(p)
    <3>1. lock = p /\ Unlock /\ (execute[p] => gcRoots[p] # {})
      BY <2>5 DEF GcLogFails, GcRelease, OneCollector, CallInv, Locked, GcLocations
    <3>2. CASE execute[p]
      BY <1>0, <1>4, <3>1, <3>2 DEF Unlock, Contract!Finish, Contract!Next
    <3>3. CASE ~execute[p]
      BY <1>0, <1>4, <3>1, <3>3 DEF Unlock
    <3>4. QED
      BY <3>2, <3>3
  <2>6. QED
    BY <1>4, <2>1, <2>2, <2>3, <2>4, <2>5 DEF CollectorStep
<1>5. ASSUME NEW p \in Procs, Crash(p)
      PROVE  Promised
  <2>1. CASE lock = p /\ execute[p]
    <3>1. Unlock /\ gcRoots[p] # {} /\ UNCHANGED file
      BY <1>5, <2>1 DEF Crash, OneCollector, CallInv, GcLocations
    <3>2. QED
      BY <1>0, <2>1, <3>1 DEF Unlock, Contract!Finish, Contract!Next
  <2>2. CASE lock = p /\ ~execute[p]
    BY <1>0, <1>5, <2>2 DEF Crash, Unlock
  <2>3. CASE lock # p
    BY <1>0, <1>5, <2>3 DEF Crash, ForgetCall, histVars
  <2>4. QED
    BY <1>0, <2>1, <2>2, <2>3
<1>6. CASE Quiet /\ UNCHANGED file
  BY <1>6 DEF Quiet, gcVars, callVars, histVars
<1>7. QED
  BY <1>0, FileSteps, StepCases, <1>1, <1>2, <1>3, <1>4, <1>5, <1>6

\* The store of files, processes, a lock and a log implements the contract.
THEOREM StoreImplementsContract == Spec => KeepsContract
<1>1. Init => Contract!Init
  BY DEF Init, SymbolStoreInit, CollectorInit, Contract!Init, Collecting, NoFile
<1>2. TypeOK /\ OneCollector /\ CallInv /\ WalkInv /\ [Next]_vars => [Contract!Next]_Contract!vars
  BY ContractStep DEF Promised
<1>3. QED
  BY <1>1, <1>2, WalkSound, PTL DEF Spec, KeepsContract, Contract!Spec

-----------------------------------------------------------------------------
(***************************************************************************)
(* Proofs about ROOTS and about what a collection leaves behind.           *)
(*                                                                         *)
(* Both need a hypothesis on the constants, and the store makes neither    *)
(* true by itself.  The edits of ROOTS take no lock and are not atomic: of *)
(* two editors at one time one loses its root (the run roots_lost_update), *)
(* and one that dies between the truncation and the write loses them all.  *)
(* And an unlink that fails leaves garbage.                                *)
(***************************************************************************)

\* The processes that may edit ROOTS, and the hypothesis: there is one at most, and
\* it does not die.
Editors == {p \in Procs : Calls[p] \intersect {"addRoot", "removeRoot"} # {}}

OneLivingEditor == (\A p, q \in Editors : p = q) /\ "crash" \notin Faults

\* An editor inside an edit has all acknowledged roots in the list it will write,
\* but the one the edit is about; ROOTS has them too until it is truncated.
RootsInv ==
    /\ AckedRootsKept
    /\ \A p \in Procs : EditingRoots(p) => p \in Editors /\ acked \ {arg[p]} \subseteq newRoots[p]
    /\ \A p \in Procs : pc[p] = "truncateRoots" => acked \subseteq roots
    /\ \A p \in Procs : pc[p] = "writeRoots" => roots = {}

\* The steps of an edit, and the steps of everything else.
LEMMA EditSteps ==
    ASSUME TypeOK, [Next]_vars, "crash" \notin Faults
    PROVE  \/ \E p \in Procs :
                 \/ \E i \in Identities :
                       \/ AddRootPresent(p, i) \/ AddRootRead(p, i)
                       \/ RemoveRootAbsent(p, i) \/ RemoveRootRead(p, i)
                 \/ TruncateRoots(p) \/ WriteRoots(p)
           \/ /\ UNCHANGED rootsVars
              /\ \A q \in Procs : EditingRoots(q) \/ EditingRoots(q)' => pc'[q] = pc[q] /\ arg'[q] = arg[q]
<1> USE DEF EditingRoots, Return, Enter, Advance, MayCall, procVars
<1>0. pc \in [Procs -> Locations] /\ arg \in [Procs -> Identities \union {NoId}]
  BY DEF TypeOK, SymbolStoreTypeOK
<1>1. ASSUME NEW p \in Procs, Begin(p)
      PROVE  \/ \E i \in Identities :
                   \/ AddRootPresent(p, i) \/ AddRootRead(p, i)
                   \/ RemoveRootAbsent(p, i) \/ RemoveRootRead(p, i)
             \/ /\ UNCHANGED rootsVars
                /\ \A q \in Procs : EditingRoots(q) \/ EditingRoots(q)' => pc'[q] = pc[q] /\ arg'[q] = arg[q]
  BY <1>0, <1>1
  DEF Begin, WriteRefused, PutPresent, PutBegin, ReadMissing, ReadBegin, GcRefused, GcReadRoots
<1>2. ASSUME NEW p \in Procs, Continue(p)
      PROVE  \/ TruncateRoots(p) \/ WriteRoots(p)
             \/ /\ UNCHANGED rootsVars
                /\ \A q \in Procs : EditingRoots(q) \/ EditingRoots(q)' => pc'[q] = pc[q] /\ arg'[q] = arg[q]
  <2>1. CASE (PutWrite(p) \/ PutReplace(p) \/ PutFails(p) \/ ReadReopen(p) \/ ReadBytes(p))
             /\ UNCHANGED rootsVars
    BY <1>0, <2>1 DEF PutWrite, PutReplace, PutFails, ReadReopen, ReadBytes
  <2>2. CASE UNCHANGED rootsVars /\ (GcAcquire(p) \/ GcScan(p) \/ GcVisit(p) \/ GcClose(p)
               \/ GcDeleteFails(p) \/ GcAppendLog(p) \/ GcLogFails(p) \/ GcRelease(p) \/ GcDelete(p))
    BY <1>0, <2>2 DEF GcAcquire, GcScan, GcVisit, GcClose, GcDeleteFails, GcAppendLog, GcLogFails,
                      GcRelease, GcDelete
  <2>3. QED
    BY <1>2, <2>1, <2>2 DEF Continue
<1>3. ASSUME NEW p \in Procs, Crash(p)
      PROVE  FALSE
  BY <1>3 DEF Crash
<1>4. ASSUME NEW i \in Identities, DamageFile(i)
      PROVE  UNCHANGED <<rootsVars, procVars>>
  BY <1>4 DEF DamageFile, Damage
<1>5. QED
  BY <1>1, <1>2, <1>3, <1>4 DEF Next, vars

LEMMA RootsStep ==
    ASSUME OneLivingEditor, TypeOK, RootsInv, [Next]_vars
    PROVE  RootsInv'
<1> USE DEF RootsInv, AckedRootsKept, EditingRoots, Return, Enter, Advance, MayCall
<1>0. /\ pc \in [Procs -> Locations] /\ arg \in [Procs -> Identities \union {NoId}]
      /\ newRoots \in [Procs -> SUBSET Identities]
      /\ \A p, q \in Editors : p = q
  BY DEF TypeOK, SymbolStoreTypeOK, RootsTypeOK, OneLivingEditor
<1>1. ASSUME NEW p \in Procs, p \in Editors, pc[p] = "idle"
      PROVE  (\A q \in Procs : ~EditingRoots(q)) /\ acked \subseteq roots
  BY <1>0, <1>1
<1>2. ASSUME NEW p \in Procs, NEW i \in Identities, AddRootPresent(p, i) \/ RemoveRootAbsent(p, i)
      PROVE  RootsInv'
  <2>1. p \in Editors /\ pc[p] = "idle"
    BY <1>2 DEF AddRootPresent, RemoveRootAbsent, Editors
  <2>2. QED
    BY <1>0, <1>1, <1>2, <2>1 DEF AddRootPresent, RemoveRootAbsent
<1>3. ASSUME NEW p \in Procs, NEW i \in Identities, AddRootRead(p, i) \/ RemoveRootRead(p, i)
      PROVE  RootsInv'
  <2>1. p \in Editors /\ pc[p] = "idle"
    BY <1>3 DEF AddRootRead, RemoveRootRead, Editors
  <2>2. newRoots'[p] \in {roots \union {i}, roots \ {i}} /\ UNCHANGED <<roots, acked>>
    BY <1>0, <1>3 DEF AddRootRead, RemoveRootRead
  <2>3. pc' = [pc EXCEPT ![p] = "truncateRoots"] /\ arg' = [arg EXCEPT ![p] = i]
    BY <1>3 DEF AddRootRead, RemoveRootRead
  <2>4. QED
    BY <1>0, <1>1, <2>1, <2>2, <2>3
<1>4. ASSUME NEW p \in Procs, TruncateRoots(p)
      PROVE  RootsInv'
  <2>1. \A q \in Procs : EditingRoots(q) => q = p
    BY <1>0, <1>4 DEF TruncateRoots
  <2>2. QED
    BY <1>0, <1>4, <2>1 DEF TruncateRoots
<1>5. ASSUME NEW p \in Procs, WriteRoots(p)
      PROVE  RootsInv'
  <2>1. \A q \in Procs : EditingRoots(q) => q = p
    BY <1>0, <1>5 DEF WriteRoots
  <2>2. acked' \subseteq roots'
    BY <1>5 DEF WriteRoots
  <2>3. \A q \in Procs : ~EditingRoots(q)'
    BY <1>0, <1>5, <2>1 DEF WriteRoots
  <2>4. QED
    BY <2>2, <2>3
<1>6. CASE /\ UNCHANGED rootsVars
           /\ \A q \in Procs : EditingRoots(q) \/ EditingRoots(q)' => pc'[q] = pc[q] /\ arg'[q] = arg[q]
  BY <1>6 DEF rootsVars
<1>7. QED
  BY EditSteps, <1>2, <1>3, <1>4, <1>5, <1>6 DEF OneLivingEditor

LEMMA RootsInvariant == ASSUME OneLivingEditor PROVE Spec => []RootsInv
<1>1. Init => RootsInv
  BY DEF Init, SymbolStoreInit, RootsInit, RootsInv, AckedRootsKept, EditingRoots
<1>2. TypeOK /\ RootsInv /\ [Next]_vars => RootsInv'
  BY RootsStep
<1>3. QED
  BY <1>1, <1>2, TypeCorrect, PTL DEF Spec

\* add_root and remove_root rewrite the whole of ROOTS: with one editor that does
\* not die, no root whose add_root returned is lost.
THEOREM RootsKept == ASSUME OneLivingEditor PROVE Spec => []AckedRootsKept
<1>1. RootsInv => AckedRootsKept
  BY DEF RootsInv
<1>2. QED
  BY <1>1, RootsInvariant, PTL

\* gc that may delete reads all acknowledged roots or, between the truncation of
\* ROOTS and its rewriting, none, and then refuses.
THEOREM RootsSeen == ASSUME OneLivingEditor PROVE Spec => CollectorsSeeEveryRoot
<1> DEFINE Seen == \A p \in Procs :
                      pc[p] = "idle" /\ pc'[p] = "gcLock" /\ execute'[p] => acked \subseteq gcRoots'[p]
<1>1. ASSUME TypeOK, RootsInv, [Next]_vars, NEW p \in Procs,
             pc[p] = "idle", pc'[p] = "gcLock", execute'[p]
      PROVE  acked \subseteq gcRoots'[p]
  <2>0. /\ SymbolStoreTypeOK /\ pc \in [Procs -> Locations]
        /\ gcRoots \in [Procs -> SUBSET Identities] /\ execute \in [Procs -> BOOLEAN]
    BY <1>1 DEF TypeOK, SymbolStoreTypeOK, CollectorTypeOK
  <2>1. PICK x \in BOOLEAN : GcReadRoots(p, x)
    <3>1. ASSUME NEW q \in Procs, CollectorStep(q), ~ \E x \in BOOLEAN : GcReadRoots(q, x)
          PROVE  FALSE
      BY <1>1, <2>0, <3>1
      DEF CollectorStep, GcAcquire, GcScan, GcVisit, GcClose, GcDelete, GcDeleteFails,
          GcAppendLog, GcLogFails, GcRelease, Advance, Return, procVars
    <3>2. ASSUME NEW q \in Procs, q # p, \E x \in BOOLEAN : GcReadRoots(q, x)
          PROVE  FALSE
      BY <1>1, <2>0, <3>2 DEF GcReadRoots, Enter
    <3>3. ~Quiet
      BY <1>1 DEF Quiet, GcLocations
    <3>4. ~ \E q \in Procs : Crash(q)
      BY <1>1, <2>0 DEF Crash, Return
    <3>5. ~ \E i \in Identities : DamageFile(i)
      BY <1>1 DEF DamageFile, Damage, procVars
    <3>6. QED
      BY <1>1, <2>0, <3>1, <3>2, <3>3, <3>4, <3>5, StepCases
  <2>2. roots # {} /\ gcRoots'[p] = roots
    BY <1>1, <2>0, <2>1 DEF GcReadRoots, MayCollect
  <2>3. acked \subseteq roots
    BY <1>1, <2>2 DEF RootsInv, AckedRootsKept, EditingRoots
  <2>4. QED
    BY <2>2, <2>3
<1>2. TypeOK /\ RootsInv /\ [Next]_vars => [Seen]_vars
  BY <1>1
<1>3. QED
  BY <1>2, TypeCorrect, RootsInvariant, PTL DEF Spec, CollectorsSeeEveryRoot

-----------------------------------------------------------------------------
(***************************************************************************)
(* Garbage.                                                                *)
(***************************************************************************)

\* The roots are reachable from themselves.
LEMMA RootsInClosure ==
    ASSUME NEW R \in SUBSET Identities, NEW G
    PROVE  R \subseteq Closure(R, G)
BY DEF Closure, ClosedUnder

\* What a reachable object imports is reachable.
LEMMA ImportsInClosure ==
    ASSUME NEW R, NEW G, NEW i \in Closure(R, G) \intersect G
    PROVE  Imports[i] \subseteq Closure(R, G)
<1>1. i \in Identities /\ Imports[i] \subseteq Identities
  BY ImportsAssumption DEF Closure
<1>2. ASSUME NEW j \in Imports[i], NEW S \in SUBSET Identities, ClosedUnder(S, R, G)
      PROVE  j \in S
  BY <1>2 DEF Closure, ClosedUnder
<1>3. QED
  BY <1>1, <1>2 DEF Closure

Gone == {i \in Identities : \E c \in Contents : <<i, c>> \in gone}

\* What the roots of p reach, whatever can be read.
Reach(p) == Closure(gcRoots[p], Identities)

\* While p holds LOCK: what was in the store when it took it is listed; it is still
\* there or it was removed; the walk stays within reach of the roots, and what is
\* out of reach waits to be deleted, or is gone.
GarbageInv ==
    \A p \in Procs :
        /\ pc[p] \in Locked => presentAtLock \subseteq listed \intersect (Present \union Gone)
        /\ pc[p] \in {"gcScan", "gcWalk"} => gone = {}
        /\ pc[p] = "gcScan" => reachable = {} /\ frontier = {}
        /\ pc[p] \in {"gcWalk", "gcSweep"} => reachable \union frontier \subseteq Reach(p)
        /\ pc[p] = "gcSweep" => presentAtLock \ Reach(p) \subseteq unreachable \union Gone
        /\ pc[p] = "gcUnlock" /\ execute[p] => presentAtLock \ Reach(p) \subseteq Gone

LEMMA GarbageStep ==
    ASSUME "unlinkFails" \notin Faults, TypeOK, OneCollector, CallInv, WalkInv, GarbageInv, [Next]_vars
    PROVE  GarbageInv'
<1> USE DEF GarbageInv, Gone, Reach
<1>0. /\ SymbolStoreTypeOK /\ pc \in [Procs -> Locations]
      /\ file \in [Identities -> Contents \union {NoFile}] /\ NoFile \notin Contents
      /\ gcRoots \in [Procs -> SUBSET Identities] /\ execute \in [Procs -> BOOLEAN]
      /\ presentAtLock \subseteq Identities /\ unreachable \subseteq Identities
      /\ \A p, q \in Procs : pc[p] \in Locked /\ pc[q] \in Locked => p = q
  BY DEF TypeOK, SymbolStoreTypeOK, CollectorTypeOK, NoFile, Contents, OneCollector
<1>1. CASE Quiet
  <2>1. Present \subseteq Present'
    <3>1. ASSUME NEW q \in Procs, PutReplace(q)
          PROVE  Present \subseteq Present'
      BY <1>0, <3>1 DEF PutReplace, Present, SymbolStoreTypeOK, NoFile
    <3>2. ~ \E q \in Procs : GcDelete(q)
      BY <1>1 DEF Quiet, GcDelete, gcVars, walkVars
    <3>3. ASSUME NEW i \in Identities, DamageFile(i)
          PROVE  Present \subseteq Present'
      BY <1>0, <3>3 DEF DamageFile, Damage, Present, NoFile
    <3>4. QED
      BY <3>1, <3>2, <3>3, FileSteps DEF Present
  <2>2. UNCHANGED <<presentAtLock, listed, gone, reachable, frontier, gcRoots, execute, unreachable>>
    BY <1>1 DEF Quiet, gcVars, callVars, walkVars, histVars
  <2>3. \A q \in Procs : pc'[q] \in Locked => pc[q] = pc'[q]
    BY <1>1 DEF Quiet, GcLocations
  <2>4. QED
    BY <2>1, <2>2, <2>3 DEF Locked
<1>2. ASSUME NEW p \in Procs, CollectorStep(p)
      PROVE  GarbageInv'
  <2>1. CASE (\E x \in BOOLEAN : GcReadRoots(p, x)) /\ UNCHANGED storeVars
    BY <1>0, <2>1 DEF GcReadRoots, Enter, MayCall, walkVars, histVars, storeVars, Present, Locked
  <2>2. CASE GcAcquire(p) /\ UNCHANGED storeVars
    <3>1. \A q \in Procs : pc[q] \notin Locked
      BY <2>2, NoProcAssumption DEF GcAcquire, LockFree, OneCollector
    <3>2. reachable = {} /\ frontier = {} /\ gone = {}
      BY <2>2 DEF GcAcquire, LockFree, WalkInv, NotWalked, NothingDone
    <3>3. QED
      BY <1>0, <2>2, <3>1, <3>2 DEF GcAcquire, Advance, Locked, storeVars, Present
  <2>3. CASE GcScan(p) /\ UNCHANGED storeVars
    <3>1. \A q \in Procs : q # p => pc[q] \notin Locked
      BY <1>0, <2>3 DEF GcScan, Advance, Locked
    <3>2. gcRoots[p] \subseteq Reach(p)
      BY <1>0, RootsInClosure
    <3>3. QED
      BY <1>0, <2>3, <3>1, <3>2 DEF GcScan, Advance, Locked, storeVars, callVars, Present
  <2>4. CASE GcVisit(p) /\ UNCHANGED storeVars
    <3>1. PICK i \in frontier : Visit(i)
      BY <2>4 DEF GcVisit
    <3>2. i \in Reach(p) /\ i \in Identities
      BY <2>4, <3>1 DEF GcVisit, TypeOK, CollectorTypeOK
    <3>3. ImportsFound(i) \subseteq Reach(p)
      BY <3>2, ImportsInClosure DEF ImportsFound
    <3>4. reachable' \union frontier' \subseteq Reach(p)
      BY <2>4, <3>1, <3>2, <3>3 DEF GcVisit, Visit
    <3>5. QED
      BY <1>0, <2>4, <3>4 DEF GcVisit, Locked, storeVars, callVars, histVars, procVars, Present
  <2>5. CASE GcClose(p) /\ UNCHANGED storeVars
    <3>1. /\ pc[p] = "gcWalk" /\ reachable \subseteq Reach(p) /\ gone = {}
          /\ presentAtLock \subseteq listed
      BY <2>5 DEF GcClose, Advance, Locked
    <3>2. \A q \in Procs : q # p => pc'[q] = pc[q] /\ pc[q] \notin Locked
      BY <1>0, <2>5 DEF GcClose, Advance, Locked
    <3>3. pc'[p] = "gcSweep" => unreachable' = listed \ reachable
      BY <1>0, <2>5 DEF GcClose, Advance
    <3>4. pc'[p] = "gcUnlock" => ~execute'[p]
      BY <1>0, <2>5 DEF GcClose, Advance, callVars
    <3>5. pc'[p] \in {"gcSweep", "gcUnlock"}
      BY <1>0, <2>5 DEF GcClose, Advance
    <3>6. QED
      BY <1>0, <2>5, <3>1, <3>2, <3>3, <3>4, <3>5
      DEF GcClose, Locked, storeVars, callVars, histVars, Present
  <2>6. CASE GcDelete(p)
    <3>1. PICK i \in unreachable :
             /\ unreachable' = unreachable \ {i}
             /\ file' = [file EXCEPT ![i] = NoFile]
             /\ gone' = gone \union {<<j, file[j]>> : j \in {i} \intersect Present}
      BY <2>6 DEF GcDelete
    <3>2. i \in Identities /\ pc[p] = "gcSweep"
      BY <1>0, <2>6 DEF GcDelete
    <3>3. Gone \subseteq Gone' /\ (i \in Present => i \in Gone')
      BY <1>0, <3>1, <3>2 DEF Present
    <3>4. Present \subseteq Present' \union {i}
      BY <1>0, <3>1 DEF Present
    <3>5. presentAtLock \subseteq listed \intersect (Present' \union Gone')
      BY <3>2, <3>3, <3>4 DEF Locked
    <3>6. presentAtLock \ Reach(p) \subseteq unreachable' \union Gone'
      BY <3>1, <3>2, <3>3 DEF Locked
    <3>7. /\ UNCHANGED <<pc, gcRoots, execute, listed, presentAtLock, reachable, frontier>>
          /\ \A q \in Procs : pc[q] \in Locked => q = p
      BY <1>0, <2>6 DEF GcDelete, procVars, callVars, Locked
    <3> HIDE DEF Gone, Reach
    <3>8. Reach(p)' = Reach(p)
      BY <3>7 DEF Reach
    <3>9. QED
      BY <3>2, <3>5, <3>6, <3>7, <3>8 DEF Locked
  <2>7. CASE GcDeleteFails(p)
    BY <2>7 DEF GcDeleteFails
  <2>8. CASE GcAppendLog(p) /\ UNCHANGED storeVars
    <3>1. unreachable = {} /\ pc[p] = "gcSweep" /\ pc' = [pc EXCEPT ![p] = "gcUnlock"]
      BY <2>8 DEF GcAppendLog, Advance, SweepOver
    <3>2. QED
      BY <1>0, <2>8, <3>1 DEF GcAppendLog, Locked, storeVars, callVars, walkVars, histVars, Present
  <2>9. CASE GcLogFails(p) \/ GcRelease(p)
    <3>1. \A q \in Procs : pc'[q] \notin Locked
      BY <1>0, <2>9 DEF GcLogFails, GcRelease, Return, Locked
    <3>2. QED
      BY <3>1 DEF Locked
  <2>10. QED
    BY <1>2, <2>1, <2>2, <2>3, <2>4, <2>5, <2>6, <2>7, <2>8, <2>9 DEF CollectorStep
<1>3. ASSUME NEW p \in Procs, Crash(p)
      PROVE  GarbageInv'
  <2>1. CASE lock = p
    <3>1. \A q \in Procs : pc'[q] \notin Locked
      BY <1>0, <1>3, <2>1 DEF Crash, Return, Locked, OneCollector
    <3>2. QED
      BY <3>1 DEF Locked
  <2>2. CASE lock # p
    BY <1>0, <1>3, <2>2
    DEF Crash, Return, ForgetCall, walkVars, histVars, OneCollector, Locked, Present
  <2>3. QED
    BY <2>1, <2>2
<1>4. ASSUME NEW i \in Identities, DamageFile(i)
      PROVE  GarbageInv'
  <2>1. Present' = Present
    BY <1>0, <1>4 DEF DamageFile, Damage, Present, NoFile
  <2>2. QED
    BY <1>4, <2>1 DEF DamageFile, callVars, walkVars, Damage, procVars
<1>5. QED
  BY <1>0, StepCases, <1>1, <1>2, <1>3, <1>4

\* A sweep that ends has removed what was in the store when gc took the lock and
\* what the roots do not reach, unless an unlink failed.
THEOREM GarbageGoes == ASSUME "unlinkFails" \notin Faults PROVE Spec => []GarbageRemoved
<1>1. Init => GarbageInv
  BY DEF Init, SymbolStoreInit, GarbageInv, Locked
<1>2. TypeOK /\ OneCollector /\ CallInv /\ WalkInv /\ GarbageInv /\ [Next]_vars => GarbageInv'
  BY GarbageStep
<1>3. TypeOK /\ GarbageInv => GarbageRemoved
  BY DEF GarbageInv, GarbageRemoved, Gone, Reach, TypeOK, CollectorTypeOK
<1>4. QED
  BY <1>1, <1>2, <1>3, WalkSound, PTL DEF Spec

=============================================================================
