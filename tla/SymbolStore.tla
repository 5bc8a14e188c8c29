---------------------------- MODULE SymbolStore ----------------------------
(***************************************************************************)
(* The object files of a symbol store directory and the calls on them      *)
(* (src/codifide/store/symbol_store.py).                                   *)
(*                                                                         *)
(* Several operating-system processes share one store directory.  A        *)
(* process is idle or inside one call; between two steps of a call any     *)
(* other process may run.  A step is one access to the shared directory    *)
(* together with the code up to the next access.                           *)
(*                                                                         *)
(* Abstractions.  The bytes of an object are reduced to what its hash      *)
(* says of them (Contents).  An identity is the hash of the bytes of one   *)
(* wire form, so only one of its two paths (.json, .cbor) ever holds it:   *)
(* file[i] stands for both, and a test of the other path is no step.  A    *)
(* temporary file has a name of its own, which no other process looks at:  *)
(* one that a dead writer left behind is not kept in the state.  The       *)
(* symlink refusals are left out: no process of the model plants one.      *)
(* put_module is a sequence of put calls of one process.                   *)
(***************************************************************************)
EXTENDS Reachability

CONSTANTS
    Procs,      \* the processes that have the store open
    Calls,      \* Calls[p]: the operations process p may call
    Faults      \* the faults of the environment that may happen

Operations ==
    {"put", "putWrong", "get", "getBytes", "addRoot", "removeRoot", "gc", "dryRun"}

FaultKinds == {"crash", "damage", "writeFails", "unlinkFails", "logFails"}

ASSUME CallsAssumption  == Calls \in [Procs -> SUBSET Operations]
ASSUME FaultsAssumption == Faults \subseteq FaultKinds

(***************************************************************************)
(* What the bytes at an object path are.  "whole" bytes hash to the        *)
(* identity; "wrong" bytes are those of a caller that named them falsely;  *)
(* "partial" bytes are a write in progress; "damaged" and "empty" are      *)
(* bytes changed from outside, of some length and of length zero.          *)
(***************************************************************************)
Contents == {"whole", "wrong", "partial", "damaged", "empty"}
NoFile   == "absent"
NoId     == "none"

ASSUME NoIdAssumption == NoId \notin Identities

\* The locations inside calls that are about one identity.
ObjectLocations ==
    {"write", "replace", "reopen", "read", "truncateRoots", "writeRoots"}

Locations ==
    ObjectLocations \union {"idle", "gcLock", "gcScan", "gcWalk", "gcSweep", "gcUnlock"}

Results ==
    {"none", "identity", "bytes", "NotFound", "IntegrityError", "FileNotFoundError",
     "OSError", "GCError", "report", "done"}

VARIABLES
    file, \* file[i]: what the object path of identity i holds
    temp, \* temp[p]: the temporary file process p is writing, or NoFile
    pc,   \* pc[p]: where process p is
    arg,  \* arg[p]: the identity its current call is about, or NoId
    ret   \* ret[p]: how its last call ended

storeVars == <<file, temp>>
procVars  == <<pc, arg, ret>>

Present == {i \in Identities : file[i] # NoFile}
Whole   == {i \in Identities : file[i] = "whole"}

SymbolStoreTypeOK ==
    /\ file  \in [Identities -> Contents \union {NoFile}]
    /\ temp  \in [Procs -> {"whole", "partial", NoFile}]
    /\ pc    \in [Procs -> Locations]
    /\ arg   \in [Procs -> Identities \union {NoId}]
    /\ ret   \in [Procs -> Results]
    /\ \A p \in Procs : pc[p] = "write"   <=> temp[p] = "partial"
    /\ \A p \in Procs : pc[p] = "replace" <=> temp[p] = "whole"
    /\ \A p \in Procs : arg[p] \in Identities <=> pc[p] \in ObjectLocations

\* The store directory may already hold any set of sound objects.
SymbolStoreInit ==
    /\ file  \in [Identities -> {"whole", NoFile}]
    /\ temp  = [p \in Procs |-> NoFile]
    /\ pc    = [p \in Procs |-> "idle"]
    /\ arg   = [p \in Procs |-> NoId]
    /\ ret   = [p \in Procs |-> "none"]

(***************************************************************************)
(* Control of one process: it enters a call, moves on inside it, or        *)
(* returns from it with a result.                                          *)
(***************************************************************************)
MayCall(p, op) == pc[p] = "idle" /\ op \in Calls[p]

Enter(p, i, loc) ==
    /\ pc'  = [pc  EXCEPT ![p] = loc]
    /\ arg' = [arg EXCEPT ![p] = i]
    /\ ret' = [ret EXCEPT ![p] = "none"]

Advance(p, from, to) ==
    /\ pc[p] = from
    /\ pc' = [pc EXCEPT ![p] = to]
    /\ UNCHANGED <<arg, ret>>

Return(p, result) ==
    /\ pc'  = [pc  EXCEPT ![p] = "idle"]
    /\ arg' = [arg EXCEPT ![p] = NoId]
    /\ ret' = [ret EXCEPT ![p] = result]

-----------------------------------------------------------------------------
(***************************************************************************)
(* Writing: put, put_json, and every caller of _write_atomic.              *)
(***************************************************************************)

\* Bug: the hash of the caller's bytes is not compared with the identity.
WriteUnchecked(p, i) ==
    /\ MayCall(p, "putWrong")
    /\ file' = [file EXCEPT ![i] = "wrong"]
    /\ Return(p, "identity")
    /\ UNCHANGED temp

\* The bytes do not hash to the identity they are given: refused before the
\* store is touched.
WriteRefused(p, i) ==
    /\ MayCall(p, "putWrong")
    /\ Return(p, "IntegrityError")
    /\ UNCHANGED storeVars

\* The object is already there: its identity is returned, its bytes untouched.
PutPresent(p, i) ==
    /\ MayCall(p, "put")
    /\ i \in Present
    /\ Return(p, "identity")
    /\ UNCHANGED storeVars

\* Bug: the target itself is opened for writing.
PutBeginInPlace(p, i) ==
    /\ MayCall(p, "put")
    /\ i \notin Present
    /\ temp' = [temp EXCEPT ![p] = "partial"]
    /\ file' = [file EXCEPT ![i] = "partial"]
    /\ Enter(p, i, "write")

\* mkstemp beside the target: an empty file with a name of its own.
PutBegin(p, i) ==
    /\ MayCall(p, "put")
    /\ i \notin Present
    /\ temp' = [temp EXCEPT ![p] = "partial"]
    /\ Enter(p, i, "write")
    /\ UNCHANGED file

\* write, flush, fsync.
PutWrite(p) ==
    /\ Advance(p, "write", "replace")
    /\ temp' = [temp EXCEPT ![p] = "whole"]
    /\ UNCHANGED file

\* os.replace: the target becomes the temporary file, whoever wrote it meanwhile.
PutReplace(p) ==
    /\ pc[p] = "replace"
    /\ file' = [file EXCEPT ![arg[p]] = temp[p]]
    /\ temp' = [temp EXCEPT ![p] = NoFile]
    /\ Return(p, "identity")

\* Bug: the temporary file of a failed write is not removed.
PutFailsUnclean(p) ==
    /\ "writeFails" \in Faults
    /\ pc[p] \in {"write", "replace"}
    /\ Return(p, "OSError")
    /\ UNCHANGED storeVars

\* The write or the replace raises: the temporary file is removed, the error goes on.
PutFails(p) ==
    /\ "writeFails" \in Faults
    /\ pc[p] \in {"write", "replace"}
    /\ temp' = [temp EXCEPT ![p] = NoFile]
    /\ Return(p, "OSError")
    /\ UNCHANGED file

-----------------------------------------------------------------------------
(***************************************************************************)
(* Reading: get_bytes tests for the file and then reads it; get tests once *)
(* more before it calls get_bytes.                                         *)
(***************************************************************************)

ReadMissing(p, i) ==
    /\ MayCall(p, "get") \/ MayCall(p, "getBytes")
    /\ i \notin Present
    /\ Return(p, "NotFound")
    /\ UNCHANGED storeVars

ReadBegin(p, i) ==
    /\ i \in Present
    /\ \/ MayCall(p, "get") /\ Enter(p, i, "reopen")
       \/ MayCall(p, "getBytes") /\ Enter(p, i, "read")
    /\ UNCHANGED storeVars

\* get is inside get_bytes: the file is tested for a second time.
ReadReopen(p) ==
    /\ pc[p] = "reopen"
    /\ IF arg[p] \in Present
         THEN Advance(p, "reopen", "read")
         ELSE Return(p, "NotFound")
    /\ UNCHANGED storeVars

\* What read_bytes and the comparison of hashes make of the file as it is now.
ReadOutcome(content) ==
    IF content = NoFile THEN "FileNotFoundError"
    ELSE IF content = "whole" THEN "bytes" ELSE "IntegrityError"

ReadBytes(p) ==
    /\ pc[p] = "read"
    /\ Return(p, ReadOutcome(file[arg[p]]))
    /\ UNCHANGED storeVars

-----------------------------------------------------------------------------
(***************************************************************************)
(* The environment: bytes on disk change from outside.                     *)
(***************************************************************************)
Damage(i) ==
    /\ "damage" \in Faults
    /\ i \in Present
    /\ \E c \in {"damaged", "empty"} : file' = [file EXCEPT ![i] = c]
    /\ UNCHANGED <<temp, procVars>>
=============================================================================
