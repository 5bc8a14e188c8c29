------------------------------ MODULE Registry ------------------------------
(***************************************************************************)
(* A registry server, its clients, and what may happen to them: garbage is *)
(* collected on either side, disks and blob services fail, connections     *)
(* break before, during and after the handling of a request, the server    *)
(* restarts, and a registry answers with bytes of its own.                 *)
(***************************************************************************)
EXTENDS RemoteClient, Naturals

CONSTANTS
    MaxFaults, \* bound: faults in one behaviour
    Fragile    \* bound: the objects that disks damage

ASSUME FaultsAssumption == MaxFaults \in Nat /\ Fragile \subseteq Identities

VARIABLES
    gap,  \* history: gap[c]: what c's call looks for and was missing at some moment of it
    held, \* history: the clients whose object the registry has held since they began to push it
    met   \* history: met[c]: the faults that c's call has met

histVars == <<gap, held, met>>
vars     == <<serverVars, configVars, clientVars, faults, histVars>>

Init ==
    /\ ServerInit /\ ClientInit
    /\ faults = 0
    /\ gap    = [c \in Clients |-> {}]
    /\ held   = {}
    /\ met    = [c \in Clients |-> {}]

\* The objects a call says are missing when they are.
Sought(k) == IF k.op = "imports" THEN Imports[k.id] ELSE {k.id}

\* What every step leaves alone, and what it shows to the calls under way.
Observe ==
    /\ UNCHANGED configVars
    /\ gap' = [c \in Clients |->
                 IF call'[c].at = "idle" \/ call'[c].op \in {"run", "post", "put", "index"} THEN {}
                 ELSE {i \in Sought(call'[c]) :
                        \/ i \in gap[c] \/ remote'[i] = NoBytes
                        \/ call[c].at = "reread" /\ local'[i] = NoBytes}]
    /\ held' = {c \in Clients : /\ call'[c].at # "idle" /\ call'[c].op = "push"
                                /\ c \in held \/ remote'[call'[c].id] # NoBytes}

CountFault == faults < MaxFaults /\ faults' = faults + 1

\* The calls of the clients in S meet a fault of a kind.
Meet(S, kind) ==
    met' = [c \in Clients |-> IF c \in S THEN met[c] \union {kind} ELSE met[c]]

Fault(S, kind) == kind \in Faults /\ CountFault /\ Meet(S, kind)

NoFault == UNCHANGED faults

-----------------------------------------------------------------------------
Enter(c) ==
    /\ Begin(c)
    /\ NoFault
    /\ UNCHANGED met
    /\ Observe

Proceed(c) ==
    /\ Continue(c)
    /\ NoFault
    /\ met' = IF call[c].at = "done" THEN [met EXCEPT ![c] = {}] ELSE met
    /\ Observe

Serve(t) ==
    /\ Handle(t)
    /\ NoFault
    /\ UNCHANGED <<clientVars, met>>
    /\ Observe

Breaks ==
    /\ \/ \E t \in Threads : /\ HandleFails(t) /\ UNCHANGED clientVars
                            /\ Meet({t}, ServerFault)
       \/ \E c \in Clients : CacheFails(c) /\ Meet({c}, "diskFull")
    /\ CountFault
    /\ Observe

\* A collection on either side removes an object: any object, StoreContract says
\* which ones a collection with given roots may take.
Collect(i) ==
    /\ \/ i \in Stored /\ remote' = [remote EXCEPT ![i] = NoBytes] /\ UNCHANGED local
       \/ i \in Cached /\ local'  = [local  EXCEPT ![i] = NoBytes] /\ UNCHANGED remote
    /\ NoFault
    /\ UNCHANGED <<thread, wire, call, met>>
    /\ Observe

DamageLocal(i) ==
    /\ Fault({}, "damage")
    /\ i \in Cached \intersect Fragile
    /\ local' = [local EXCEPT ![i] = Damaged]
    /\ UNCHANGED <<serverVars, call>>
    /\ Observe

DamageRemote(i) ==
    /\ Fault({}, "damage")
    /\ i \in Stored \intersect Fragile
    /\ remote' = [remote EXCEPT ![i] = Damaged]
    /\ UNCHANGED <<thread, wire, clientVars>>
    /\ Observe

\* Whoever answers under the registry's name answers with other bytes, or names
\* another identity.
Forge(c) ==
    /\ Fault({c}, "forge")
    /\ wire[c].status = "200" /\ wire[c].body # NoBytes
    /\ \E b \in Identities \union {Foreign} : wire' = [wire EXCEPT ![c].body = b]
    /\ UNCHANGED <<remote, thread, clientVars>>
    /\ Observe

\* The connection is closed inside the body of an answer: a read with a limit
\* returns what has come so far, and raises nothing.
CutOff(c) ==
    /\ Fault({c}, "cut")
    /\ wire[c].status = "200" /\ wire[c].body # NoBytes
    /\ wire' = [wire EXCEPT ![c].body = Foreign]
    /\ UNCHANGED <<remote, thread, clientVars>>
    /\ Observe

\* The exception that ends a call that waits, as the caller sees it.
GiveUp(c, error) ==
    Fail(c, call[c], IF call[c].op = "push" /\ error = "StoreError" THEN "failed" ELSE error)

\* The request never reaches the server: URLError.
Unreachable(c) ==
    /\ Fault({c}, "lose")
    /\ thread[c] # NoRequest /\ thread[c].at = "start"
    /\ thread' = [thread EXCEPT ![c] = NoRequest]
    /\ GiveUp(c, "StoreError")
    /\ UNCHANGED <<remote, wire, local>>
    /\ Observe

\* The thread of a client that has gone works on as a stray, unless it only reads:
\* then it changes nothing any more.
Abandon(c) ==
    IF thread[c] # NoRequest /\ thread[c].method = "POST"
      THEN \E t \in Strays :
             /\ thread[t] = NoRequest
             /\ thread' = [thread EXCEPT ![c] = NoRequest, ![t] = thread[c]]
      ELSE thread' = [thread EXCEPT ![c] = NoRequest]

\* The connection breaks, or 30 seconds pass: an answer on its way is lost, and
\* the thread goes on without its client.
Disconnect(c) ==
    /\ Fault({c}, "lose")
    /\ call[c].at = "await"
    /\ Abandon(c)
    /\ wire' = [wire EXCEPT ![c] = NoAnswer]
    /\ GiveUp(c, "ConnectionError")
    /\ UNCHANGED <<remote, local>>
    /\ Observe

\* The server dies and starts again: its threads are gone, the store is not.
Restart ==
    /\ Fault({c \in Clients : thread[c] # NoRequest}, "restart")
    /\ thread' = [t \in Threads |-> NoRequest]
    /\ wire' = [c \in Clients |->
                  IF thread[c] # NoRequest THEN Response("closed", NoBytes, {}) ELSE wire[c]]
    /\ UNCHANGED <<remote, clientVars>>
    /\ Observe

Environment ==
    \/ Breaks \/ Restart
    \/ \E i \in Identities : Collect(i) \/ DamageLocal(i) \/ DamageRemote(i)
    \/ \E c \in Clients : Forge(c) \/ CutOff(c) \/ Unreachable(c) \/ Disconnect(c)

Next ==
    \/ \E c \in Clients : Enter(c) \/ Proceed(c)
    \/ \E t \in Threads : Serve(t)
    \/ Environment

Spec == Init /\ [][Next]_vars

\* Clients and threads are run by their operating systems.
Fairness ==
    /\ \A c \in Clients : WF_call(Proceed(c))
    /\ \A t \in Threads : WF_thread(Serve(t))

FairSpec == Spec /\ Fairness

-----------------------------------------------------------------------------
(***************************************************************************)
(* Properties.                                                             *)
(***************************************************************************)
TypeOK ==
    /\ ServerTypeOK /\ ClientTypeOK
    /\ faults \in 0..MaxFaults
    /\ gap  \in [Clients -> SUBSET Identities]
    /\ held \subseteq Clients
    /\ met  \in [Clients -> SUBSET FaultKinds]

Ended(c, results) == call[c].at = "done" /\ call[c].result \in results

\* Whatever a registry or a network answers, in whatever order, and whichever
\* call is retried: what a store holds under an identity are its bytes, or bytes
\* its own disk has damaged, and what a read returns are its bytes.
OnlyVerifiedBytes ==
    /\ \A i \in Identities : local[i] \in {i, Damaged, NoBytes} /\ remote[i] \in {i, Damaged, NoBytes}
    /\ \A c \in Clients : Ended(c, {"bytes"}) => call[c].data = call[c].id

\* When a push reports success, the registry it talked to has held the object at
\* some moment since the push began, whatever became of other pushes of it.
PushedIsPublished ==
    \A c \in Clients : Ended(c, {"pushed"}) /\ "forge" \notin met[c] => c \in held

\* A push of a symbol that meets no fault of its own is accepted, whatever the
\* threads of other pushes, abandoned ones included, and earlier faults have left:
\* a retry, and a push of what is there already.  The one exception is the code's,
\* not that of the documents, which promise 200 to a second push: a blob service
\* refuses the upload of a symbol that was not there when put looked and came
\* before put wrote.
PushAccepted ==
    \A c \in Clients :
        /\ ~readOnly /\ met[c] = {}
        /\ call[c].op = "push" /\ call[c].id # NoId /\ Envelope[call[c].id] = call[c].id
        /\ Ended(c, {"refused", "failed", "ConnectionError"})
        => backend = "blob" /\ c \in held /\ call[c].id \in gap[c]

\* A get that ends in NotFound, a has that ends in false and an import reported
\* missing tell the truth: at some moment of the call the registry did not have
\* the object, or the cache lost it after get had put it there.  Not so when the
\* blob service failed in the call: BlobStore.has takes some of its errors for
\* absence, which its own comment rules out.
AbsenceIsTrue ==
    \A c \in Clients :
        /\ Ended(c, {"NotFound", "false"}) /\ "blobFails" \notin met[c] => call[c].id \in gap[c]
        /\ wire[c].missing \subseteq gap[c]

\* An IntegrityError is never a false alarm: the answer was forged or cut off, the
\* local disk was damaged, or the identity is that of a JSON form, for which the
\* server sends CBOR.
IntegrityErrorsAreReal ==
    [][\A c \in Clients :
          call[c].at # "done" /\ Ended(c, {"IntegrityError"})' =>
              \/ met[c] \intersect {"forge", "cut"} # {}
              \/ local[call'[c].id] = Damaged
              \/ Form[call'[c].id] = "json"]_vars

\* Requests add nothing to a registry that is read-only.
ReadOnlyKept == [][readOnly => \A i \in Identities : remote[i] = NoBytes => remote'[i] = NoBytes]_vars

\* Every call ends, even one whose server dies.
CallsEnd == \A c \in Clients : call[c].at # "idle" ~> call[c].at = "idle"
=============================================================================
