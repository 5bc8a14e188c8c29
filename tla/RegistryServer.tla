--------------------------- MODULE RegistryServer ---------------------------
(***************************************************************************)
(* The registry server (src/codifide/server.py) over a directory of object *)
(* files or over a blob service (src/codifide/store/blob_store.py).        *)
(*                                                                         *)
(* Every request has a thread of its own, and threads share the store.  A  *)
(* step is one access to the store, with the code of the handler up to the *)
(* next access or to the answer.                                           *)
(*                                                                         *)
(* Abstractions.  An identity is the hash of a byte string, and stands for *)
(* that byte string too: verifying bytes is comparing them with the        *)
(* identity.  What the bytes hold is given by constants.  Sizes, routing   *)
(* of malformed paths, error texts and an Accept header that asks for JSON *)
(* (no client in the repository sends one) are left out.  SymbolStore has  *)
(* what happens between the steps of an atomic write.                      *)
(***************************************************************************)
EXTENDS Reachability

CONSTANTS
    Form,     \* Form[i]: the wire form of the bytes, "cbor" or "json"
    Cbor,     \* Cbor[i]: the canonical CBOR bytes of the object the bytes decode to
    Envelope, \* Envelope[i]: the bytes put makes of its only symbol; NoId: none, or several
    NoId,
    Clients,
    Strays,   \* bound: threads at work for clients that have gone
    Faults    \* what may go wrong

Forms     == {"cbor", "json"}
Backends  == {"files", "blob"}
FaultKinds == {"blobFails", "diskFull", "lose", "cut", "forge", "damage", "restart"}

(***************************************************************************)
(* Bytes that are those of no identity in play: what a disk fault makes of *)
(* them, and any other bytes; and no bytes at all.                         *)
(***************************************************************************)
Damaged == "damaged"
Foreign == "foreign"
NoBytes == "no bytes"

ASSUME EncodingAssumption ==
    /\ Form     \in [Identities -> Forms]
    /\ Cbor     \in [Identities -> Identities \union {Foreign}]
    /\ Envelope \in [Identities -> Identities \union {NoId}]
    /\ \A i \in Identities : Form[i] = "cbor" <=> Cbor[i] = i
    /\ \A i \in Identities :
          Envelope[i] # NoId => Form[Envelope[i]] = "cbor" /\ Envelope[Envelope[i]] = Envelope[i]

ASSUME MarkersAssumption ==
    /\ {NoId, Damaged, Foreign, NoBytes} \intersect Identities = {}
    /\ Clients \intersect Strays = {}
    /\ Faults \subseteq FaultKinds

\* A client waits for one answer at a time: the thread that works for it goes by
\* its name.
Threads == Clients \union Strays

VARIABLES
    remote,   \* remote[i]: the bytes the server's store holds under identity i
    thread,   \* thread[t]: the request thread t is handling
    wire,     \* wire[c]: the answer on the connection of client c
    backend,  \* what the store is made of
    readOnly, \* the server was started with --read-only
    faults    \* how many faults have happened

serverVars == <<remote, thread, wire>>
configVars == <<backend, readOnly>>

Stored == {i \in Identities : remote[i] # NoBytes}

Methods == {"POST", "GET", "HEAD", "IMPORTS"}

Request ==
    [at     : {"start", "url", "read", "targets", "put", "write"},
     method : Methods,
     id     : Identities,              \* the identity asked for, the body posted
     form   : Forms,                   \* the content type of the body
     left   : SUBSET Identities,       \* import targets not yet looked up
     missing: SUBSET Identities]       \* import targets looked up in vain

NoRequest == [at |-> "idle"]

Statuses == {"none", "200", "400", "404", "405", "500", "closed"}

Answer ==
    [status : Statuses, body : Identities \union {Damaged, Foreign, NoBytes}, missing : SUBSET Identities]

Response(status, body, missing) == [status |-> status, body |-> body, missing |-> missing]

NoAnswer == Response("none", NoBytes, {})

ServerTypeOK ==
    /\ remote   \in [Identities -> Identities \union {Damaged, NoBytes}]
    /\ thread   \in [Threads -> Request \union {NoRequest}]
    /\ wire     \in [Clients -> Answer]
    /\ backend  \in Backends
    /\ readOnly \in BOOLEAN

\* What the commands of the repository put in a store: the standard envelope of
\* a symbol or an index, in one of the two forms.
Standard == {i \in Identities : Envelope[i] \in {Cbor[i], NoId}}

Contents(S) == {f \in [Identities -> Identities \union {NoBytes}] :
                  \A i \in Identities : f[i] = NoBytes \/ (i \in S /\ f[i] = i)}

\* A blob service is given symbols in CBOR only.
InBackend == IF backend = "files" THEN Standard
                                  ELSE {i \in Standard : Envelope[i] = i}

ServerInit ==
    /\ backend  \in Backends
    /\ remote   \in Contents(InBackend)
    /\ thread   = [t \in Threads |-> NoRequest]
    /\ wire     = [c \in Clients |-> NoAnswer]
    /\ readOnly \in BOOLEAN

At(t, method, place) ==
    thread[t] # NoRequest /\ thread[t].method \in method /\ thread[t].at = place

Goto(t, place) == thread' = [thread EXCEPT ![t].at = place]

\* The answer is written to the connection, if the client still holds it, and
\* the thread ends.
Reply(t, status, body) ==
    /\ thread' = [thread EXCEPT ![t] = NoRequest]
    /\ wire'   = [c \in Clients |->
                    IF c = t THEN Response(status, body, thread[t].missing) ELSE wire[c]]

\* An exception that no handler catches: the thread ends, the connection is closed.
Uncaught(t) == Reply(t, "closed", NoBytes)

Keep       == UNCHANGED remote
Unanswered == UNCHANGED <<remote, wire>>

\* A call of the blob service fails.
BlobFault == backend = "blob" /\ "blobFails" \in Faults

-----------------------------------------------------------------------------
(***************************************************************************)
(* POST /symbols.                                                          *)
(***************************************************************************)

PostForbidden(t) ==
    /\ At(t, {"POST"}, "start")
    /\ readOnly
    /\ Reply(t, "405", NoBytes) /\ Keep

\* The body decodes to a module of exactly one symbol.
Acceptable(t) == Form[thread[t].id] = thread[t].form /\ Envelope[thread[t].id] # NoId

PostInvalid(t) ==
    /\ At(t, {"POST"}, "start")
    /\ ~readOnly /\ ~Acceptable(t)
    /\ Reply(t, "400", NoBytes) /\ Keep

\* Bug: the guard of do_POST is missing.
PostDecodedUnguarded(t) ==
    /\ At(t, {"POST"}, "start")
    /\ Acceptable(t)
    /\ thread' = [thread EXCEPT ![t].at = "put", ![t].id = Envelope[@]]
    /\ Unanswered

\* The symbol is taken out of the module it came in; from here on the thread is
\* about the standard envelope of that symbol.
PostDecoded(t) ==
    /\ At(t, {"POST"}, "start")
    /\ ~readOnly /\ Acceptable(t)
    /\ thread' = [thread EXCEPT ![t].at = "put", ![t].id = Envelope[@]]
    /\ Unanswered

\* put, first access: the path exists, or head finds the blob.
PutPresent(t) ==
    /\ At(t, {"POST"}, "put")
    /\ thread[t].id \in Stored
    /\ Reply(t, "200", thread[t].id) /\ Keep

\* Bug: the identity is returned before the bytes are there.
PutAbsentAnswered(t) ==
    /\ At(t, {"POST"}, "put")
    /\ thread[t].id \notin Stored
    /\ Reply(t, "200", thread[t].id) /\ Keep

PutAbsent(t) ==
    /\ At(t, {"POST"}, "put")
    /\ thread[t].id \notin Stored
    /\ Goto(t, "write") /\ Unanswered

Publish(i) == remote' = [remote EXCEPT ![i] = i]

\* Bug: a file that has appeared since the test is an error.
PutWriteExclusive(t) ==
    /\ At(t, {"POST"}, "write")
    /\ IF thread[t].id \in Stored
         THEN Reply(t, "500", NoBytes) /\ Keep
         ELSE Reply(t, "200", thread[t].id) /\ Publish(thread[t].id)

\* put, second access.  os.replace takes whatever is there; an upload with
\* allowOverwrite False fails when the blob has appeared since the test.
PutWrite(t) ==
    /\ At(t, {"POST"}, "write")
    /\ IF backend = "blob" /\ thread[t].id \in Stored
         THEN Reply(t, "500", NoBytes) /\ Keep
         ELSE Reply(t, "200", thread[t].id) /\ Publish(thread[t].id)

\* The blob service fails while put asks for the blob: has raises StoreError, or
\* takes an error that mentions 404 or "not found" for the absence of the blob.
PutLookFails(t) ==
    /\ BlobFault
    /\ At(t, {"POST"}, "put")
    /\ \/ Reply(t, "500", NoBytes) /\ Keep
       \/ Goto(t, "write") /\ Unanswered

\* It fails during the upload: put raises StoreError, and the bytes may have arrived.
PutFails(t) ==
    /\ BlobFault
    /\ At(t, {"POST"}, "write")
    /\ Reply(t, "500", NoBytes)
    /\ Keep \/ (thread[t].id \notin Stored /\ Publish(thread[t].id))

\* The disk fails: put raises OSError, which _post_symbol does not catch.
DiskFails(t) ==
    /\ backend = "files" /\ "diskFull" \in Faults
    /\ At(t, {"POST"}, "write")
    /\ Uncaught(t) /\ Keep

-----------------------------------------------------------------------------
(***************************************************************************)
(* GET /symbols/<identity> and, up to the object, its imports.             *)
(***************************************************************************)
Reading == {"GET", "IMPORTS"}

\* get, first access: no path exists, or head finds no blob.
GetMissing(t) ==
    /\ At(t, Reading, "start")
    /\ thread[t].id \notin Stored
    /\ Reply(t, "404", NoBytes) /\ Keep

GetFound(t) ==
    /\ At(t, Reading, "start")
    /\ thread[t].id \in Stored
    /\ Goto(t, IF backend = "blob" THEN "url" ELSE "read") /\ Unanswered

\* BlobStore.get_bytes asks head a second time, for the address of the blob:
\* now a blob that is not there is an error of the store.
GetUrl(t) ==
    /\ At(t, Reading, "url")
    /\ IF thread[t].id \in Stored
         THEN Goto(t, "read") /\ Unanswered
         ELSE Reply(t, "500", NoBytes) /\ Keep

\* Bug: the bytes are served without being rehashed.
GetReadUnverified(t) ==
    /\ At(t, {"GET"}, "read")
    /\ thread[t].id \in Stored
    /\ Reply(t, "200", IF remote[thread[t].id] = Damaged THEN Damaged ELSE Cbor[thread[t].id])
    /\ Keep

\* The bytes are read and rehashed, decoded, and encoded again as CBOR.
GetRead(t) ==
    /\ At(t, {"GET"}, "read")
    /\ thread[t].id \in Stored
    /\ IF remote[thread[t].id] = thread[t].id
         THEN Reply(t, "200", Cbor[thread[t].id])
         ELSE Reply(t, "500", NoBytes)
    /\ Keep

\* The object has gone since it was found: get_bytes tests once more and raises
\* NotFound, or it is at open, whose FileNotFoundError nobody catches.
GetVanished(t) ==
    /\ At(t, Reading, "read")
    /\ thread[t].id \notin Stored
    /\ \/ Reply(t, "404", NoBytes)
       \/ backend = "files" /\ Uncaught(t)
    /\ Keep

\* The blob service fails: the first head has the error that has makes of it, the
\* second is an error of the store.  A download answered with 404 is NotFound, and
\* one that takes longer than 30 seconds once it has begun is caught nowhere.
GetFails(t) ==
    /\ BlobFault
    /\ \/ \E place \in {"start", "url", "read"} :
             At(t, Reading, place) /\ Reply(t, "500", NoBytes)
       \/ \E place \in {"start", "read"} :
             At(t, Reading, place) /\ Reply(t, "404", NoBytes)
       \/ At(t, Reading, "read") /\ Uncaught(t)
    /\ Keep

\* _get_imports has the module: its targets are looked up one by one.
ImportsRead(t) ==
    /\ At(t, {"IMPORTS"}, "read")
    /\ thread[t].id \in Stored
    /\ IF remote[thread[t].id] = thread[t].id
         THEN /\ thread' = [thread EXCEPT ![t].at = "targets", ![t].left = Imports[thread[t].id]]
              /\ Unanswered
         ELSE Reply(t, "500", NoBytes) /\ Keep

\* has of one target.  Only a directory of files holds objects with imports, and
\* its has does not fail.
ImportsLookUp(t) ==
    /\ At(t, {"IMPORTS"}, "targets")
    /\ \E i \in thread[t].left :
          thread' = [thread EXCEPT ![t].left = @ \ {i},
                                    ![t].missing = @ \union ({i} \ Stored)]
    /\ Unanswered

ImportsAnswer(t) ==
    /\ At(t, {"IMPORTS"}, "targets")
    /\ thread[t].left = {}
    /\ Reply(t, "200", NoBytes) /\ Keep

-----------------------------------------------------------------------------
(***************************************************************************)
(* HEAD /symbols/<identity>.                                               *)
(***************************************************************************)
HeadAnswer(t) ==
    /\ At(t, {"HEAD"}, "start")
    /\ Reply(t, IF thread[t].id \in Stored THEN "200" ELSE "404", NoBytes) /\ Keep

\* has raises StoreError, which do_HEAD does not catch, or takes the error for the
\* absence of the blob.
HeadFails(t) ==
    /\ BlobFault
    /\ At(t, {"HEAD"}, "start")
    /\ Uncaught(t) \/ Reply(t, "404", NoBytes)
    /\ Keep

-----------------------------------------------------------------------------
\* A thread goes on with its request; the steps below it are those a fault causes.
Handle(t) ==
    \/ PostForbidden(t) \/ PostInvalid(t) \/ PostDecoded(t)
    \/ PutPresent(t) \/ PutAbsent(t) \/ PutWrite(t)
    \/ GetMissing(t) \/ GetFound(t) \/ GetUrl(t) \/ GetRead(t) \/ GetVanished(t)
    \/ ImportsRead(t) \/ ImportsLookUp(t) \/ ImportsAnswer(t)
    \/ HeadAnswer(t)

HandleFails(t) ==
    PutLookFails(t) \/ PutFails(t) \/ DiskFails(t) \/ GetFails(t) \/ HeadFails(t)

\* What has failed when a step of HandleFails is taken.
ServerFault == IF backend = "blob" THEN "blobFails" ELSE "diskFull"
=============================================================================
