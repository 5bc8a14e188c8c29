---------------------------- MODULE RemoteClient ----------------------------
(***************************************************************************)
(* The clients of a registry: RemoteStore (src/codifide/store/remote.py)   *)
(* with the local store it caches in, the resolution of a module's imports *)
(* through it, and the store commands that push and index                  *)
(* (src/codifide/__main__.py).  All clients share one local store.         *)
(*                                                                         *)
(* A call on the local store is one step here: SymbolStore has the steps   *)
(* inside.  After a request is sent the client waits for what the server's *)
(* thread, or the network, puts on its connection.                         *)
(***************************************************************************)
EXTENDS RegistryServer, Sequences

CONSTANTS
    Calls,    \* Calls[c]: the operations, with their identities, client c may begin
    Modules   \* the imports tables of the modules a client may run

Operations == {"get", "getBytes", "has", "run", "push", "post", "imports", "put", "index"}

ASSUME ClientAssumption ==
    /\ Calls \in [Clients -> SUBSET (Operations \X Identities)]
    /\ Modules \subseteq Seq(Identities) \ {<<>>}

VARIABLES
    local, \* local[i]: the bytes the local store holds under identity i
    call   \* call[c]: what client c is doing

clientVars == <<local, call>>

\* Results of a call.  "ConnectionError" is what urllib does not turn into an
\* HTTPError or URLError: a connection that is closed, or times out, while the
\* answer is awaited.
Errors == {"NotFound", "IntegrityError", "StoreError", "ConnectionError", "OSError",
           "CodifideError"}

Results == {"none", "bytes", "true", "false", "resolved", "identity",
            "unreadable", "pushed", "refused", "failed", "answered"} \union Errors

Call ==
    [at     : {"idle", "await", "cache", "reread", "next", "done"},
     op     : Operations,
     id     : Identities \union {NoId},
     todo   : Seq(Identities),       \* imports to resolve after this one
     data   : Identities \union {NoBytes},
     result : Results]

NoCall == [at |-> "idle", op |-> "get", id |-> NoId, todo |-> <<>>, data |-> NoBytes,
           result |-> "none"]

ClientTypeOK ==
    /\ local \in [Identities -> Identities \union {Damaged, NoBytes}]
    /\ call  \in [Clients -> Call]

ClientInit ==
    /\ local = [i \in Identities |-> NoBytes]
    /\ call  = [c \in Clients |-> NoCall]

Cached == {i \in Identities : local[i] # NoBytes}

MayCall(c, op, i) == call[c].at = "idle" /\ <<op, i>> \in Calls[c]

Began(op, i, todo) == [NoCall EXCEPT !.op = op, !.id = i, !.todo = todo]

\* A call that has begun as k ends.
End(c, k, result, data) ==
    call' = [call EXCEPT ![c] = [k EXCEPT !.at = "done", !.result = result, !.data = data]]

\* A request goes to a thread of its own, and the call k waits for the answer.
Send(c, k, method, form) ==
    /\ thread' = [thread EXCEPT ![c] =
                    [at |-> "start", method |-> method, id |-> k.id, form |-> form,
                     left |-> {}, missing |-> {}]]
    /\ call' = [call EXCEPT ![c] = [k EXCEPT !.at = "await"]]
    /\ wire' = [wire EXCEPT ![c] = NoAnswer]
    /\ UNCHANGED remote

Offline == UNCHANGED serverVars

\* An error leaves the call: the resolution of imports wraps whatever is raised.
Fail(c, k, error) == End(c, k, IF k.op = "run" THEN "CodifideError" ELSE error, NoBytes)

-----------------------------------------------------------------------------
(***************************************************************************)
(* Reading: get, get_bytes, and from_module, which gets each import.       *)
(***************************************************************************)
Begins(c, k) ==
    /\ MayCall(c, k.op, k.id)
    /\ IF k.op = "run" THEN <<k.id>> \o k.todo \in Modules ELSE k.todo = <<>>

\* The bytes of k.id are there and verified.  run wants one symbol in them, and
\* goes on to the next import.
Obtained(c, k) ==
    \/ /\ k.op # "run"
       /\ End(c, k, "bytes", k.id)
    \/ /\ k.op = "run" /\ Envelope[k.id] = NoId
       /\ End(c, k, "CodifideError", NoBytes)
    \/ /\ k.op = "run" /\ Envelope[k.id] # NoId /\ k.todo = <<>>
       /\ End(c, k, "resolved", k.id)
    \/ /\ k.op = "run" /\ Envelope[k.id] # NoId /\ k.todo # <<>>
       /\ call' = [call EXCEPT ![c] = [k EXCEPT !.at = "next", !.id = Head(k.todo),
                                                !.todo = Tail(k.todo), !.data = NoBytes]]

\* The local store has the object.
ReadCached(c, k) ==
    /\ k.id \in Cached
    /\ IF local[k.id] = k.id THEN Obtained(c, k) ELSE Fail(c, k, "IntegrityError")
    /\ UNCHANGED local /\ Offline

\* NotFound of the local store: the registry is asked.
Fetch(c, k) ==
    /\ k.id \notin Cached
    /\ Send(c, k, "GET", "cbor")
    /\ UNCHANGED local

ReadBegin(c) ==
    \E op \in {"get", "getBytes", "run"}, i \in Identities :
       \E todo \in {<<>>} \union {Tail(m) : m \in Modules} :
          /\ Begins(c, Began(op, i, todo))
          /\ ReadCached(c, Began(op, i, todo)) \/ Fetch(c, Began(op, i, todo))

\* The next import of a module: the local store first, then the registry.
ReadNext(c) ==
    /\ call[c].at = "next"
    /\ ReadCached(c, call[c]) \/ Fetch(c, call[c])

Awaits(c, op) == call[c].at = "await" /\ call[c].op \in op /\ wire[c].status # "none"

Fetching == {"get", "getBytes", "run"}

\* The answer is taken off the connection.
Taken(c) ==
    /\ wire' = [wire EXCEPT ![c] = NoAnswer]
    /\ UNCHANGED <<remote, thread>>

\* Bug: any error of HTTP is NotFound.
RaisedAbsent(status) == IF status = "closed" THEN "ConnectionError" ELSE "NotFound"

\* What an answer other than 200 raises.
Raised(status) ==
    CASE status = "404"    -> "NotFound"
      [] status = "closed" -> "ConnectionError"
      [] OTHER             -> "StoreError"

FetchFails(c) ==
    /\ Awaits(c, Fetching)
    /\ wire[c].status # "200"
    /\ Fail(c, call[c], Raised(wire[c].status))
    /\ Taken(c) /\ UNCHANGED local

\* The body has another hash, one cut short included: read returns what has come.
FetchRejected(c) ==
    /\ Awaits(c, Fetching)
    /\ wire[c].status = "200" /\ wire[c].body # call[c].id
    /\ Fail(c, call[c], "IntegrityError")
    /\ Taken(c) /\ UNCHANGED local

\* Bug: the bytes are cached before they are hashed.
FetchTrusted(c) ==
    /\ Awaits(c, Fetching)
    /\ wire[c].status = "200"
    /\ call' = [call EXCEPT ![c].at = "cache", ![c].data = wire[c].body]
    /\ Taken(c) /\ UNCHANGED local

FetchVerified(c) ==
    /\ Awaits(c, Fetching)
    /\ wire[c].status = "200" /\ wire[c].body = call[c].id
    /\ call' = [call EXCEPT ![c].at = "cache", ![c].data = wire[c].body]
    /\ Taken(c) /\ UNCHANGED local

\* _write_atomic: what is there stays as it is.  get_bytes returns what it has
\* fetched; get reads the local store again.
Cache(c) ==
    /\ call[c].at = "cache"
    /\ local' = IF call[c].id \in Cached THEN local
                                        ELSE [local EXCEPT ![call[c].id] = call[c].data]
    /\ IF call[c].op = "getBytes"
         THEN End(c, call[c], "bytes", call[c].data)
         ELSE call' = [call EXCEPT ![c].at = "reread"]
    /\ Offline

CacheFails(c) ==
    /\ "diskFull" \in Faults
    /\ call[c].at = "cache" /\ call[c].id \notin Cached
    /\ Fail(c, call[c], "OSError")
    /\ Offline /\ UNCHANGED local

\* Bug: an object that has gone again is fetched again.
RereadRetries(c) ==
    /\ call[c].at = "reread"
    /\ IF call[c].id \in Cached
         THEN ReadCached(c, call[c])
         ELSE /\ call' = [call EXCEPT ![c].at = "next", ![c].data = NoBytes]
              /\ Offline /\ UNCHANGED local

\* The second local.get: by now the object may be gone, or damaged.
Reread(c) ==
    /\ call[c].at = "reread"
    /\ IF call[c].id \in Cached
         THEN ReadCached(c, call[c])
         ELSE Fail(c, call[c], "NotFound") /\ Offline /\ UNCHANGED local

-----------------------------------------------------------------------------
(***************************************************************************)
(* has, and what needs no verification.                                    *)
(***************************************************************************)
HasBegin(c) ==
    \E i \in Identities :
       /\ MayCall(c, "has", i)
       /\ IF i \in Cached
            THEN End(c, Began("has", i, <<>>), "true", NoBytes) /\ Offline
            ELSE Send(c, Began("has", i, <<>>), "HEAD", "cbor")
       /\ UNCHANGED local

HasAnswered(c) ==
    /\ Awaits(c, {"has"})
    /\ End(c, call[c], CASE wire[c].status = "200" -> "true"
                         [] wire[c].status = "404" -> "false"
                         [] OTHER                  -> Raised(wire[c].status), NoBytes)
    /\ Taken(c) /\ UNCHANGED local

\* put of RemoteStore and store put write a symbol to the local store only,
\* store index an index; what is there stays as it is.
WriteLocal(c, op, S) ==
    \E i \in S :
       /\ MayCall(c, op, i)
       /\ End(c, Began(op, i, <<>>), "identity", NoBytes)
       /\ local' = IF i \in Cached THEN local ELSE [local EXCEPT ![i] = i]
       /\ Offline

PutLocal(c)   == WriteLocal(c, "put", {i \in Standard : Envelope[i] # NoId})
IndexLocal(c) == WriteLocal(c, "index", {i \in Standard : Envelope[i] = NoId})

-----------------------------------------------------------------------------
(***************************************************************************)
(* store push, and the requests agents make without a RemoteStore: a POST  *)
(* of JSON, GET of the imports (docs/RPC_API.md).                          *)
(***************************************************************************)
PushBegin(c) ==
    \E i \in Identities :
       /\ MayCall(c, "push", i)
       /\ IF local[i] = i
            THEN Send(c, Began("push", i, <<>>), "POST", "cbor")
            ELSE End(c, Began("push", i, <<>>), "unreadable", NoBytes) /\ Offline
       /\ UNCHANGED local

PostBegin(c) ==
    \E i \in Identities :
       /\ MayCall(c, "post", i)
       /\ Send(c, Began("post", i, <<>>), "POST", Form[i])
       /\ UNCHANGED local

ImportsBegin(c) ==
    \E i \in Identities :
       /\ MayCall(c, "imports", i)
       /\ Send(c, Began("imports", i, <<>>), "IMPORTS", "cbor")
       /\ UNCHANGED local

\* The identity in the answer must be the one that was pushed.
PushAnswered(c) ==
    /\ Awaits(c, {"push"})
    /\ End(c, call[c], CASE wire[c].status = "closed" -> "ConnectionError"
                         [] wire[c].status = "200"    ->
                              IF wire[c].body = call[c].id THEN "pushed" ELSE "refused"
                         [] OTHER                     -> "failed", NoBytes)
    /\ Taken(c) /\ UNCHANGED local

AgentAnswered(c) ==
    /\ Awaits(c, {"post", "imports"})
    /\ End(c, call[c], "answered", NoBytes)
    /\ Taken(c) /\ UNCHANGED local

-----------------------------------------------------------------------------
\* The caller has its result.
Return(c) ==
    /\ call[c].at = "done"
    /\ call' = [call EXCEPT ![c] = NoCall]
    /\ UNCHANGED local /\ Offline

Begin(c) ==
    \/ ReadBegin(c) \/ HasBegin(c) \/ PutLocal(c) \/ IndexLocal(c)
    \/ PushBegin(c) \/ PostBegin(c) \/ ImportsBegin(c)

Continue(c) ==
    \/ ReadNext(c) \/ FetchFails(c) \/ FetchRejected(c) \/ FetchVerified(c)
    \/ Cache(c) \/ Reread(c)
    \/ HasAnswered(c) \/ PushAnswered(c) \/ AgentAnswered(c)
    \/ Return(c)
=============================================================================
