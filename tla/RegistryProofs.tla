--------------------------- MODULE RegistryProofs ---------------------------
(***************************************************************************)
(* Proofs about the registry, its clients and their caches, for any        *)
(* objects, encodings, clients, calls, modules, faults and bounds.         *)
(***************************************************************************)
EXTENDS Registry, TLAPS

-----------------------------------------------------------------------------
(***************************************************************************)
(* The inductive invariant.                                                *)
(***************************************************************************)

\* The request a call makes.
MethodOf(op) ==
    CASE op \in Fetching         -> "GET"
      [] op = "has"              -> "HEAD"
      [] op \in {"push", "post"} -> "POST"
      [] OTHER                   -> "IMPORTS"

\* A call knows what it is about, carries verified bytes only, and goes through
\* the cache if it reads.
CallInv(c) ==
    /\ call[c].at # "idle" => call[c].id \in Identities
    /\ call[c].at = "cache" => call[c].op \in Fetching /\ call[c].data = call[c].id
    /\ call[c].at = "reread" => call[c].op \in Fetching
    /\ call[c].at = "next" => call[c].op = "run"
    /\ call[c].at = "await" => call[c].op \notin {"put", "index"}
    /\ Ended(c, {"bytes"}) => call[c].data = call[c].id

\* A thread or an answer belongs to a call that waits for it, the thread works on
\* what was asked, and there is no answer before the thread has ended.
ConnectionInv(c) ==
    /\ call[c].at # "await" => thread[c] = NoRequest /\ wire[c] = NoAnswer
    /\ wire[c].status = "none" => wire[c] = NoAnswer
    /\ thread[c] # NoRequest =>
          /\ wire[c] = NoAnswer
          /\ thread[c].method = MethodOf(call[c].op)
          /\ thread[c].method # "POST" => thread[c].id = call[c].id
          /\ thread[c].method # "IMPORTS" => thread[c].missing = {}
          /\ thread[c].method = "IMPORTS" => thread[c].left \subseteq Imports[call[c].id]
          /\ thread[c].missing \subseteq gap[c]

\* What an answer says is true, unless it is forged, cut off, or an error of the blob
\* service taken for absence.
AnswerInv(c) ==
    /\ wire[c].missing \subseteq gap[c]
    /\ wire[c].status = "404" /\ call[c].op \in {"get", "getBytes", "has"}
       /\ "blobFails" \notin met[c] => call[c].id \in gap[c]
    /\ wire[c].status = "200" /\ "forge" \notin met[c] =>
          /\ call[c].op \in Fetching => wire[c].body = Cbor[call[c].id] \/ "cut" \in met[c]
          /\ call[c].op = "push" /\ wire[c].body = call[c].id => c \in held

\* What was missing is what the call looks for; what a get has cached is there, or
\* was collected; NotFound and false are about something that was missing.
AbsenceInv(c) ==
    /\ gap[c] \subseteq Sought(call[c])
    /\ call[c].op \in {"get", "getBytes", "has", "push", "imports"} \/ gap[c] = {}
    /\ call[c].at = "reread" /\ call[c].op # "run" => call[c].id \in Cached \union gap[c]
    /\ Ended(c, {"NotFound", "false"}) /\ "blobFails" \notin met[c] => call[c].id \in gap[c]

\* The symbol a client pushes came into a blob service after it was looked for.
Overtaken(c) == backend = "blob" /\ c \in held /\ call[c].id \in gap[c]

\* A push of a symbol that has met no fault is on its way, or was taken, or was
\* overtaken.
PushInv(c) ==
    met[c] = {} /\ ~readOnly /\ call[c].op = "push" /\ Envelope[call[c].id] = call[c].id =>
        /\ thread[c] # NoRequest =>
              /\ thread[c].id = call[c].id /\ thread[c].form = "cbor"
              /\ thread[c].at = "write" => call[c].id \in gap[c]
        /\ \/ wire[c].status = "none"
           \/ wire[c].status = "200" /\ wire[c].body = call[c].id
           \/ wire[c].status = "500" /\ Overtaken(c)
        /\ Ended(c, {"refused", "failed", "ConnectionError"}) => Overtaken(c)

\* A store holds the bytes of an identity under it, or bytes a fault has damaged.
StoresInv ==
    \A i \in Identities : local[i] \in {i, Damaged, NoBytes} /\ remote[i] \in {i, Damaged, NoBytes}

\* A request that has only begun to be handled, or that only reads.
Harmless(t) ==
    thread[t] # NoRequest => thread[t].method # "POST" \/ thread[t].at = "start"

\* What holds of one client, its thread and its connection.
ClientInv(c) ==
    /\ ConnectionInv(c) /\ AnswerInv(c) /\ AbsenceInv(c) /\ PushInv(c)
    /\ Ended(c, {"pushed"}) => call[c].op = "push" /\ ("forge" \notin met[c] => c \in held)

Inv ==
    /\ TypeOK /\ StoresInv
    /\ readOnly => \A t \in Threads : Harmless(t)
    /\ \A c \in Clients : CallInv(c) /\ ClientInv(c)

-----------------------------------------------------------------------------
(***************************************************************************)
(* Types.                                                                  *)
(***************************************************************************)
ServerVarsOK ==
    /\ remote \in [Identities -> Identities \union {Damaged, NoBytes}]
    /\ thread \in [Threads -> Request \union {NoRequest}]
    /\ wire   \in [Clients -> Answer]

\* The end of a request keeps the types of threads and connections.
LEMMA ReplyType ==
    ASSUME ServerVarsOK, NEW t \in Threads, thread[t] # NoRequest,
           NEW status \in Statuses, NEW body \in Identities \union {Damaged, Foreign, NoBytes},
           Reply(t, status, body)
    PROVE  /\ thread' \in [Threads -> Request \union {NoRequest}]
           /\ wire' \in [Clients -> Answer]
<1>1. thread[t] \in Request
  BY DEF ServerVarsOK
<1>2. Response(status, body, thread[t].missing) \in Answer
  BY <1>1 DEF Response, Answer, Request
<1>3. QED
  BY <1>2 DEF ServerVarsOK, Reply

\* So does a thread that goes on.
LEMMA HandleType ==
    ASSUME ServerVarsOK, NEW t \in Threads, Handle(t) \/ HandleFails(t)
    PROVE  ServerVarsOK'
<1> USE DEF Keep, Unanswered
<1>0. thread[t] # NoRequest /\ thread[t] \in Request
  BY DEF ServerVarsOK, Handle, HandleFails, At, Reading, PostForbidden, PostInvalid, PostDecoded,
         PutPresent, PutAbsent, PutWrite, GetMissing, GetFound, GetUrl, GetRead, GetVanished,
         ImportsRead, ImportsLookUp, ImportsAnswer, HeadAnswer, PutLookFails, PutFails, DiskFails, GetFails,
         HeadFails
<1>1. thread[t].id \in Identities
  BY <1>0 DEF Request
<1>2. ASSUME NEW at \in {"start", "url", "read", "targets", "put", "write"}, Goto(t, at), Unanswered
      PROVE  ServerVarsOK'
  BY <1>0, <1>2 DEF ServerVarsOK, Goto, Request
<1>3. ASSUME NEW status \in Statuses, NEW body \in Identities \union {Damaged, Foreign, NoBytes},
             Reply(t, status, body), Keep \/ Publish(thread[t].id)
      PROVE  ServerVarsOK'
  <2>1. remote' \in [Identities -> Identities \union {Damaged, NoBytes}]
    BY <1>1, <1>3 DEF ServerVarsOK, Publish
  <2>2. QED
    BY <1>0, <1>3, <2>1, ReplyType DEF ServerVarsOK
<1> USE DEF Statuses, Uncaught
<1>4. CASE PostForbidden(t) \/ PostInvalid(t) \/ HeadAnswer(t) \/ GetMissing(t) \/ GetVanished(t)
           \/ ImportsAnswer(t) \/ DiskFails(t) \/ GetFails(t) \/ HeadFails(t)
  <2>1. Keep /\ (\/ Reply(t, "405", NoBytes) \/ Reply(t, "400", NoBytes) \/ Reply(t, "200", NoBytes)
                 \/ Reply(t, "404", NoBytes) \/ Reply(t, "500", NoBytes) \/ Reply(t, "closed", NoBytes))
    BY <1>4 DEF PostForbidden, PostInvalid, HeadAnswer, GetMissing, GetVanished, ImportsAnswer,
                DiskFails, GetFails, HeadFails
  <2>2. QED
    BY <2>1, <1>3
<1>5. CASE PutPresent(t) \/ PutWrite(t) \/ PutFails(t)
  <2>1. /\ Keep \/ Publish(thread[t].id)
        /\ Reply(t, "200", thread[t].id) \/ Reply(t, "500", NoBytes)
    BY <1>5 DEF PutPresent, PutWrite, PutLookFails, PutFails
  <2>2. QED
    BY <2>1, <1>1, <1>3
<1>6. CASE GetRead(t)
  <2>1. Keep /\ (Reply(t, "200", Cbor[thread[t].id]) \/ Reply(t, "500", NoBytes))
    BY <1>6 DEF GetRead
  <2>2. Cbor[thread[t].id] \in Identities \union {Foreign}
    BY <1>1, EncodingAssumption
  <2>3. QED
    BY <2>1, <2>2, <1>3
<1>7. CASE PostDecoded(t)
  <2>1. Envelope[thread[t].id] \in Identities
    BY <1>1, <1>7, EncodingAssumption DEF PostDecoded, Acceptable
  <2>2. QED
    BY <1>0, <1>7, <2>1 DEF PostDecoded, ServerVarsOK, Request
<1>8. CASE PutAbsent(t) \/ PutLookFails(t) \/ GetFound(t) \/ GetUrl(t)
  <2>1. \/ \E at \in {"write", "url", "read"} : Goto(t, at) /\ Unanswered
        \/ Reply(t, "500", NoBytes) /\ Keep
    BY <1>8 DEF PutAbsent, PutLookFails, GetFound, GetUrl
  <2>2. QED
    BY <2>1, <1>2, <1>3
<1>9. CASE ImportsRead(t)
  <2>1. Imports[thread[t].id] \in SUBSET Identities
    BY <1>1, ImportsAssumption
  <2>2. CASE /\ thread' = [thread EXCEPT ![t].at = "targets", ![t].left = Imports[thread[t].id]]
             /\ Unanswered
    BY <1>0, <2>1, <2>2 DEF ServerVarsOK, Request
  <2>3. CASE Reply(t, "500", NoBytes) /\ Keep
    BY <2>3, <1>3
  <2>4. QED
    BY <1>9, <2>2, <2>3 DEF ImportsRead
<1>10. CASE ImportsLookUp(t)
  <2>1. PICK i \in thread[t].left :
          thread' = [thread EXCEPT ![t].left = @ \ {i},
                                    ![t].missing = @ \union ({i} \ Stored)]
    BY <1>10 DEF ImportsLookUp
  <2>2. /\ thread[t].left \ {i} \in SUBSET Identities
        /\ thread[t].missing \union ({i} \ Stored) \in SUBSET Identities
    BY <1>0 DEF Request
  <2>3. QED
    BY <1>0, <1>10, <2>1, <2>2 DEF ServerVarsOK, Request, ImportsLookUp
<1>11. QED
  BY <1>4, <1>5, <1>6, <1>7, <1>8, <1>9, <1>10 DEF Handle, HandleFails

ClientVarsOK ==
    /\ local \in [Identities -> Identities \union {Damaged, NoBytes}]
    /\ call  \in [Clients -> Call]
    /\ \A c \in Clients : CallInv(c)

\* The end of a call keeps the types, if its data are those of its identity.
LEMMA EndType ==
    ASSUME ClientVarsOK, NEW c \in Clients, NEW k \in Call, k.id \in Identities,
           NEW result \in Results, NEW data \in Identities \union {NoBytes},
           result = "bytes" => data = k.id,
           End(c, k, result, data)
    PROVE  call' \in [Clients -> Call] /\ \A d \in Clients : CallInv(d)'
<1> DEFINE e == [k EXCEPT !.at = "done", !.result = result, !.data = data]
<1>1. /\ e \in Call /\ e.at = "done" /\ e.op = k.op /\ e.id = k.id /\ e.result = result
      /\ e.data = data
  BY DEF Call
<1>2. call' = [call EXCEPT ![c] = e]
  BY DEF End
<1> HIDE DEF e
<1>3. QED
  BY <1>1, <1>2 DEF ClientVarsOK, CallInv, Ended

\* So does the sending of a request.
LEMMA SendType ==
    ASSUME ClientVarsOK, ServerVarsOK, NEW c \in Clients, NEW k \in Call, k.id \in Identities,
           k.op \notin {"put", "index"},
           NEW method \in Methods, NEW form \in Forms, Send(c, k, method, form)
    PROVE  ServerVarsOK' /\ call' \in [Clients -> Call] /\ \A d \in Clients : CallInv(d)'
<1> DEFINE e == [k EXCEPT !.at = "await"]
           r == [at |-> "start", method |-> method, id |-> k.id, form |-> form,
                 left |-> {}, missing |-> {}]
<1>1. e \in Call /\ e.at = "await" /\ e.op = k.op /\ e.id = k.id
  BY DEF Call
<1>2. r \in Request /\ NoAnswer \in Answer
  BY DEF Request, NoAnswer, Response, Answer, Statuses
<1>3. /\ call' = [call EXCEPT ![c] = e] /\ thread' = [thread EXCEPT ![c] = r]
      /\ wire' = [wire EXCEPT ![c] = NoAnswer] /\ UNCHANGED remote
  BY DEF Send
<1> HIDE DEF e, r
<1>4. QED
  BY <1>1, <1>2, <1>3 DEF ClientVarsOK, ServerVarsOK, CallInv, Ended, Threads

\* A call of an operation begins well formed.
LEMMA BeganType ==
    ASSUME NEW op \in Operations, NEW i \in Identities, NEW todo \in Seq(Identities),
           NEW k, k = Began(op, i, todo)
    PROVE  k \in Call /\ k.id = i /\ k.op = op /\ k.at = "idle" /\ k.todo = todo
  BY DEF Began, NoCall, Call, Results

\* An error ends a call, whatever the call is.
LEMMA FailType ==
    ASSUME ClientVarsOK, NEW c \in Clients, NEW k \in Call, k.id \in Identities,
           NEW error \in Results \ {"bytes"}, Fail(c, k, error)
    PROVE  call' \in [Clients -> Call] /\ \A d \in Clients : CallInv(d)'
<1>1. (IF k.op = "run" THEN "CodifideError" ELSE error) \in Results \ {"bytes"}
  BY DEF Results, Errors
<1>2. QED
  BY <1>1, EndType DEF Fail

\* A read that finds its object in the cache ends, or goes on to the next import.
LEMMA ReadCachedType ==
    ASSUME ClientVarsOK, NEW c \in Clients, NEW k \in Call, k.id \in Identities, ReadCached(c, k)
    PROVE  call' \in [Clients -> Call] /\ \A d \in Clients : CallInv(d)'
<1> USE DEF Results, Errors
<1>1. CASE Fail(c, k, "IntegrityError")
  BY <1>1, FailType
<1>2. CASE Obtained(c, k)
  <2>1. CASE k.op # "run"
    BY <1>2, <2>1, EndType DEF Obtained
  <2>2. CASE k.op = "run" /\ Envelope[k.id] = NoId
    BY <1>2, <2>2, EndType DEF Obtained
  <2>3. CASE k.op = "run" /\ Envelope[k.id] # NoId /\ k.todo = <<>>
    BY <1>2, <2>3, EndType DEF Obtained
  <2>4. CASE k.op = "run" /\ Envelope[k.id] # NoId /\ k.todo # <<>>
    <3> DEFINE e == [k EXCEPT !.at = "next", !.id = Head(k.todo), !.todo = Tail(k.todo),
                              !.data = NoBytes]
    <3>1. k.todo \in Seq(Identities)
      BY DEF Call
    <3>2. Head(k.todo) \in Identities /\ Tail(k.todo) \in Seq(Identities)
      BY <2>4, <3>1
    <3>3. e \in Call /\ e.at = "next" /\ e.op = "run" /\ e.id \in Identities
      BY <2>4, <3>2 DEF Call
    <3>4. call' = [call EXCEPT ![c] = e]
      BY <1>2, <2>4 DEF Obtained
    <3> HIDE DEF e
    <3>5. QED
      BY <3>3, <3>4 DEF ClientVarsOK, CallInv, Ended
  <2>5. QED
    BY <2>1, <2>2, <2>3, <2>4
<1>3. QED
  BY <1>1, <1>2 DEF ReadCached

\* The beginning of a call keeps the types.
LEMMA BeginType ==
    ASSUME ServerVarsOK, ClientVarsOK, NEW c \in Clients, Begin(c)
    PROVE  ServerVarsOK' /\ ClientVarsOK'
<1> USE DEF Offline, serverVars, Methods, Forms, Results, Errors
<1>0. <<>> \in Seq(Identities)
  OBVIOUS
<1>1. CASE ReadBegin(c)
  <2>1. PICK op \in {"get", "getBytes", "run"}, i \in Identities,
             todo \in {<<>>} \union {Tail(m) : m \in Modules} :
          ReadCached(c, Began(op, i, todo)) \/ Fetch(c, Began(op, i, todo))
    BY <1>1 DEF ReadBegin
  <2>2. todo \in Seq(Identities) /\ op \in Operations
    <3>1. \A m \in Modules : Tail(m) \in Seq(Identities)
      BY ClientAssumption
    <3>2. QED
      BY <1>0, <3>1 DEF Operations
  <2>k. PICK k : k = Began(op, i, todo)
    OBVIOUS
  <2>3. k \in Call /\ k.id \in Identities /\ k.op = op
    BY <2>2, <2>k, BeganType
  <2>4. CASE ReadCached(c, k)
    BY <2>3, <2>4, ReadCachedType DEF ReadCached, ServerVarsOK, ClientVarsOK
  <2>5. CASE Fetch(c, k)
    BY <2>3, <2>5, SendType DEF Fetch, ClientVarsOK
  <2>6. QED
    BY <2>1, <2>4, <2>5, <2>k
<1>2. CASE HasBegin(c) \/ PushBegin(c) \/ PostBegin(c) \/ ImportsBegin(c)
  <2>1. PICK op \in {"has", "push", "post", "imports"}, i \in Identities :
          \/ End(c, Began(op, i, <<>>), "true", NoBytes) /\ Offline
          \/ End(c, Began(op, i, <<>>), "unreadable", NoBytes) /\ Offline
          \/ \E method \in Methods, form \in Forms : Send(c, Began(op, i, <<>>), method, form)
    <3>1. \A i \in Identities : Form[i] \in Forms
      BY EncodingAssumption
    <3>2. QED
      BY <1>2, <3>1 DEF HasBegin, PushBegin, PostBegin, ImportsBegin
  <2>2. UNCHANGED local /\ op \in Operations
    BY <1>2 DEF Operations, HasBegin, PushBegin, PostBegin, ImportsBegin
  <2>k. PICK k : k = Began(op, i, <<>>)
    OBVIOUS
  <2>3. k \in Call /\ k.id \in Identities /\ k.op = op
    BY <1>0, <2>2, <2>k DEF Began, NoCall, Call
  <2>4. CASE (End(c, k, "true", NoBytes) \/ End(c, k, "unreadable", NoBytes)) /\ Offline
    BY <2>2, <2>3, <2>4, EndType DEF ServerVarsOK, ClientVarsOK
  <2>5. CASE \E method \in Methods, form \in Forms : Send(c, k, method, form)
    BY <2>2, <2>3, <2>5, SendType DEF ClientVarsOK
  <2>6. QED
    BY <2>1, <2>4, <2>5, <2>k
<1>3. CASE PutLocal(c) \/ IndexLocal(c)
  <2>1. PICK op \in {"put", "index"}, i \in Standard :
          /\ End(c, Began(op, i, <<>>), "identity", NoBytes)
          /\ local' = IF i \in Cached THEN local ELSE [local EXCEPT ![i] = i]
          /\ Offline
    BY <1>3 DEF PutLocal, IndexLocal, WriteLocal
  <2>2. i \in Identities /\ op \in Operations
    BY DEF Standard, Operations
  <2>k. PICK k : k = Began(op, i, <<>>)
    OBVIOUS
  <2>3. k \in Call /\ k.id \in Identities
    BY <1>0, <2>2, <2>k DEF Began, NoCall, Call
  <2>4. call' \in [Clients -> Call] /\ \A d \in Clients : CallInv(d)'
    BY <2>1, <2>3, <2>k, EndType
  <2>5. QED
    BY <2>1, <2>2, <2>4 DEF ServerVarsOK, ClientVarsOK
<1>4. QED
  BY <1>1, <1>2, <1>3 DEF Begin

\* Taking an answer off its connection keeps the types of the server.
LEMMA TakenType ==
    ASSUME ServerVarsOK, NEW c \in Clients, Taken(c) \/ Offline
    PROVE  ServerVarsOK'
<1>1. NoAnswer \in Answer
  BY DEF NoAnswer, Response, Answer, Statuses
<1>2. QED
  BY <1>1 DEF ServerVarsOK, Taken, Offline, serverVars

\* The steps of a call that has begun keep the types.
LEMMA ContinueType ==
    ASSUME ServerVarsOK, ClientVarsOK, NEW c \in Clients, Continue(c) \/ CacheFails(c)
    PROVE  ServerVarsOK' /\ ClientVarsOK'
<1> DEFINE k == call[c]
<1> USE DEF Results, Errors
<1>0. k \in Call /\ CallInv(c) /\ (k.at # "idle" => k.id \in Identities)
  BY DEF ClientVarsOK, CallInv
<1>1. ASSUME call' \in [Clients -> Call], \A d \in Clients : CallInv(d)', UNCHANGED local,
             Taken(c) \/ Offline
      PROVE  ServerVarsOK' /\ ClientVarsOK'
  BY <1>1, TakenType DEF ClientVarsOK
<1>2. CASE ReadNext(c)
  <2>1. k.id \in Identities /\ k.op = "run"
    BY <1>0, <1>2 DEF ReadNext, CallInv
  <2>2. CASE ReadCached(c, k)
    BY <2>1, <2>2, <1>0, <1>1, ReadCachedType DEF ReadCached
  <2>3. CASE Fetch(c, k)
    BY <2>1, <2>3, <1>0, SendType DEF Fetch, ClientVarsOK, Methods, Forms
  <2>4. QED
    BY <1>2, <2>2, <2>3 DEF ReadNext
<1>3. CASE FetchFails(c) \/ FetchRejected(c) \/ CacheFails(c)
  <2>1. \E error \in Errors : Fail(c, k, error)
    BY <1>3 DEF FetchFails, FetchRejected, CacheFails, Raised
  <2>2. k.id \in Identities /\ UNCHANGED local /\ (Taken(c) \/ Offline)
    BY <1>0, <1>3 DEF FetchFails, FetchRejected, CacheFails, Awaits
  <2>3. QED
    BY <2>1, <2>2, <1>0, <1>1, FailType
<1>4. CASE FetchVerified(c)
  <2>1. /\ wire[c].body = k.id /\ k.id \in Identities /\ k.op \in Fetching
        /\ call' = [call EXCEPT ![c].at = "cache", ![c].data = wire[c].body]
    BY <1>0, <1>4 DEF FetchVerified, Awaits
  <2> DEFINE e == [k EXCEPT !.at = "cache", !.data = k.id]
  <2>2. /\ e \in Call /\ e.at = "cache" /\ e.op = k.op /\ e.id = k.id /\ e.data = k.id
        /\ e.result = k.result
    BY <2>1, <1>0 DEF Call
  <2>3. call' = [call EXCEPT ![c] = e]
    BY <2>1, <1>0 DEF ClientVarsOK, Call
  <2> HIDE DEF e, k
  <2>4. call' \in [Clients -> Call] /\ \A d \in Clients : CallInv(d)'
    BY <2>1, <2>2, <2>3 DEF ClientVarsOK, CallInv, Ended
  <2>5. QED
    BY <2>4, <1>1, <1>4 DEF FetchVerified
<1>5. CASE Cache(c)
  <2>1. k.data = k.id /\ k.id \in Identities /\ k.op \in Fetching
    BY <1>0, <1>5 DEF Cache, CallInv
  <2>2. local' \in [Identities -> Identities \union {Damaged, NoBytes}]
    BY <2>1, <1>5 DEF Cache, ClientVarsOK
  <2>3. CASE End(c, k, "bytes", k.data)
    BY <2>1, <2>2, <2>3, <1>0, <1>5, EndType, TakenType DEF Cache, ClientVarsOK
  <2>4. CASE call' = [call EXCEPT ![c].at = "reread"]
    <3> DEFINE e == [k EXCEPT !.at = "reread"]
    <3>1. e \in Call /\ e.at = "reread" /\ e.op = k.op /\ e.id = k.id
      BY <1>0 DEF Call
    <3>2. call' = [call EXCEPT ![c] = e]
      BY <2>4
    <3> HIDE DEF e, k
    <3>3. QED
      BY <2>1, <2>2, <3>1, <3>2, <1>5, TakenType DEF Cache, ClientVarsOK, CallInv, Ended
  <2>5. QED
    BY <1>5, <2>3, <2>4 DEF Cache
<1>6. CASE Reread(c)
  <2>1. k.id \in Identities
    BY <1>0, <1>6 DEF Reread
  <2>2. CASE ReadCached(c, k)
    BY <2>1, <2>2, <1>0, <1>1, ReadCachedType DEF ReadCached
  <2>3. CASE Fail(c, k, "NotFound") /\ Offline /\ UNCHANGED local
    BY <2>1, <2>3, <1>0, <1>1, FailType
  <2>4. QED
    BY <1>6, <2>2, <2>3 DEF Reread
<1>7. CASE HasAnswered(c) \/ PushAnswered(c) \/ AgentAnswered(c)
  <2>1. \E result \in Results \ {"bytes"} : End(c, k, result, NoBytes)
    BY <1>7 DEF HasAnswered, PushAnswered, AgentAnswered, Raised
  <2>2. k.id \in Identities /\ UNCHANGED local /\ Taken(c)
    BY <1>0, <1>7 DEF HasAnswered, PushAnswered, AgentAnswered, Awaits
  <2>3. QED
    BY <2>1, <2>2, <1>0, <1>1, EndType
<1>8. CASE Return(c)
  <2>1. NoCall \in Call
    BY DEF NoCall, Call, Operations
  <2>2. call' \in [Clients -> Call] /\ \A d \in Clients : CallInv(d)'
    BY <2>1, <1>8 DEF Return, ClientVarsOK, CallInv, Ended, NoCall
  <2>3. QED
    BY <2>2, <1>1, <1>8 DEF Return
<1>9. QED
  BY <1>2, <1>3, <1>4, <1>5, <1>6, <1>7, <1>8 DEF Continue

\* What happens to a registry and its clients keeps the types.
LEMMA EnvironmentType ==
    ASSUME ServerVarsOK, ClientVarsOK, \A c \in Clients : ConnectionInv(c), Environment
    PROVE  ServerVarsOK' /\ ClientVarsOK'
<1> USE DEF Results, Errors
<1>1. CASE Breaks
  <2>1. ASSUME NEW t \in Threads, HandleFails(t), UNCHANGED clientVars
        PROVE  ServerVarsOK' /\ ClientVarsOK'
    BY <2>1, HandleType DEF clientVars, ClientVarsOK, CallInv, Ended
  <2>2. QED
    BY <1>1, <2>1, ContinueType DEF Breaks
<1>2. CASE Restart
  <2>1. Response("closed", NoBytes, {}) \in Answer
    BY DEF Response, Answer, Statuses
  <2>2. QED
    BY <1>2, <2>1 DEF Restart, ServerVarsOK, ClientVarsOK, clientVars, CallInv, Ended
<1>3. ASSUME NEW i \in Identities, Collect(i) \/ DamageLocal(i) \/ DamageRemote(i)
      PROVE  ServerVarsOK' /\ ClientVarsOK'
  <2>1. /\ remote' \in [Identities -> Identities \union {Damaged, NoBytes}]
        /\ local'  \in [Identities -> Identities \union {Damaged, NoBytes}]
        /\ UNCHANGED <<thread, wire, call>>
    BY <1>3 DEF Collect, DamageLocal, DamageRemote, serverVars, clientVars, ServerVarsOK, ClientVarsOK
  <2>2. QED
    BY <2>1 DEF ServerVarsOK, ClientVarsOK, CallInv, Ended
<1>4. ASSUME NEW c \in Clients, Forge(c) \/ CutOff(c)
      PROVE  ServerVarsOK' /\ ClientVarsOK'
  <2>1. PICK b \in Identities \union {Foreign} : wire' = [wire EXCEPT ![c].body = b]
    BY <1>4 DEF Forge, CutOff
  <2>2. wire' \in [Clients -> Answer]
    BY <2>1 DEF ServerVarsOK, Answer
  <2>3. QED
    BY <1>4, <2>2 DEF Forge, CutOff, ServerVarsOK, ClientVarsOK, clientVars, CallInv, Ended
<1>5. ASSUME NEW c \in Clients, Unreachable(c) \/ Disconnect(c)
      PROVE  ServerVarsOK' /\ ClientVarsOK'
  <2>1. /\ thread' \in [Threads -> Request \union {NoRequest}]
        /\ wire' \in [Clients -> Answer]
        /\ UNCHANGED <<remote, local>>
    <3>1. NoAnswer \in Answer
      BY DEF NoAnswer, Response, Answer, Statuses
    <3>2. CASE Unreachable(c)
      BY <3>2 DEF Unreachable, ServerVarsOK
    <3>3. CASE Disconnect(c)
      <4>1. wire' \in [Clients -> Answer] /\ UNCHANGED <<remote, local>>
        BY <3>1, <3>3 DEF Disconnect, ServerVarsOK
      <4>2. thread[c] \in Request \union {NoRequest}
        BY DEF ServerVarsOK, Threads
      <4>3. thread' \in [Threads -> Request \union {NoRequest}]
        BY <3>3, <4>2 DEF Disconnect, Abandon, ServerVarsOK
      <4>4. QED
        BY <4>1, <4>3
    <3>4. QED
      BY <1>5, <3>2, <3>3
  <2>2. \E error \in Errors \union {"failed"} : Fail(c, call[c], error)
    BY <1>5 DEF Unreachable, Disconnect, GiveUp
  <2>3. call[c] \in Call /\ call[c].id \in Identities
    BY <1>5 DEF Unreachable, Disconnect, ClientVarsOK, CallInv, ConnectionInv
  <2>4. QED
    BY <2>1, <2>2, <2>3, FailType DEF ServerVarsOK, ClientVarsOK
<1>6. QED
  BY <1>1, <1>2, <1>3, <1>4, <1>5 DEF Environment

\* Every variable keeps its type, and every call knows what it is about.
LEMMA TypeStep ==
    ASSUME Inv, [Next]_vars
    PROVE  TypeOK' /\ \A c \in Clients : CallInv(c)'
<1>1. ServerVarsOK /\ ClientVarsOK /\ \A c \in Clients : ConnectionInv(c)
  BY DEF Inv, ClientInv, TypeOK, ServerTypeOK, ClientTypeOK, ServerVarsOK, ClientVarsOK
<1>2. CASE UNCHANGED vars
  BY <1>2 DEF Inv, TypeOK, ServerTypeOK, ClientTypeOK, CallInv, Ended, vars, serverVars, configVars,
              clientVars, histVars
<1>3. CASE Next
  <2>1. ServerVarsOK' /\ ClientVarsOK'
    <3>1. ASSUME NEW c \in Clients, Begin(c) \/ Continue(c)
          PROVE  ServerVarsOK' /\ ClientVarsOK'
      BY <1>1, <3>1, BeginType, ContinueType
    <3>2. ASSUME NEW t \in Threads, Handle(t), UNCHANGED clientVars
          PROVE  ServerVarsOK' /\ ClientVarsOK'
      BY <1>1, <3>2, HandleType DEF clientVars, ClientVarsOK, CallInv, Ended
    <3>3. QED
      BY <1>1, <1>3, <3>1, <3>2, EnvironmentType DEF Next, Enter, Proceed, Serve
  <2>2. Observe /\ (NoFault \/ CountFault)
    BY <1>3 DEF Next, Enter, Proceed, Serve, Environment, Breaks, Restart, Collect, DamageLocal,
                DamageRemote, Forge, CutOff, Unreachable, Disconnect, Fault
  <2>3. met' \in [Clients -> SUBSET FaultKinds]
    <3>0. met \in [Clients -> SUBSET FaultKinds]
      BY DEF Inv, TypeOK
    <3>1. ASSUME NEW S, NEW kind \in FaultKinds, Meet(S, kind)
          PROVE  met' \in [Clients -> SUBSET FaultKinds]
      BY <3>0, <3>1 DEF Meet
    <3>2. CASE UNCHANGED met \/ \E c \in Clients : met' = [met EXCEPT ![c] = {}]
      BY <3>0, <3>2
    <3>3. CASE Breaks
      <4>1. ServerFault \in FaultKinds /\ "diskFull" \in FaultKinds
        BY DEF ServerFault, FaultKinds
      <4>2. QED
        BY <3>1, <3>3, <4>1 DEF Breaks
    <3>4. CASE \E S : \/ Meet(S, "damage") \/ Meet(S, "forge") \/ Meet(S, "cut")
                      \/ Meet(S, "lose") \/ Meet(S, "restart")
      BY <3>1, <3>4 DEF FaultKinds
    <3>5. QED
      BY <1>3, <3>2, <3>3, <3>4
      DEF Next, Enter, Proceed, Serve, Environment, Restart, Collect, DamageLocal, DamageRemote,
          Forge, CutOff, Unreachable, Disconnect, Fault
  <2>4. faults' \in 0..MaxFaults
    BY <2>2, FaultsAssumption DEF NoFault, CountFault, Inv, TypeOK
  <2>5. gap' \in [Clients -> SUBSET Identities]
    <3> SUFFICES ASSUME NEW c \in Clients, call'[c].at # "idle"
                 PROVE  Sought(call'[c]) \subseteq Identities
      BY <2>2 DEF Observe
    <3>1. call'[c].id \in Identities
      BY <2>1 DEF ClientVarsOK, CallInv
    <3>2. QED
      BY <3>1, ImportsAssumption DEF Sought
  <2>6. held' \subseteq Clients /\ UNCHANGED configVars
    BY <2>2 DEF Observe
  <2>7. QED
    BY <2>1, <2>3, <2>4, <2>5, <2>6
    DEF Inv, TypeOK, ServerTypeOK, ClientTypeOK, ServerVarsOK, ClientVarsOK, configVars
<1>4. QED
  BY <1>2, <1>3

-----------------------------------------------------------------------------
(***************************************************************************)
(* What a step may do to the stores, and to one client.                    *)
(***************************************************************************)

\* Objects come into the registry by a post that has looked for them before.
LEMMA RemoteSteps ==
    ASSUME Inv, [Next]_vars, NEW i \in Identities
    PROVE  \/ remote'[i] = remote[i]
           \/ remote'[i] = i /\ \E t \in Threads : At(t, {"POST"}, "write")
           \/ remote'[i] = NoBytes
           \/ remote'[i] = Damaged /\ remote[i] # NoBytes
<1>0. remote \in [Identities -> Identities \union {Damaged, NoBytes}]
  BY DEF Inv, TypeOK, ServerTypeOK
<1>1. CASE \E t \in Threads : Handle(t) \/ HandleFails(t)
  <2>1. PICK t \in Threads : Handle(t) \/ HandleFails(t)
    BY <1>1
  <2>2. \/ UNCHANGED remote
        \/ At(t, {"POST"}, "write") /\ Publish(thread[t].id)
    BY <2>1
    DEF Handle, HandleFails, Keep, Unanswered, At, PostForbidden, PostInvalid, PostDecoded,
        PutPresent, PutAbsent, PutWrite, GetMissing, GetFound, GetUrl, GetRead, GetVanished,
        ImportsRead, ImportsLookUp, ImportsAnswer, HeadAnswer, PutLookFails, PutFails, DiskFails, GetFails,
        HeadFails
  <2>3. QED
    BY <1>0, <2>2 DEF Publish
<1>2. CASE \E c \in Clients : Begin(c) \/ Continue(c) \/ CacheFails(c)
  BY <1>2
  DEF Begin, Continue, ReadBegin, HasBegin, PutLocal, IndexLocal, WriteLocal, PushBegin, PostBegin,
      ImportsBegin, ReadNext, ReadCached, Fetch, Send, Offline, serverVars, FetchFails,
      FetchRejected, FetchVerified, Cache, CacheFails, Reread, HasAnswered, PushAnswered,
      AgentAnswered, Return, Taken
<1>3. CASE \E j \in Identities : Collect(j) \/ DamageLocal(j) \/ DamageRemote(j)
  BY <1>0, <1>3 DEF Collect, DamageLocal, DamageRemote, serverVars, Stored
<1>4. CASE UNCHANGED vars \/ Restart \/ \E c \in Clients : Forge(c) \/ CutOff(c) \/ Unreachable(c) \/ Disconnect(c)
  BY <1>4 DEF vars, serverVars, Restart, Forge, CutOff, Unreachable, Disconnect
<1>5. QED
  BY <1>1, <1>2, <1>3, <1>4 DEF Next, Enter, Proceed, Serve, Environment, Breaks

\* Objects come into the cache verified, or from a put.
LEMMA LocalSteps ==
    ASSUME Inv, [Next]_vars, NEW i \in Identities
    PROVE  \/ local'[i] = local[i]
           \/ local'[i] = i /\ local[i] = NoBytes
           \/ local'[i] = NoBytes
           \/ local'[i] = Damaged /\ local[i] # NoBytes
<1>0. local \in [Identities -> Identities \union {Damaged, NoBytes}]
  BY DEF Inv, TypeOK, ClientTypeOK
<1>1. CASE \E c \in Clients : Begin(c) \/ Continue(c) \/ CacheFails(c)
  <2>1. PICK c \in Clients : Begin(c) \/ Continue(c) \/ CacheFails(c)
    BY <1>1
  <2>2. CASE Cache(c)
    <3>1. call[c].data = call[c].id /\ call[c].id \in Identities
      BY <2>2 DEF Cache, Inv, CallInv
    <3>2. QED
      BY <1>0, <2>2, <3>1 DEF Cache, Cached
  <2>3. CASE PutLocal(c) \/ IndexLocal(c)
    BY <1>0, <2>3 DEF PutLocal, IndexLocal, WriteLocal, Standard, Cached
  <2>4. CASE ~Cache(c) /\ ~PutLocal(c) /\ ~IndexLocal(c)
    BY <2>1, <2>4
    DEF Begin, Continue, ReadBegin, HasBegin, PushBegin, PostBegin, ImportsBegin, ReadNext,
        ReadCached, Fetch, FetchFails, FetchRejected, FetchVerified, CacheFails, Reread,
        HasAnswered, PushAnswered, AgentAnswered, Return
  <2>5. QED
    BY <2>2, <2>3, <2>4
<1>2. CASE \E j \in Identities : Collect(j) \/ DamageLocal(j) \/ DamageRemote(j)
  BY <1>0, <1>2 DEF Collect, DamageLocal, DamageRemote, clientVars, Cached
<1>3. CASE \/ UNCHANGED clientVars \/ Restart
           \/ \E c \in Clients : Forge(c) \/ CutOff(c) \/ Unreachable(c) \/ Disconnect(c)
  BY <1>3 DEF clientVars, Restart, Forge, CutOff, Unreachable, Disconnect
<1>4. QED
  BY <1>1, <1>2, <1>3 DEF vars, Next, Enter, Proceed, Serve, Environment, Breaks

\* The operations whose call records what it misses.
Missing == {"get", "getBytes", "has", "push", "imports"}

\* Every step shows itself to the calls under way: what is missing is noted, and
\* so is that the registry holds what is pushed.
LEMMA Shown ==
    ASSUME Inv, Next, NEW c \in Clients
    PROVE  /\ UNCHANGED configVars
           /\ gap'[c] \subseteq Sought(call'[c])
           /\ call'[c].op \in Missing \/ gap'[c] = {}
           /\ call'[c].at # "idle" /\ call'[c].op \in Missing =>
                 \A i \in Sought(call'[c]) :
                    \/ i \in gap[c] \/ remote'[i] = NoBytes
                    \/ call[c].at = "reread" /\ local'[i] = NoBytes
                    => i \in gap'[c]
           /\ call'[c].at # "idle" /\ call'[c].op = "push" =>
                 (c \in held \/ remote'[call'[c].id] # NoBytes => c \in held')
           /\ call'[c].at # "idle" /\ call'[c].op = call[c].op /\ call'[c].id = call[c].id =>
                 gap[c] \subseteq gap'[c]
<1>1. Observe
  BY DEF Next, Enter, Proceed, Serve, Environment, Breaks, Restart, Collect, DamageLocal,
         DamageRemote, Forge, CutOff, Unreachable, Disconnect, Fault
<1>2. TypeOK /\ TypeOK' /\ AbsenceInv(c)
  BY TypeStep DEF Inv, ClientInv
<1>4. call[c] \in Call /\ call'[c] \in Call
  BY <1>2 DEF TypeOK, ClientTypeOK
<1>5. call'[c].op \in Missing \union {"run", "post", "put", "index"}
  BY <1>4 DEF Call, Operations, Missing
<1>6. call'[c].at # "idle" /\ call'[c].op \in Missing =>
         gap'[c] = {i \in Sought(call'[c]) :
                        \/ i \in gap[c] \/ remote'[i] = NoBytes
                        \/ call[c].at = "reread" /\ local'[i] = NoBytes}
  BY <1>1 DEF Observe, Missing
<1>7. call'[c].at = "idle" \/ call'[c].op \notin Missing => gap'[c] = {}
  BY <1>1, <1>5 DEF Observe, Missing
<1>8. call'[c].at # "idle" /\ call'[c].op = "push" =>
         (c \in held \/ remote'[call'[c].id] # NoBytes => c \in held')
  BY <1>1 DEF Observe
<1>9. call'[c].op = call[c].op /\ call'[c].id = call[c].id => Sought(call'[c]) = Sought(call[c])
  BY DEF Sought
<1>10. gap[c] \subseteq Sought(call[c]) /\ (call[c].op \in Missing \/ gap[c] = {})
  BY <1>2 DEF AbsenceInv, Missing
<1>11. UNCHANGED configVars
  BY <1>1 DEF Observe
<1>12. QED
  BY <1>6, <1>7, <1>8, <1>9, <1>10, <1>11

\* What a step leaves alone of a client.
Untouched(c) == UNCHANGED <<call[c], thread[c], wire[c], met[c]>>

\* A client whose call, thread and connection a step leaves alone.
LEMMA UntouchedStep ==
    ASSUME Inv, Next, NEW c \in Clients, Untouched(c)
    PROVE  ClientInv(c)'
<1>1. ClientInv(c) /\ CallInv(c) /\ TypeOK
  BY DEF Inv
<1>2. call[c].at = "idle" => thread[c] = NoRequest /\ wire[c] = NoAnswer
  BY <1>1 DEF ClientInv, ConnectionInv
<1>3. call[c].at # "idle" => gap[c] \subseteq gap'[c]
  BY Shown DEF Untouched
<1>4. call[c].at # "idle" /\ call[c].op = "push" => (c \in held => c \in held')
  BY Shown DEF Untouched
<1>5. ConnectionInv(c)'
  BY <1>1, <1>2, <1>3 DEF ClientInv, ConnectionInv, Untouched, NoAnswer, Response
<1>6. AnswerInv(c)'
  BY <1>1, <1>2, <1>3, <1>4 DEF ClientInv, AnswerInv, Untouched, NoAnswer, Response
<1>7. AbsenceInv(c)'
  <2>1. gap'[c] \subseteq Sought(call'[c]) /\ (call'[c].op \in Missing \/ gap'[c] = {})
    BY Shown
  <2>2. call[c].at = "reread" /\ call[c].op # "run" => call[c].id \in Cached' \union gap'[c]
    <3> SUFFICES ASSUME call[c].at = "reread", call[c].op # "run", call[c].id \notin Cached'
                 PROVE  call[c].id \in gap'[c]
      OBVIOUS
    <3>1. call[c].id \in Identities /\ call[c].op \in {"get", "getBytes"}
      BY <1>1 DEF CallInv, Fetching
    <3>2. call[c].id \in Sought(call[c])
      BY <3>1 DEF Sought
    <3>3. local'[call[c].id] = NoBytes
      BY <1>1, <3>1 DEF ClientInv, AbsenceInv, Cached
    <3>4. QED
      BY <3>1, <3>2, <3>3, Shown DEF Untouched, Missing
  <2>3. QED
    BY <1>1, <1>3, <2>1, <2>2 DEF ClientInv, AbsenceInv, Untouched, Missing, Ended
<1>8. PushInv(c)'
  <2>1. UNCHANGED configVars
    BY Shown
  <2>2. QED
    BY <1>1, <1>2, <1>3, <1>4, <2>1
    DEF ClientInv, PushInv, Overtaken, Untouched, configVars, Ended, NoAnswer, Response
<1>9. Ended(c, {"pushed"})' => call'[c].op = "push" /\ ("forge" \notin met'[c] => c \in held')
  BY <1>1, <1>4 DEF ClientInv, Untouched, Ended
<1>10. QED
  BY <1>5, <1>6, <1>7, <1>8, <1>9 DEF ClientInv

-----------------------------------------------------------------------------
(***************************************************************************)
(* The steps that touch a client.                                          *)
(***************************************************************************)

\* A call that waits for nothing: it has ended, or has its bytes in hand.
LEMMA QuietStep ==
    ASSUME Inv, Next, NEW c \in Clients,
           call'[c].at # "await", thread'[c] = NoRequest, wire'[c] = NoAnswer,
           call'[c].at = "reread" /\ call'[c].op # "run" => call'[c].id \in Cached' \union gap'[c],
           Ended(c, {"NotFound", "false"})' /\ "blobFails" \notin met'[c] => call'[c].id \in gap'[c],
           Ended(c, {"pushed"})' => call'[c].op = "push" /\ ("forge" \notin met'[c] => c \in held'),
           /\ met'[c] = {} /\ ~readOnly' /\ call'[c].op = "push"
           /\ Envelope[call'[c].id] = call'[c].id
           /\ Ended(c, {"refused", "failed", "ConnectionError"})'
           => Overtaken(c)'
    PROVE  ClientInv(c)'
<1>1. gap'[c] \subseteq Sought(call'[c]) /\ (call'[c].op \in Missing \/ gap'[c] = {})
  BY Shown
<1>2. QED
  BY <1>1 DEF ClientInv, ConnectionInv, AnswerInv, AbsenceInv, PushInv, NoAnswer, Response, Missing

\* A request has been sent.
LEMMA AskedStep ==
    ASSUME Inv, Next, NEW c \in Clients, NEW r,
           r.at = "start", r.method = MethodOf(call'[c].op), r.id = call'[c].id,
           r.left = {}, r.missing = {},
           call'[c].op = "push" => r.form = "cbor",
           call'[c].at = "await", thread'[c] = r, wire'[c] = NoAnswer
    PROVE  ClientInv(c)'
<1>1. gap'[c] \subseteq Sought(call'[c]) /\ (call'[c].op \in Missing \/ gap'[c] = {})
  BY Shown
<1>2. QED
  BY <1>1
  DEF ClientInv, ConnectionInv, AnswerInv, AbsenceInv, PushInv, NoAnswer, Response, Missing, Ended

\* An answer has been put on the connection.
LEMMA AnsweredStep ==
    ASSUME Inv, Next, NEW c \in Clients,
           thread[c] # NoRequest, UNCHANGED call[c],
           NEW status \in Statuses \ {"none"}, NEW body, NEW missing \in SUBSET gap'[c],
           thread'[c] = NoRequest, wire'[c] = Response(status, body, missing),
           status = "404" /\ call[c].op \in {"get", "getBytes", "has"} /\ "blobFails" \notin met'[c]
           => call[c].id \in gap'[c],
           status = "200" => /\ call[c].op \in Fetching => body = Cbor[call[c].id]
                             /\ call[c].op = "push" /\ body = call[c].id => c \in held',
           met'[c] = {} /\ ~readOnly /\ call[c].op = "push" /\ Envelope[call[c].id] = call[c].id =>
              \/ status = "200" /\ body = call[c].id
              \/ status = "500" /\ Overtaken(c)'
    PROVE  ClientInv(c)'
<1>1. ClientInv(c) /\ CallInv(c)
  BY DEF Inv
<1>2. call[c].at = "await"
  BY <1>1 DEF ClientInv, ConnectionInv
<1>3. gap'[c] \subseteq Sought(call'[c]) /\ (call'[c].op \in Missing \/ gap'[c] = {})
  BY Shown
<1>4. gap[c] \subseteq gap'[c]
  BY <1>2, Shown
<1>5. UNCHANGED configVars
  BY Shown
<1>6. /\ wire'[c].status = status /\ wire'[c].body = body
      /\ wire'[c].missing = missing
  BY DEF Response
<1>7. call'[c].at = "await"
  BY <1>2
<1>8. ConnectionInv(c)'
  BY <1>6, <1>7 DEF ConnectionInv
<1>9. AnswerInv(c)'
  BY <1>2, <1>4, <1>6 DEF AnswerInv
<1>10. AbsenceInv(c)'
  BY <1>3, <1>7 DEF AbsenceInv, Missing, Ended
<1>11. PushInv(c)'
  BY <1>5, <1>6, <1>7 DEF PushInv, configVars, Ended
<1>12. QED
  BY <1>7, <1>8, <1>9, <1>10, <1>11 DEF ClientInv, Ended

\* The thread has gone on.
LEMMA HandledStep ==
    ASSUME Inv, Next, NEW c \in Clients,
           thread[c] # NoRequest, UNCHANGED <<call[c], wire[c]>>, met[c] \subseteq met'[c],
           thread'[c] # NoRequest, thread'[c].method = thread[c].method,
           thread[c].method # "POST" => thread'[c].id = thread[c].id,
           thread[c].method # "IMPORTS" => thread'[c].missing = {},
           thread[c].method = "IMPORTS" => thread'[c].left \subseteq Imports[call[c].id],
           thread'[c].missing \subseteq gap'[c],
           Envelope[call[c].id] = call[c].id /\ thread[c].id = call[c].id =>
              /\ thread'[c].id = call[c].id /\ thread'[c].form = thread[c].form
              /\ thread'[c].at = "write" /\ met'[c] = {} /\ call[c].op = "push" =>
                    call[c].id \in gap'[c]
    PROVE  ClientInv(c)'
<1>1. ClientInv(c) /\ CallInv(c)
  BY DEF Inv
<1>2. /\ call[c].at = "await" /\ wire[c] = NoAnswer
      /\ thread[c].method = MethodOf(call[c].op)
      /\ thread[c].method # "POST" => thread[c].id = call[c].id
  BY <1>1 DEF ClientInv, ConnectionInv
<1>3. gap'[c] \subseteq Sought(call'[c]) /\ (call'[c].op \in Missing \/ gap'[c] = {})
  BY Shown
<1>4. UNCHANGED configVars /\ (met'[c] = {} => met[c] = {})
  BY Shown
<1>5. ConnectionInv(c)'
  BY <1>2 DEF ConnectionInv
<1>6. AnswerInv(c)' /\ AbsenceInv(c)'
  BY <1>2, <1>3 DEF AnswerInv, AbsenceInv, NoAnswer, Response, Missing, Ended
<1>7. PushInv(c)'
  BY <1>1, <1>2, <1>4 DEF ClientInv, PushInv, configVars, NoAnswer, Response, Ended
<1>8. QED
  BY <1>2, <1>5, <1>6, <1>7 DEF ClientInv, Ended

\* The thread of a client goes on, or ends, or fails.
LEMMA OwnThreadStep ==
    ASSUME Inv, Next, NEW c \in Clients,
           \/ Handle(c) /\ UNCHANGED met
           \/ HandleFails(c) /\ Meet({c}, ServerFault),
           UNCHANGED clientVars
    PROVE  ClientInv(c)'
<1> DEFINE k == call[c]
           r == thread[c]
<1> USE DEF Keep, Unanswered, At, Reading, Uncaught, Statuses
<1>0. r # NoRequest
  BY DEF Handle, HandleFails, PostForbidden, PostInvalid, PostDecoded, PutPresent, PutAbsent,
         PutWrite, GetMissing, GetFound, GetUrl, GetRead, GetVanished, ImportsRead, ImportsLookUp,
         ImportsAnswer, HeadAnswer, PutLookFails, PutFails, DiskFails, GetFails, HeadFails
<1>1. /\ TypeOK /\ ClientInv(c) /\ CallInv(c) /\ UNCHANGED <<local, k>>
      /\ c \in Threads /\ met[c] \subseteq met'[c]
  BY DEF Inv, clientVars, Threads, Meet
<1>2. r \in Request /\ r.id \in Identities /\ k.op \in Operations
  BY <1>0, <1>1 DEF TypeOK, ServerTypeOK, ClientTypeOK, Request, Call
<1>3. /\ k.at = "await" /\ wire[c] = NoAnswer /\ k.id \in Identities
      /\ r.method = MethodOf(k.op)
      /\ r.method # "POST" => r.id = k.id
      /\ r.method # "IMPORTS" => r.missing = {}
      /\ r.method = "IMPORTS" => r.left \subseteq Imports[k.id]
      /\ r.missing \subseteq gap[c]
  BY <1>0, <1>1 DEF ClientInv, ConnectionInv, CallInv
<1>4. /\ r.method = "POST" <=> k.op \in {"push", "post"}
      /\ r.method = "GET" <=> k.op \in Fetching
      /\ r.method = "HEAD" <=> k.op = "has"
      /\ r.method = "IMPORTS" => k.op \notin Fetching \union {"has", "push", "post"}
  BY <1>2, <1>3 DEF MethodOf, Fetching, Operations
<1>5. gap[c] \subseteq gap'[c]
  BY <1>1, <1>3, Shown
<1>6. k.op = "push" /\ (c \in held \/ remote'[k.id] # NoBytes) => c \in held'
  BY <1>1, <1>3, Shown
<1>7. \A i \in Identities :
         k.op \in Missing /\ i \in Sought(k) /\ i \notin Stored /\ UNCHANGED remote => i \in gap'[c]
  BY <1>1, <1>3, Shown DEF Stored
<1>8. met'[c] = {} /\ ~readOnly /\ k.op = "push" /\ Envelope[k.id] = k.id =>
         r.id = k.id /\ r.form = "cbor" /\ (r.at = "write" => k.id \in gap'[c])
  BY <1>0, <1>1, <1>5 DEF ClientInv, PushInv
<1>9. remote \in [Identities -> Identities \union {Damaged, NoBytes}] /\ wire \in [Clients -> Answer]
      /\ thread \in [Threads -> Request \union {NoRequest}]
  BY <1>1 DEF TypeOK, ServerTypeOK
<1>10. ASSUME NEW status \in Statuses \ {"none"}, NEW body, Reply(c, status, body),
              status = "404" /\ k.op \in {"get", "getBytes", "has"} /\ "blobFails" \notin met'[c]
              => k.id \in gap'[c],
              status = "200" => /\ k.op \in Fetching => body = Cbor[k.id]
                                /\ k.op = "push" /\ body = k.id => c \in held',
              met'[c] = {} /\ ~readOnly /\ k.op = "push" /\ Envelope[k.id] = k.id =>
                 \/ status = "200" /\ body = k.id
                 \/ status = "500" /\ Overtaken(c)'
       PROVE  ClientInv(c)'
  <2>1. thread'[c] = NoRequest /\ wire'[c] = Response(status, body, r.missing)
    BY <1>1, <1>9, <1>10 DEF Reply
  <2>2. QED
    BY <1>0, <1>1, <1>3, <1>5, <1>10, <2>1, AnsweredStep
<1>11. ASSUME NEW at, Goto(c, at), Unanswered,
              at = "write" /\ met'[c] = {} /\ k.op = "push" => k.id \notin Stored \/ r.id # k.id
       PROVE  ClientInv(c)'
  <2>1. /\ thread'[c].method = r.method /\ thread'[c].id = r.id /\ thread'[c].form = r.form
        /\ thread'[c].left = r.left /\ thread'[c].missing = r.missing /\ thread'[c] # NoRequest
        /\ thread'[c].at = at
    BY <1>0, <1>1, <1>2, <1>9, <1>11 DEF Goto, Request, NoRequest
  <2>2. at = "write" /\ met'[c] = {} /\ k.op = "push" /\ r.id = k.id => k.id \in gap'[c]
    BY <1>3, <1>7, <1>11 DEF Missing, Sought
  <2>3. QED
    BY <1>0, <1>1, <1>3, <1>5, <1>11, <2>1, <2>2, HandledStep
<1> HIDE DEF k, r

<1>12. CASE PostForbidden(c) \/ PostInvalid(c)
  <2>1. Form[k.id] \in Forms /\ (Envelope[k.id] = k.id => Form[k.id] = "cbor" /\ Envelope[k.id] # NoId)
    BY <1>3, EncodingAssumption, MarkersAssumption
  <2>2. r.method = "POST"
    BY <1>12 DEF PostForbidden, PostInvalid, r
  <2>3. ~(met'[c] = {} /\ ~readOnly /\ k.op = "push" /\ Envelope[k.id] = k.id)
    BY <1>8, <1>12, <2>1 DEF PostForbidden, PostInvalid, Acceptable, r
  <2>4. QED
    BY <1>10, <1>12, <2>3 DEF PostForbidden, PostInvalid
<1>13. CASE PostDecoded(c)
  <2>1. /\ thread'[c].method = r.method /\ thread'[c].id = Envelope[r.id]
        /\ thread'[c].form = r.form /\ thread'[c].missing = r.missing /\ thread'[c] # NoRequest
        /\ r.method = "POST" /\ UNCHANGED wire /\ thread'[c].at = "put"
    BY <1>0, <1>1, <1>2, <1>9, <1>13 DEF PostDecoded, Request, NoRequest, r
  <2>2. QED
    BY <1>0, <1>1, <1>3, <1>5, <2>1, HandledStep DEF k, r
<1>14. CASE PutPresent(c)
  <2>1. r.method = "POST" /\ remote'[r.id] # NoBytes /\ Reply(c, "200", r.id)
    BY <1>14 DEF PutPresent, Stored, r
  <2>2. k.op \notin Fetching \union {"has"}
    BY <1>4, <2>1 DEF Fetching
  <2>3. QED
    BY <1>2, <1>6, <1>8, <1>10, <2>1, <2>2
<1>15. CASE PutWrite(c)
  <2>1. r.method = "POST" /\ remote'[r.id] # NoBytes
    BY <1>2, <1>9, <1>15, MarkersAssumption DEF PutWrite, Stored, Publish, r
  <2>2. k.op \notin Fetching \union {"has"}
    BY <1>4, <2>1 DEF Fetching
  <2>3. /\ \/ Reply(c, "500", NoBytes) /\ backend = "blob"
           \/ Reply(c, "200", r.id)
        /\ r.at = "write"
    BY <1>15 DEF PutWrite, r
  <2>4. CASE Reply(c, "500", NoBytes) /\ backend = "blob"
    <3>1. met'[c] = {} /\ ~readOnly /\ k.op = "push" /\ Envelope[k.id] = k.id => Overtaken(c)'
      BY <1>1, <1>6, <1>8, <2>1, <2>3, <2>4, Shown DEF Overtaken, configVars, k
    <3>2. QED
      BY <1>10, <2>2, <2>4, <3>1 DEF Fetching
  <2>5. CASE Reply(c, "200", r.id)
    BY <1>2, <1>6, <1>8, <1>10, <2>1, <2>2, <2>5
  <2>6. QED
    BY <2>3, <2>4, <2>5
<1>16. CASE GetMissing(c) \/ GetVanished(c)
  <2>1. r.method \in {"GET", "IMPORTS"} /\ r.id \notin Stored /\ UNCHANGED remote
    BY <1>16 DEF GetMissing, GetVanished, r
  <2>2. k.op # "push" /\ (k.op \in {"get", "getBytes", "has"} => r.id = k.id)
    BY <1>3, <1>4, <2>1
  <2>3. k.op \in {"get", "getBytes", "has"} => k.id \in gap'[c]
    BY <1>3, <1>7, <2>1, <2>2 DEF Missing, Sought
  <2>4. Reply(c, "404", NoBytes) \/ Reply(c, "closed", NoBytes)
    BY <1>16 DEF GetMissing, GetVanished
  <2>5. QED
    BY <1>10, <2>2, <2>3, <2>4
<1>17. CASE GetRead(c)
  <2>1. r.method = "GET" /\ (Reply(c, "200", Cbor[r.id]) \/ Reply(c, "500", NoBytes))
    BY <1>17 DEF GetRead, r
  <2>2. k.op \in Fetching /\ r.id = k.id /\ k.op # "push"
    BY <1>3, <1>4, <2>1 DEF Fetching
  <2>3. QED
    BY <1>10, <2>1, <2>2
<1>18. CASE PutAbsent(c) \/ GetFound(c) \/ GetUrl(c)
  <2>1. \/ \E at : Goto(c, at) /\ Unanswered /\ (at = "write" => r.id \notin Stored)
        \/ r.method \in {"GET", "IMPORTS"} /\ Reply(c, "500", NoBytes)
    BY <1>18 DEF PutAbsent, GetFound, GetUrl, r
  <2>2. r.method \in {"GET", "IMPORTS"} => k.op # "push"
    BY <1>4
  <2>3. QED
    BY <1>10, <1>11, <2>1, <2>2
<1>19. CASE ImportsRead(c)
  <2>1. r.method = "IMPORTS" /\ k.op # "push"
    BY <1>4, <1>19 DEF ImportsRead, r
  <2>2. CASE Reply(c, "500", NoBytes)
    BY <1>10, <2>1, <2>2
  <2>3. CASE /\ thread' = [thread EXCEPT ![c].at = "targets", ![c].left = Imports[r.id]]
             /\ Unanswered
    <3>1. /\ thread'[c].method = r.method /\ thread'[c].id = r.id /\ thread'[c].form = r.form
          /\ thread'[c].left = Imports[r.id] /\ thread'[c].missing = r.missing
          /\ thread'[c] # NoRequest /\ thread'[c].at = "targets"
      BY <1>0, <1>1, <1>2, <1>9, <2>3 DEF Request, NoRequest, r
    <3>2. QED
      BY <1>0, <1>1, <1>3, <1>5, <2>1, <2>3, <3>1, HandledStep DEF k, r
  <2>4. QED
    BY <1>19, <2>2, <2>3 DEF ImportsRead, r
<1>20. CASE ImportsLookUp(c)
  <2>1. r.method = "IMPORTS" /\ UNCHANGED remote
    BY <1>20 DEF ImportsLookUp, r
  <2>2. PICK i \in r.left :
          thread' = [thread EXCEPT ![c].left = @ \ {i}, ![c].missing = @ \union ({i} \ Stored)]
    BY <1>20 DEF ImportsLookUp, r
  <2>3. /\ thread'[c].method = r.method /\ thread'[c].id = r.id /\ thread'[c].form = r.form
        /\ thread'[c].left = r.left \ {i} /\ thread'[c].missing = r.missing \union ({i} \ Stored)
        /\ thread'[c] # NoRequest /\ thread'[c].at = r.at
    BY <1>0, <1>1, <1>2, <1>9, <2>2 DEF Request, NoRequest, r
  <2>4. k.op = "imports"
    <3>1. k.op \notin {"put", "index"}
      BY <1>1, <1>3 DEF CallInv, k
    <3>2. QED
      BY <1>2, <1>4, <2>1, <3>1 DEF Operations, Fetching
  <2>5. i \in Identities /\ i \in Sought(k)
    BY <1>2, <1>3, <2>1, <2>4 DEF Request, Sought
  <2>6. {i} \ Stored \subseteq gap'[c]
    BY <1>7, <2>1, <2>4, <2>5 DEF Missing
  <2>7. QED
    BY <1>0, <1>1, <1>3, <1>5, <1>20, <2>1, <2>3, <2>6, HandledStep DEF ImportsLookUp, k, r
<1>21. CASE ImportsAnswer(c)
  <2>1. r.method = "IMPORTS" /\ Reply(c, "200", NoBytes)
    BY <1>21 DEF ImportsAnswer, r
  <2>2. QED
    BY <1>4, <1>10, <2>1
<1>22. CASE HeadAnswer(c)
  <2>1. r.method = "HEAD" /\ UNCHANGED remote
    BY <1>22 DEF HeadAnswer, r
  <2>2. k.op = "has" /\ r.id = k.id
    BY <1>3, <1>4, <2>1
  <2>3. k.id \notin Stored => k.id \in gap'[c]
    BY <1>3, <1>7, <2>1, <2>2 DEF Missing, Sought
  <2>4. Reply(c, IF k.id \in Stored THEN "200" ELSE "404", NoBytes)
    BY <1>22, <2>2 DEF HeadAnswer, r
  <2>5. QED
    BY <1>10, <2>2, <2>3, <2>4 DEF Fetching
<1>23. CASE HandleFails(c) /\ Meet({c}, ServerFault)
  <2>1. /\ met'[c] = met[c] \union {ServerFault}
        /\ backend = "blob" => "blobFails" \in met'[c]
    BY <1>1, <1>23 DEF Meet, TypeOK, ServerFault
  <2>2. ASSUME NEW status \in {"500", "closed"}, Reply(c, status, NoBytes)
        PROVE  ClientInv(c)'
    BY <1>10, <2>1, <2>2
  <2>3. CASE backend = "blob" /\ Reply(c, "404", NoBytes)
    BY <1>10, <2>1, <2>3
  <2>4. CASE Goto(c, "write") /\ Unanswered
    BY <1>11, <2>1, <2>4
  <2>5. QED
    BY <1>23, <2>2, <2>3, <2>4
    DEF HandleFails, PutLookFails, PutFails, DiskFails, GetFails, HeadFails, BlobFault
<1>24. QED
  BY <1>12, <1>13, <1>14, <1>15, <1>16, <1>17, <1>18, <1>19, <1>20, <1>21, <1>22, <1>23 DEF Handle

\* The end of a call that had nothing to wait for, or has its answer.
LEMMA EndStep ==
    ASSUME Inv, Next, NEW c \in Clients, NEW k, NEW result, NEW data,
           k \in Call, End(c, k, result, data), thread'[c] = NoRequest, wire'[c] = NoAnswer,
           result \in {"NotFound", "false"} /\ "blobFails" \notin met'[c] => k.id \in gap'[c],
           result = "pushed" => k.op = "push" /\ ("forge" \notin met'[c] => c \in held'),
           /\ met'[c] = {} /\ ~readOnly /\ k.op = "push" /\ Envelope[k.id] = k.id
           /\ result \in {"refused", "failed", "ConnectionError"}
           => Overtaken(c)'
    PROVE  ClientInv(c)'
<1>1. call \in [Clients -> Call]
  BY DEF Inv, TypeOK, ClientTypeOK
<1>2. /\ call'[c].at = "done" /\ call'[c].op = k.op /\ call'[c].id = k.id
      /\ call'[c].result = result
  BY <1>1 DEF End, Call
<1>3. UNCHANGED configVars
  BY Shown
<1>4. QED
  BY <1>2, <1>3, QuietStep DEF Ended, configVars

\* A request is sent for the call k.
LEMMA SendStep ==
    ASSUME Inv, Next, NEW c \in Clients, NEW k \in Call, NEW method, NEW form,
           Send(c, k, method, form), method = MethodOf(k.op), k.op = "push" => form = "cbor"
    PROVE  ClientInv(c)'
<1> DEFINE r == [at |-> "start", method |-> method, id |-> k.id, form |-> form,
                 left |-> {}, missing |-> {}]
<1>1. /\ call \in [Clients -> Call] /\ wire \in [Clients -> Answer]
      /\ thread \in [Threads -> Request \union {NoRequest}] /\ c \in Threads
  BY DEF Inv, TypeOK, ClientTypeOK, ServerTypeOK, Threads
<1>2. call'[c].at = "await" /\ call'[c].op = k.op /\ call'[c].id = k.id
  BY <1>1 DEF Send, Call
<1>3. thread'[c] = r /\ wire'[c] = NoAnswer
  BY <1>1 DEF Send
<1>4. /\ r.at = "start" /\ r.method = method /\ r.id = k.id /\ r.form = form
      /\ r.left = {} /\ r.missing = {}
  OBVIOUS
<1> HIDE DEF r
<1>5. QED
  BY <1>2, <1>3, <1>4, AskedStep

\* A read of the cache.
LEMMA ReadCachedStep ==
    ASSUME Inv, Next, NEW c \in Clients, NEW k \in Call, ReadCached(c, k), k.op \in Fetching,
           thread[c] = NoRequest, wire[c] = NoAnswer
    PROVE  ClientInv(c)'
<1>1. thread'[c] = NoRequest /\ wire'[c] = NoAnswer
  BY DEF ReadCached, Offline, serverVars
<1>2. CASE \E result \in {"IntegrityError", "CodifideError", "bytes", "resolved"},
              data \in {k.id, NoBytes} : End(c, k, result, data)
  BY <1>1, <1>2, EndStep
<1>3. CASE k.todo # <<>> /\
           call' = [call EXCEPT ![c] = [k EXCEPT !.at = "next", !.id = Head(k.todo),
                                                 !.todo = Tail(k.todo), !.data = NoBytes]]
  <2>1. call'[c].at = "next" /\ call'[c].op = k.op
    BY <1>3 DEF Inv, TypeOK, ClientTypeOK, Call
  <2>2. QED
    BY <1>1, <2>1, QuietStep DEF Ended, Fetching
<1>4. QED
  BY <1>2, <1>3 DEF ReadCached, Obtained, Fail

\* A client begins a call.
LEMMA BeginStep ==
    ASSUME Inv, Next, NEW c \in Clients, Begin(c), UNCHANGED met
    PROVE  ClientInv(c)'
<1> USE DEF Fetching
<1>0. <<>> \in Seq(Identities)
  OBVIOUS
<1>1. call[c].at = "idle"
  BY DEF Begin, ReadBegin, HasBegin, PutLocal, IndexLocal, WriteLocal, PushBegin, PostBegin,
         ImportsBegin, Begins, MayCall
<1>2. thread[c] = NoRequest /\ wire[c] = NoAnswer
  BY <1>1 DEF Inv, ClientInv, ConnectionInv
<1>3. CASE ReadBegin(c)
  <2>1. PICK op \in {"get", "getBytes", "run"}, i \in Identities,
             todo \in {<<>>} \union {Tail(m) : m \in Modules} :
          ReadCached(c, Began(op, i, todo)) \/ Fetch(c, Began(op, i, todo))
    BY <1>3 DEF ReadBegin
  <2>2. todo \in Seq(Identities) /\ op \in Operations
    <3>1. \A m \in Modules : Tail(m) \in Seq(Identities)
      BY ClientAssumption
    <3>2. QED
      BY <1>0, <3>1 DEF Operations
  <2>k. PICK k : k = Began(op, i, todo)
    OBVIOUS
  <2>3. k \in Call /\ k.op = op
    BY <2>2, <2>k, BeganType
  <2>4. CASE ReadCached(c, k)
    BY <1>2, <2>3, <2>4, ReadCachedStep
  <2>5. CASE Fetch(c, k)
    BY <2>3, <2>5, SendStep DEF Fetch, MethodOf
  <2>6. QED
    BY <2>1, <2>4, <2>5, <2>k
<1>4. CASE HasBegin(c) \/ PushBegin(c) \/ PostBegin(c) \/ ImportsBegin(c)
  <2>1. PICK op \in {"has", "push", "post", "imports"}, i \in Identities :
          \/ End(c, Began(op, i, <<>>), "true", NoBytes) /\ Offline
          \/ End(c, Began(op, i, <<>>), "unreadable", NoBytes) /\ Offline
          \/ \E form : /\ Send(c, Began(op, i, <<>>), MethodOf(op), form)
                       /\ op = "push" => form = "cbor"
    <3>1. CASE HasBegin(c)
      BY <3>1 DEF HasBegin, MethodOf
    <3>2. CASE PushBegin(c)
      BY <3>2 DEF PushBegin, MethodOf
    <3>3. CASE PostBegin(c)
      BY <3>3 DEF PostBegin, MethodOf
    <3>4. CASE ImportsBegin(c)
      BY <3>4 DEF ImportsBegin, MethodOf
    <3>5. QED
      BY <1>4, <3>1, <3>2, <3>3, <3>4
  <2>2. op \in Operations
    BY DEF Operations
  <2>k. PICK k : k = Began(op, i, <<>>)
    OBVIOUS
  <2>3. k \in Call /\ k.op = op
    BY <1>0, <2>2, <2>k DEF Began, NoCall, Call, Results
  <2>4. CASE (End(c, k, "true", NoBytes) \/ End(c, k, "unreadable", NoBytes)) /\ Offline
    BY <1>2, <2>3, <2>4, EndStep DEF Offline, serverVars
  <2>5. CASE \E form : Send(c, k, MethodOf(op), form) /\ (op = "push" => form = "cbor")
    BY <2>3, <2>5, SendStep
  <2>6. QED
    BY <2>1, <2>4, <2>5, <2>k
<1>5. CASE PutLocal(c) \/ IndexLocal(c)
  <2>1. PICK op \in {"put", "index"}, i \in Standard :
          End(c, Began(op, i, <<>>), "identity", NoBytes) /\ Offline
    BY <1>5 DEF PutLocal, IndexLocal, WriteLocal
  <2>2. i \in Identities /\ op \in Operations
    BY DEF Standard, Operations
  <2>k. PICK k : k = Began(op, i, <<>>)
    OBVIOUS
  <2>3. k \in Call /\ k.op = op
    BY <1>0, <2>2, <2>k DEF Began, NoCall, Call, Results
  <2>4. QED
    BY <1>2, <2>1, <2>k, <2>3, EndStep DEF Offline, serverVars
<1>6. QED
  BY <1>3, <1>4, <1>5 DEF Begin

\* The thread of a call that has its answer has ended.
LEMMA AnswerTaken ==
    ASSUME Inv, NEW c \in Clients, wire[c].status # "none", Taken(c)
    PROVE  thread'[c] = NoRequest /\ wire'[c] = NoAnswer
<1>1. thread[c] = NoRequest
  BY DEF Inv, ClientInv, ConnectionInv, NoAnswer, Response
<1>2. wire \in [Clients -> Answer]
  BY DEF Inv, TypeOK, ServerTypeOK
<1>3. QED
  BY <1>1, <1>2 DEF Taken

\* A client goes on with its call.
LEMMA ContinueStep ==
    ASSUME Inv, Next, NEW c \in Clients, Continue(c) \/ CacheFails(c),
           call[c].at # "done" => met[c] \subseteq met'[c]
    PROVE  ClientInv(c)'
<1> DEFINE k == call[c]
<1> USE DEF Fetching
<1>1. /\ TypeOK /\ ClientInv(c) /\ CallInv(c) /\ k \in Call
      /\ call \in [Clients -> Call] /\ local \in [Identities -> Identities \union {Damaged, NoBytes}]
  BY DEF Inv, TypeOK, ClientTypeOK
<1>2. /\ k.at # "await" => thread[c] = NoRequest /\ wire[c] = NoAnswer
      /\ k.at # "idle" => k.id \in Identities
  BY <1>1 DEF ClientInv, ConnectionInv, CallInv
<1>3. /\ gap'[c] \subseteq Sought(call'[c])
      /\ call'[c].op = k.op /\ call'[c].id = k.id /\ call'[c].at # "idle" =>
            gap[c] \subseteq gap'[c] /\ (k.op = "push" /\ c \in held => c \in held')
  BY Shown
<1>4. \A result, data : End(c, k, result, data) =>
         /\ call'[c].at = "done" /\ call'[c].op = k.op /\ call'[c].id = k.id
         /\ gap[c] \subseteq gap'[c] /\ (k.op = "push" /\ c \in held => c \in held')
  BY <1>1, <1>3 DEF End, Call
<1>5. CASE ReadNext(c)
  <2>1. k.at = "next" /\ k.op = "run"
    BY <1>1, <1>5 DEF ReadNext, CallInv
  <2>2. CASE ReadCached(c, k)
    BY <1>1, <1>2, <2>1, <2>2, ReadCachedStep
  <2>3. CASE Fetch(c, k)
    BY <1>1, <2>1, <2>3, SendStep DEF Fetch, MethodOf
  <2>4. QED
    BY <1>5, <2>2, <2>3 DEF ReadNext
<1>6. CASE FetchFails(c)
  <2>1. thread'[c] = NoRequest /\ wire'[c] = NoAnswer
    BY <1>6, AnswerTaken DEF FetchFails, Awaits
  <2>2. /\ End(c, k, IF k.op = "run" THEN "CodifideError" ELSE Raised(wire[c].status), NoBytes)
        /\ k.op \in Fetching
    BY <1>6 DEF FetchFails, Awaits, Fail
  <2>3. Raised(wire[c].status) = "NotFound" /\ k.op # "run" /\ "blobFails" \notin met'[c]
        => k.id \in gap'[c]
    <3>1. k.at # "done"
      BY <1>6 DEF FetchFails, Awaits
    <3>2. QED
      BY <1>1, <1>4, <2>2, <3>1 DEF ClientInv, AnswerInv, Raised
  <2>4. Raised(wire[c].status) \in {"NotFound", "ConnectionError", "StoreError"}
    BY DEF Raised
  <2>5. QED
    BY <1>1, <2>1, <2>2, <2>3, <2>4, EndStep
<1>7. CASE FetchRejected(c)
  <2>1. thread'[c] = NoRequest /\ wire'[c] = NoAnswer
    BY <1>7, AnswerTaken DEF FetchRejected, Awaits
  <2>2. QED
    BY <1>1, <1>7, <2>1, EndStep DEF FetchRejected, Awaits, Fail
<1>8. CASE FetchVerified(c)
  <2>1. thread'[c] = NoRequest /\ wire'[c] = NoAnswer
    BY <1>8, AnswerTaken DEF FetchVerified, Awaits
  <2>2. call'[c].at = "cache" /\ call'[c].op = k.op /\ k.op \in Fetching
    BY <1>1, <1>8 DEF FetchVerified, Awaits, Call
  <2>3. QED
    BY <2>1, <2>2, QuietStep DEF Ended
<1>9. CASE Cache(c) \/ CacheFails(c)
  <2>1. k.at = "cache" /\ k.op \in Fetching /\ k.data = k.id
    BY <1>1, <1>9 DEF Cache, CacheFails, CallInv
  <2>2. thread'[c] = NoRequest /\ wire'[c] = NoAnswer
    BY <1>2, <1>9, <2>1 DEF Cache, CacheFails, Offline, serverVars
  <2>3. CASE \E result \in {"bytes", "CodifideError", "OSError"} : \E data : End(c, k, result, data)
    BY <1>1, <2>1, <2>2, <2>3, EndStep
  <2>4. CASE Cache(c) /\ call' = [call EXCEPT ![c].at = "reread"]
    <3>1. call'[c].at = "reread" /\ call'[c].op = k.op /\ call'[c].id = k.id
      BY <1>1, <2>4 DEF Call
    <3>2. k.id \in Cached'
      BY <1>1, <1>2, <2>1, <2>4, MarkersAssumption DEF Cache, Cached
    <3>3. QED
      BY <2>1, <2>2, <3>1, <3>2, QuietStep DEF Ended
  <2>5. QED
    BY <1>9, <2>3, <2>4 DEF Cache, CacheFails, Fail
<1>10. CASE Reread(c)
  <2>1. k.at = "reread" /\ k.op \in Fetching
    BY <1>1, <1>10 DEF Reread, CallInv
  <2>2. CASE ReadCached(c, k)
    BY <1>1, <1>2, <2>1, <2>2, ReadCachedStep
  <2>3. CASE k.id \notin Cached /\ Fail(c, k, "NotFound") /\ Offline
    <3>1. k.op # "run" => k.id \in gap[c]
      BY <1>1, <2>1, <2>3 DEF ClientInv, AbsenceInv
    <3>2. End(c, k, IF k.op = "run" THEN "CodifideError" ELSE "NotFound", NoBytes)
      BY <2>3 DEF Fail
    <3>3. QED
      BY <1>1, <1>2, <1>4, <2>1, <2>3, <3>1, <3>2, EndStep DEF Offline, serverVars
  <2>4. QED
    BY <1>10, <2>2, <2>3 DEF Reread
<1>11. CASE HasAnswered(c)
  <2>1. thread'[c] = NoRequest /\ wire'[c] = NoAnswer /\ k.op = "has"
    BY <1>11, AnswerTaken DEF HasAnswered, Awaits
  <2>2. PICK result :
          /\ End(c, k, result, NoBytes)
          /\ result \in {"true", "StoreError", "ConnectionError"} \/
             (result = "false" /\ wire[c].status = "404")
    BY <1>11 DEF HasAnswered, Raised
  <2>3. result = "false" /\ "blobFails" \notin met'[c] => k.id \in gap'[c]
    <3>1. k.at # "done"
      BY <1>11 DEF HasAnswered, Awaits
    <3>2. QED
      BY <1>1, <1>4, <2>1, <2>2, <3>1 DEF ClientInv, AnswerInv
  <2>4. QED
    BY <1>1, <2>1, <2>2, <2>3, EndStep
<1>12. CASE PushAnswered(c)
  <2>1. /\ thread'[c] = NoRequest /\ wire'[c] = NoAnswer /\ k.op = "push" /\ k.at = "await"
        /\ wire[c].status # "none"
    BY <1>12, AnswerTaken DEF PushAnswered, Awaits
  <2>2. PICK result :
          /\ End(c, k, result, NoBytes)
          /\ \/ result = "ConnectionError" /\ wire[c].status = "closed"
             \/ result = "failed" /\ wire[c].status \notin {"closed", "200"}
             \/ result = "pushed" /\ wire[c].status = "200" /\ wire[c].body = k.id
             \/ result = "refused" /\ wire[c].status = "200" /\ wire[c].body # k.id
    <3> DEFINE out == CASE wire[c].status = "closed" -> "ConnectionError"
                        [] wire[c].status = "200"    ->
                             IF wire[c].body = k.id THEN "pushed" ELSE "refused"
                        [] OTHER                     -> "failed"
    <3>1. End(c, k, out, NoBytes)
      BY <1>12 DEF PushAnswered
    <3>2. \/ out = "ConnectionError" /\ wire[c].status = "closed"
          \/ out = "failed" /\ wire[c].status \notin {"closed", "200"}
          \/ out = "pushed" /\ wire[c].status = "200" /\ wire[c].body = k.id
          \/ out = "refused" /\ wire[c].status = "200" /\ wire[c].body # k.id
      OBVIOUS
    <3> HIDE DEF out
    <3>3. QED
      BY <3>1, <3>2
  <2>3. c \in held => c \in held'
    BY <1>4, <2>1, <2>2
  <2>4. met[c] \subseteq met'[c]
    BY <2>1
  <2>5. result = "pushed" => ("forge" \notin met'[c] => c \in held')
    BY <1>1, <2>1, <2>2, <2>3, <2>4 DEF ClientInv, AnswerInv
  <2>6. met'[c] = {} /\ ~readOnly /\ Envelope[k.id] = k.id /\
           result \in {"refused", "failed", "ConnectionError"} => Overtaken(c)'
    <3>1. SUFFICES ASSUME met'[c] = {}, ~readOnly, Envelope[k.id] = k.id,
                          result \in {"refused", "failed", "ConnectionError"}
                   PROVE  Overtaken(c)'
      OBVIOUS
    <3>2. Overtaken(c)
      BY <1>1, <2>1, <2>2, <2>4, <3>1 DEF ClientInv, PushInv
    <3>3. UNCHANGED backend /\ call'[c].id = k.id /\ gap[c] \subseteq gap'[c]
      BY <1>4, <2>2, Shown DEF configVars
    <3>4. QED
      BY <2>3, <3>2, <3>3 DEF Overtaken
  <2>7. QED
    BY <1>1, <2>1, <2>2, <2>5, <2>6, EndStep
<1>13. CASE AgentAnswered(c)
  <2>1. thread'[c] = NoRequest /\ wire'[c] = NoAnswer
    BY <1>13, AnswerTaken DEF AgentAnswered, Awaits
  <2>2. QED
    BY <1>1, <1>13, <2>1, EndStep DEF AgentAnswered
<1>14. CASE Return(c)
  <2>1. thread'[c] = NoRequest /\ wire'[c] = NoAnswer /\ call'[c] = NoCall
    BY <1>1, <1>2, <1>14 DEF Return, Offline, serverVars
  <2>2. QED
    BY <2>1, QuietStep DEF NoCall, Ended
<1>15. QED
  BY <1>5, <1>6, <1>7, <1>8, <1>9, <1>10, <1>11, <1>12, <1>13, <1>14 DEF Continue

\* Another answer, a request that does not arrive, a connection that breaks.
LEMMA NetworkStep ==
    ASSUME Inv, Next, NEW c \in Clients, Forge(c) \/ CutOff(c) \/ Unreachable(c) \/ Disconnect(c)
    PROVE  ClientInv(c)'
<1>1. /\ TypeOK /\ ClientInv(c) /\ CallInv(c) /\ call[c] \in Call /\ c \in Threads
      /\ wire \in [Clients -> Answer] /\ thread \in [Threads -> Request \union {NoRequest}]
  BY DEF Inv, TypeOK, ClientTypeOK, ServerTypeOK, Threads
<1>2. met'[c] # {} /\ met[c] \subseteq met'[c]
  BY <1>1 DEF Forge, CutOff, Unreachable, Disconnect, Fault, Meet, TypeOK
<1>3. CASE Forge(c) \/ CutOff(c)
  <2>1. /\ wire[c].status = "200" /\ UNCHANGED <<call, thread>>
        /\ wire'[c].status = "200" /\ wire'[c].missing = wire[c].missing
        /\ "forge" \in met'[c] \/ ("cut" \in met'[c] /\ wire'[c].body = Foreign)
    BY <1>1, <1>3 DEF Forge, CutOff, clientVars, Answer, Fault, Meet, TypeOK
  <2>2. thread[c] = NoRequest /\ call[c].at = "await"
    BY <1>1, <2>1 DEF ClientInv, ConnectionInv, NoAnswer, Response
  <2>3. gap'[c] \subseteq Sought(call'[c]) /\ (call'[c].op \in Missing \/ gap'[c] = {})
    BY Shown
  <2>4. gap[c] \subseteq gap'[c]
    BY <2>1, <2>2, Shown
  <2>5. call[c].id \in Identities
    BY <1>1, <2>2 DEF CallInv
  <2>6. QED
    BY <1>1, <1>2, <2>1, <2>2, <2>3, <2>4, <2>5, MarkersAssumption
    DEF ClientInv, ConnectionInv, AnswerInv, AbsenceInv, PushInv, Missing, Ended
<1>4. CASE Unreachable(c)
  <2>1. wire[c] = NoAnswer /\ thread'[c] = NoRequest /\ UNCHANGED wire
    BY <1>1, <1>4 DEF Unreachable, ClientInv, ConnectionInv
  <2>2. \E result \in {"CodifideError", "StoreError", "failed"} : End(c, call[c], result, NoBytes)
    BY <1>4 DEF Unreachable, GiveUp, Fail
  <2>3. QED
    BY <1>1, <1>2, <2>1, <2>2, EndStep
<1>5. CASE Disconnect(c)
  <2>1. thread'[c] = NoRequest
    BY <1>1, <1>5, MarkersAssumption DEF Disconnect, Abandon
  <2>2. wire'[c] = NoAnswer
    BY <1>1, <1>5 DEF Disconnect
  <2>3. \E result \in {"CodifideError", "ConnectionError"} : End(c, call[c], result, NoBytes)
    BY <1>5 DEF Disconnect, GiveUp, Fail
  <2>4. QED
    BY <1>1, <1>2, <2>1, <2>2, <2>3, EndStep
<1>6. QED
  BY <1>3, <1>4, <1>5

\* The server dies and starts again.
LEMMA RestartStep ==
    ASSUME Inv, Next, NEW c \in Clients, Restart
    PROVE  ClientInv(c)'
<1>1. thread'[c] = NoRequest /\ UNCHANGED call /\ c \in Threads
      /\ met'[c] = IF thread[c] # NoRequest THEN met[c] \union {"restart"} ELSE met[c]
  BY DEF Restart, clientVars, Threads, Fault, Meet
<1>2. CASE thread[c] = NoRequest
  <2>1. UNCHANGED wire[c]
    BY <1>2 DEF Restart
  <2>2. QED
    BY <1>1, <1>2, <2>1, UntouchedStep DEF Untouched
<1>3. CASE thread[c] # NoRequest
  <2>1. wire'[c] = Response("closed", NoBytes, {})
    BY <1>3 DEF Restart
  <2>2. met'[c] # {}
    BY <1>1, <1>3
  <2>3. QED
    BY <1>1, <1>3, <2>1, <2>2, AnsweredStep DEF Statuses
<1>4. QED
  BY <1>2, <1>3

\* What a step does to one client: nothing, or what its call, its thread or its
\* connection does.
LEMMA ClientStep ==
    ASSUME Inv, Next, NEW c \in Clients
    PROVE  ClientInv(c)'
<1>0. /\ call \in [Clients -> Call] /\ wire \in [Clients -> Answer] /\ TypeOK
      /\ thread \in [Threads -> Request \union {NoRequest}] /\ c \in Threads
      /\ c \notin Strays
  BY MarkersAssumption DEF Inv, TypeOK, ClientTypeOK, ServerTypeOK, Threads
<1> USE DEF clientVars, serverVars
<1>1. ASSUME NEW d \in Clients, Enter(d)
      PROVE  ClientInv(c)'
  <2>1. CASE d = c
    BY <1>1, <2>1, BeginStep DEF Enter
  <2>2. CASE d # c
    <3>1. \E k : call' = [call EXCEPT ![d] = k]
      <4>1. ASSUME NEW k, ReadCached(d, k) \/ Fetch(d, k)
            PROVE  \E e : call' = [call EXCEPT ![d] = e]
        BY <4>1 DEF ReadCached, Obtained, Fetch, Fail, End, Send
      <4>2. CASE ReadBegin(d)
        BY <4>1, <4>2 DEF ReadBegin
      <4>3. CASE ~ReadBegin(d)
        BY <1>1, <4>3
        DEF Enter, Begin, HasBegin, PutLocal, IndexLocal, WriteLocal, PushBegin, PostBegin,
            ImportsBegin, End, Send
      <4>4. QED
        BY <4>2, <4>3
    <3>2. \/ UNCHANGED <<thread, wire>>
          \/ \E r : /\ thread' = [thread EXCEPT ![d] = r]
                    /\ wire' = [wire EXCEPT ![d] = NoAnswer]
      <4>1. ASSUME NEW k, ReadCached(d, k) \/ Fetch(d, k)
            PROVE  \/ UNCHANGED <<thread, wire>>
                   \/ \E r : /\ thread' = [thread EXCEPT ![d] = r]
                             /\ wire' = [wire EXCEPT ![d] = NoAnswer]
        BY <4>1 DEF ReadCached, Offline, Fetch, Send
      <4>2. CASE ReadBegin(d)
        BY <4>1, <4>2 DEF ReadBegin
      <4>3. CASE ~ReadBegin(d)
        BY <1>1, <4>3
        DEF Enter, Begin, HasBegin, PutLocal, IndexLocal, WriteLocal, PushBegin, PostBegin,
            ImportsBegin, Offline, Send
      <4>4. QED
        BY <4>2, <4>3
    <3>3. Untouched(c)
      BY <1>0, <1>1, <2>2, <3>1, <3>2 DEF Untouched, Enter
    <3>4. QED
      BY <3>3, UntouchedStep
  <2>3. QED
    BY <2>1, <2>2
<1>2. ASSUME NEW d \in Clients,
             \/ Continue(d) /\ met' = IF call[d].at = "done" THEN [met EXCEPT ![d] = {}] ELSE met
             \/ CacheFails(d) /\ Meet({d}, "diskFull")
      PROVE  ClientInv(c)'
  <2>1. CASE d = c
    <3>1. call[d].at # "done" => met[c] \subseteq met'[c]
      BY <1>2, <2>1 DEF Meet
    <3>2. QED
      BY <1>2, <2>1, <3>1, ContinueStep
  <2>2. CASE d # c
    <3>1. UNCHANGED met[c]
      BY <1>0, <1>2, <2>2 DEF Meet, TypeOK
    <3>2. UNCHANGED <<call[c], thread[c], wire[c]>>
      BY <1>0, <1>2, <2>2
      DEF Continue, ReadNext, ReadCached, Obtained, Fetch, Fail, End, Send, Offline, Taken,
          FetchFails, FetchRejected, FetchVerified, Cache, CacheFails, Reread, HasAnswered,
          PushAnswered, AgentAnswered, Return
    <3>3. QED
      BY <3>1, <3>2, UntouchedStep DEF Untouched
  <2>3. QED
    BY <2>1, <2>2
<1>3. ASSUME NEW t \in Threads,
             \/ Handle(t) /\ UNCHANGED met
             \/ HandleFails(t) /\ Meet({t}, ServerFault),
             UNCHANGED clientVars
      PROVE  ClientInv(c)'
  <2>1. CASE t = c
    BY <1>3, <2>1, OwnThreadStep
  <2>2. CASE t # c
    <3>1. Untouched(c)
      BY <1>0, <1>3, <2>2
      DEF Untouched, Meet, Handle, HandleFails, Keep, Unanswered, Uncaught, Reply, Goto, PostForbidden,
          PostInvalid, PostDecoded, PutPresent, PutAbsent, PutWrite, GetMissing, GetFound, GetUrl,
          GetRead, GetVanished, ImportsRead, ImportsLookUp, ImportsAnswer, HeadAnswer, PutLookFails, PutFails,
          DiskFails, GetFails, HeadFails
    <3>2. QED
      BY <3>1, UntouchedStep
  <2>3. QED
    BY <2>1, <2>2
<1>4. ASSUME NEW i \in Identities, Collect(i) \/ DamageLocal(i) \/ DamageRemote(i)
      PROVE  ClientInv(c)'
  <2>1. Untouched(c)
    BY <1>0, <1>4 DEF Untouched, Collect, DamageLocal, DamageRemote, Fault, Meet, TypeOK
  <2>2. QED
    BY <2>1, UntouchedStep
<1>5. ASSUME NEW d \in Clients, Forge(d) \/ CutOff(d) \/ Unreachable(d) \/ Disconnect(d)
      PROVE  ClientInv(c)'
  <2>1. CASE d = c
    BY <1>5, <2>1, NetworkStep
  <2>2. CASE d # c
    <3>1. UNCHANGED thread[c]
      BY <1>0, <1>5, <2>2 DEF Forge, CutOff, Unreachable, Disconnect, Abandon
    <3>2. UNCHANGED <<call[c], wire[c], met[c]>>
      BY <1>0, <1>5, <2>2 DEF Forge, CutOff, Unreachable, Disconnect, GiveUp, Fail, End, Fault, Meet,
                              TypeOK
    <3>3. QED
      BY <3>1, <3>2, UntouchedStep DEF Untouched
  <2>3. QED
    BY <2>1, <2>2
<1>6. CASE Breaks
  BY <1>2, <1>3, <1>6 DEF Breaks
<1>7. QED
  BY <1>1, <1>2, <1>3, <1>4, <1>5, <1>6, RestartStep DEF Next, Proceed, Serve, Environment

\* A thread of a read-only registry never comes to write.
LEMMA HarmlessStep ==
    ASSUME Inv, Next, readOnly, NEW t \in Threads
    PROVE  Harmless(t)'
<1> USE DEF Harmless
<1>0. /\ Harmless(t) /\ thread \in [Threads -> Request \union {NoRequest}]
      /\ \A u \in Threads : Harmless(u)
  BY DEF Inv, TypeOK, ServerTypeOK
<1>1. ASSUME NEW u \in Threads, Handle(u) \/ HandleFails(u)
      PROVE  Harmless(t)'
  <2>1. CASE t # u
    <3>1. UNCHANGED thread[t]
      BY <1>0, <1>1, <2>1
      DEF Handle, HandleFails, Uncaught, Reply, Goto, PostForbidden, PostInvalid, PostDecoded,
          PutPresent, PutAbsent, PutWrite, GetMissing, GetFound, GetUrl, GetRead, GetVanished,
          ImportsRead, ImportsLookUp, ImportsAnswer, HeadAnswer, PutLookFails, PutFails, DiskFails, GetFails,
          HeadFails
    <3>2. QED
      BY <1>0, <3>1
  <2>2. CASE t = u
    <3>1. CASE thread'[t] = NoRequest
      BY <3>1
    <3>2. CASE thread[t].method # "POST" /\ thread'[t].method = thread[t].method
      BY <3>2
    <3>3. thread'[t] = NoRequest \/ (thread[t].method # "POST" /\ thread'[t].method = thread[t].method)
      <4>1. CASE \E status, body : Reply(t, status, body)
        BY <1>0, <4>1 DEF Reply
      <4>2. CASE GetFound(t) \/ GetUrl(t) \/ ImportsRead(t) \/ ImportsLookUp(t)
        <5>1. thread[t].method # "POST" /\ thread[t] \in Request
          BY <1>0, <4>2 DEF GetFound, GetUrl, ImportsRead, ImportsLookUp, At, Reading
        <5>2. (\E status, body : Reply(t, status, body)) \/ thread'[t].method = thread[t].method
          BY <1>0, <4>2, <5>1 DEF GetFound, GetUrl, ImportsRead, ImportsLookUp, Goto, Request
        <5>3. QED
          BY <4>1, <5>1, <5>2
      <4>3. ~PostDecoded(t) /\ ~PutAbsent(t) /\ ~PutLookFails(t)
        BY <1>0 DEF PostDecoded, PutAbsent, PutLookFails, At
      <4>4. QED
        BY <1>1, <2>2, <4>1, <4>2, <4>3
        DEF Handle, HandleFails, Uncaught, PostForbidden, PostInvalid, PutPresent, PutWrite,
            GetMissing, GetRead, GetVanished, ImportsAnswer, HeadAnswer, PutLookFails, PutFails, DiskFails,
            GetFails, HeadFails
    <3>4. QED
      BY <3>1, <3>2, <3>3
  <2>3. QED
    BY <2>1, <2>2
<1>2. ASSUME NEW d \in Clients, Begin(d) \/ Continue(d) \/ CacheFails(d)
      PROVE  Harmless(t)'
  <2>1. UNCHANGED thread \/ \E k, method, form : Send(d, k, method, form)
    BY <1>2
    DEF Begin, Continue, ReadBegin, HasBegin, PutLocal, IndexLocal, WriteLocal, PushBegin, PostBegin,
        ImportsBegin, ReadNext, ReadCached, Fetch, Offline, serverVars, FetchFails, FetchRejected,
        FetchVerified, Cache, CacheFails, Reread, HasAnswered, PushAnswered, AgentAnswered, Return,
        Taken
  <2>2. QED
    BY <1>0, <2>1 DEF Send
<1>3. CASE \E d \in Clients : Forge(d) \/ CutOff(d) \/ Unreachable(d) \/ Disconnect(d)
  BY <1>0, <1>3 DEF Forge, CutOff, Unreachable, Disconnect, Abandon, Threads
<1>4. CASE Restart \/ \E i \in Identities : Collect(i) \/ DamageLocal(i) \/ DamageRemote(i)
  BY <1>0, <1>4 DEF Restart, Collect, DamageLocal, DamageRemote, serverVars
<1>5. QED
  BY <1>1, <1>2, <1>3, <1>4 DEF Next, Enter, Proceed, Serve, Environment, Breaks

\* Whatever comes into a store has the identity it comes under.
LEMMA StoresStep ==
    ASSUME Inv, [Next]_vars
    PROVE  StoresInv'
<1> SUFFICES ASSUME NEW i \in Identities
             PROVE  local'[i] \in {i, Damaged, NoBytes} /\ remote'[i] \in {i, Damaged, NoBytes}
  BY DEF StoresInv
<1>1. local[i] \in {i, Damaged, NoBytes} /\ remote[i] \in {i, Damaged, NoBytes}
  BY DEF Inv, StoresInv
<1>2. QED
  BY <1>1, LocalSteps, RemoteSteps

-----------------------------------------------------------------------------
(***************************************************************************)
(* The invariant, and what follows from it.                                *)
(***************************************************************************)
LEMMA InitInv == Init => Inv
<1> SUFFICES ASSUME Init PROVE Inv
  OBVIOUS
<1>1. <<>> \in Seq(Identities)
  OBVIOUS
<1>2. NoCall \in Call /\ NoAnswer \in Answer
  BY <1>1 DEF NoCall, Call, NoAnswer, Response, Answer, Operations, Results, Statuses
<1>3. \A i \in Identities : remote[i] \in {i, NoBytes}
  BY DEF Init, ServerInit, Contents
<1>4. remote \in [Identities -> Identities \union {Damaged, NoBytes}]
  BY DEF Init, ServerInit, Contents
<1>5. TypeOK
  BY <1>2, <1>4, FaultsAssumption DEF Init, ServerInit, ClientInit, TypeOK, ServerTypeOK, ClientTypeOK
<1>6. StoresInv /\ \A t \in Threads : Harmless(t)
  BY <1>3 DEF Init, ServerInit, ClientInit, StoresInv, Harmless
<1>7. ASSUME NEW c \in Clients
      PROVE  CallInv(c) /\ ClientInv(c)
  <2>1. /\ call[c] = NoCall /\ thread[c] = NoRequest /\ wire[c] = NoAnswer
        /\ gap[c] = {} /\ held = {} /\ met[c] = {}
    BY DEF Init, ServerInit, ClientInit, Threads
  <2>2. QED
    BY <2>1 DEF CallInv, ClientInv, ConnectionInv, AnswerInv, AbsenceInv, PushInv, Ended, NoCall,
                NoAnswer, Response
<1>8. QED
  BY <1>5, <1>6, <1>7 DEF Inv

LEMMA StepInv == Inv /\ [Next]_vars => Inv'
<1> SUFFICES ASSUME Inv, [Next]_vars PROVE Inv'
  OBVIOUS
<1>1. TypeOK' /\ \A c \in Clients : CallInv(c)'
  BY TypeStep
<1>2. CASE Next
  <2>1. ASSUME NEW c \in Clients
        PROVE  ClientInv(c)'
    BY <1>2, ClientStep
  <2>2. UNCHANGED readOnly
    BY <1>2 DEF Next, Enter, Proceed, Serve, Environment, Breaks, Restart, Collect, DamageLocal,
                DamageRemote, Forge, CutOff, Unreachable, Disconnect, Observe, configVars
  <2>3. ASSUME readOnly, NEW t \in Threads
        PROVE  Harmless(t)'
    BY <1>2, <2>3, HarmlessStep
  <2>4. QED
    BY <1>1, <2>1, <2>2, <2>3, StoresStep DEF Inv
<1>3. CASE UNCHANGED vars
  <2>1. ASSUME NEW c \in Clients
        PROVE  ClientInv(c)'
    BY <1>3 DEF Inv, ClientInv, ConnectionInv, AnswerInv, AbsenceInv, PushInv, Overtaken, Ended,
                Cached, vars, serverVars, configVars, clientVars, histVars
  <2>2. QED
    BY <1>1, <1>3, <2>1, StoresStep DEF Inv, Harmless, vars, serverVars, configVars
<1>4. QED
  BY <1>2, <1>3

LEMMA Invariance == Spec => []Inv
  BY InitInv, StepInv, PTL DEF Spec

\* Type correctness of the registry, its clients, and the histories kept of them.
THEOREM TypeCorrect == Spec => []TypeOK
<1>1. Inv => TypeOK
  BY DEF Inv
<1>2. QED
  BY <1>1, Invariance, PTL

\* RemoteStore.get_bytes hashes what it is sent before it caches or returns it, and
\* the server stores what it has encoded itself: no answer, forged or true, and no
\* interleaving puts other bytes under an identity, or returns them from a read.
THEOREM Verified == Spec => []OnlyVerifiedBytes
<1>1. Inv => OnlyVerifiedBytes
  BY DEF Inv, StoresInv, CallInv, OnlyVerifiedBytes
<1>2. QED
  BY <1>1, Invariance, PTL

\* cmd_store_push reports success only for an object that the registry it talked to
\* has held since the push began.
THEOREM Published == Spec => []PushedIsPublished
<1>1. Inv => PushedIsPublished
  BY DEF Inv, ClientInv, PushedIsPublished
<1>2. QED
  BY <1>1, Invariance, PTL

\* _post_symbol takes every push of a symbol that meets no fault of its own, a retry
\* or a push of what is there included, whatever other pushes race with it; a blob
\* service refuses only what came after put had looked for it.
THEOREM Accepted == Spec => []PushAccepted
<1>1. Inv => PushAccepted
  BY DEF Inv, ClientInv, PushInv, Overtaken, PushAccepted
<1>2. QED
  BY <1>1, Invariance, PTL

\* NotFound, false, and the missing imports of _get_imports are about objects that
\* were not there at some moment of the call, over files always, and over a blob
\* service whose calls did not fail.
THEOREM AbsenceTrue == Spec => []AbsenceIsTrue
<1>1. Inv => AbsenceIsTrue
  BY DEF Inv, ClientInv, AnswerInv, AbsenceInv, AbsenceIsTrue
<1>2. QED
  BY <1>1, Invariance, PTL

\* A call is changed by its client, or by the network.
LEMMA CallSteps ==
    ASSUME Inv, Next, NEW c \in Clients, call'[c] # call[c]
    PROVE  Begin(c) \/ Continue(c) \/ CacheFails(c) \/ Unreachable(c) \/ Disconnect(c)
<1>0. call \in [Clients -> Call]
  BY DEF Inv, TypeOK, ClientTypeOK
<1>1. ASSUME NEW d \in Clients, d # c, \E k : call' = [call EXCEPT ![d] = k]
      PROVE  FALSE
  BY <1>0, <1>1
<1>2. ASSUME NEW d \in Clients, Begin(d)
      PROVE  \E e : call' = [call EXCEPT ![d] = e]
  <2>1. ASSUME NEW k, ReadCached(d, k) \/ Fetch(d, k)
        PROVE  \E e : call' = [call EXCEPT ![d] = e]
    BY <2>1 DEF ReadCached, Obtained, Fetch, Fail, End, Send
  <2>2. CASE ReadBegin(d)
    BY <2>1, <2>2 DEF ReadBegin
  <2>3. CASE ~ReadBegin(d)
    BY <1>2, <2>3
    DEF Begin, HasBegin, PutLocal, IndexLocal, WriteLocal, PushBegin, PostBegin, ImportsBegin, End,
        Send
  <2>4. QED
    BY <2>2, <2>3
<1>3. ASSUME NEW d \in Clients, Continue(d) \/ CacheFails(d) \/ Unreachable(d) \/ Disconnect(d)
      PROVE  \E e : call' = [call EXCEPT ![d] = e]
  BY <1>3
  DEF Continue, ReadNext, ReadCached, Obtained, Fetch, Fail, End, Send, FetchFails, FetchRejected,
      FetchVerified, Cache, CacheFails, Reread, HasAnswered, PushAnswered, AgentAnswered, Return,
      Unreachable, Disconnect, GiveUp
<1>4. CASE \/ \E t \in Threads : Serve(t)
           \/ UNCHANGED clientVars \/ Restart
           \/ \E i \in Identities : Collect(i) \/ DamageLocal(i) \/ DamageRemote(i)
           \/ \E d \in Clients : Forge(d) \/ CutOff(d)
  BY <1>4 DEF Serve, clientVars, Restart, Collect, DamageLocal, DamageRemote, Forge, CutOff
<1>5. QED
  BY <1>1, <1>2, <1>3, <1>4 DEF Next, Enter, Proceed, Environment, Breaks

\* RemoteStore raises IntegrityError only over an answer that was forged or cut off,
\* a damaged file of the cache, or the identity of a JSON form, which the server
\* answers in CBOR.
THEOREM ErrorsAreReal == Spec => IntegrityErrorsAreReal
<1>1. ASSUME Inv, Next, NEW c \in Clients, call[c].at # "done", Ended(c, {"IntegrityError"})'
      PROVE  \/ met[c] \intersect {"forge", "cut"} # {}
             \/ local[call'[c].id] = Damaged
             \/ Form[call'[c].id] = "json"
  <2> USE DEF Errors, Fail
  <2>0. /\ call \in [Clients -> Call] /\ StoresInv /\ TypeOK /\ CallInv(c) /\ ClientInv(c)
        /\ CallInv(c)' /\ call'[c] # call[c]
    BY <1>1, TypeStep DEF Inv, TypeOK, ClientTypeOK, Ended
  <2>1. call'[c].id \in Identities /\ call'[c].at = "done" /\ call'[c].result = "IntegrityError"
    BY <1>1, <2>0 DEF CallInv, Ended
  <2>2. ASSUME NEW k \in Call, NEW result, NEW data, End(c, k, result, data)
        PROVE  result = "IntegrityError" /\ call'[c].id = k.id
    BY <2>0, <2>1, <2>2 DEF End, Call
  <2>3. ASSUME NEW k \in Call, ReadCached(c, k)
        PROVE  local[call'[c].id] = Damaged
    <3>1. CASE local[k.id] # k.id
      BY <2>0, <2>1, <2>2, <2>3, <3>1 DEF ReadCached, StoresInv, Cached
    <3>2. CASE Obtained(c, k)
      <4>1. ~End(c, k, "bytes", k.id) /\ ~End(c, k, "CodifideError", NoBytes)
            /\ ~End(c, k, "resolved", k.id)
        BY <2>2
      <4>2. call' = [call EXCEPT ![c] = [k EXCEPT !.at = "next", !.id = Head(k.todo),
                                                  !.todo = Tail(k.todo), !.data = NoBytes]]
        BY <3>2, <4>1 DEF Obtained
      <4>3. QED
        BY <2>0, <2>1, <4>2 DEF Call
    <3>3. QED
      BY <2>3, <3>1, <3>2 DEF ReadCached
  <2>4. ASSUME NEW k, NEW method, NEW form, Send(c, k, method, form), k \in Call
        PROVE  FALSE
    BY <2>0, <2>1, <2>4 DEF Send, Call
  <2>5. CASE Begin(c)
    <3>0. <<>> \in Seq(Identities) /\ \A m \in Modules : Tail(m) \in Seq(Identities)
      BY ClientAssumption
    <3>1. ASSUME NEW op \in Operations, NEW i \in Identities, NEW todo \in Seq(Identities)
          PROVE  Began(op, i, todo) \in Call
      BY <3>1, BeganType
    <3>2. CASE ReadBegin(c)
      <4>1. PICK op \in {"get", "getBytes", "run"}, i \in Identities,
                 todo \in {<<>>} \union {Tail(m) : m \in Modules} :
              ReadCached(c, Began(op, i, todo)) \/ Fetch(c, Began(op, i, todo))
        BY <3>2 DEF ReadBegin
      <4>2. todo \in Seq(Identities) /\ op \in Operations
        BY <3>0 DEF Operations
      <4>k. PICK k : k = Began(op, i, todo)
        OBVIOUS
      <4>3. k \in Call
        BY <3>1, <4>2, <4>k
      <4>4. QED
        BY <2>3, <2>4, <4>1, <4>3, <4>k DEF Fetch
    <3>3. CASE ~ReadBegin(c)
      <4>1. PICK op \in Operations, i \in Identities :
              \/ \E result \in {"true", "unreadable", "identity"} :
                    End(c, Began(op, i, <<>>), result, NoBytes)
              \/ \E method, form : Send(c, Began(op, i, <<>>), method, form)
        BY <2>5, <3>3
        DEF Begin, HasBegin, PutLocal, IndexLocal, WriteLocal, PushBegin, PostBegin, ImportsBegin,
            Operations, Standard
      <4>k. PICK k : k = Began(op, i, <<>>)
        OBVIOUS
      <4>2. k \in Call
        BY <3>0, <3>1, <4>k
      <4>3. QED
        BY <2>2, <2>4, <4>1, <4>2, <4>k
    <3>4. QED
      BY <3>2, <3>3
  <2>6. call[c] \in Call
    BY <2>0
  <2>7. CASE FetchRejected(c)
    <3>1. met[c] \intersect {"forge", "cut"} = {} => Form[call[c].id] = "json"
      <4>1. /\ wire[c].status = "200" /\ wire[c].body # call[c].id /\ call[c].op \in Fetching
            /\ call[c].at = "await" /\ call[c].id \in Identities
        BY <2>0, <2>7 DEF FetchRejected, Awaits, CallInv
      <4>2. met[c] \intersect {"forge", "cut"} = {} => wire[c].body = Cbor[call[c].id]
        BY <2>0, <4>1 DEF ClientInv, AnswerInv
      <4>3. QED
        BY <4>1, <4>2, EncodingAssumption DEF Forms
    <3>2. call'[c].id = call[c].id
      BY <2>2, <2>6, <2>7 DEF FetchRejected
    <3>3. QED
      BY <3>1, <3>2
  <2>8. CASE ReadNext(c) \/ Reread(c)
    <3>1. ReadCached(c, call[c]) \/ Fetch(c, call[c])
      BY <2>2, <2>6, <2>8 DEF ReadNext, Reread
    <3>2. QED
      BY <2>3, <2>4, <2>6, <3>1 DEF Fetch
  <2>9. CASE FetchVerified(c) \/ Return(c) \/ Cache(c)
    <3>1. ~End(c, call[c], "bytes", call[c].data)
      BY <2>2, <2>6
    <3>2. call'[c].at \in {"cache", "idle", "reread"}
      BY <2>0, <2>6, <2>9, <3>1 DEF FetchVerified, Return, Cache, NoCall, Call
    <3>3. QED
      BY <2>1, <3>2
  <2>10. CASE FetchFails(c) \/ HasAnswered(c) \/ PushAnswered(c) \/ AgentAnswered(c)
              \/ CacheFails(c) \/ Unreachable(c) \/ Disconnect(c)
    <3>1. PICK result : End(c, call[c], result, NoBytes) /\ result # "IntegrityError"
      BY <2>10 DEF FetchFails, HasAnswered, PushAnswered, AgentAnswered, CacheFails, Unreachable,
                   Disconnect, GiveUp, Raised
    <3>2. QED
      BY <2>2, <2>6, <3>1
  <2>11. QED
    BY <1>1, <2>0, <2>5, <2>7, <2>8, <2>9, <2>10, CallSteps DEF Continue
<1>2. Inv /\ [Next]_vars =>
        [\A c \in Clients :
            call[c].at # "done" /\ Ended(c, {"IntegrityError"})' =>
               \/ met[c] \intersect {"forge", "cut"} # {}
               \/ local[call'[c].id] = Damaged
               \/ Form[call'[c].id] = "json"]_vars
  BY <1>1
<1>3. QED
  BY <1>2, Invariance, PTL DEF Spec, IntegrityErrorsAreReal

\* do_POST of a server started with --read-only answers 405 before it reads the
\* body: no request, and no thread left over from one, adds an object.
THEOREM ReadOnlyIsKept == Spec => ReadOnlyKept
<1>1. ASSUME Inv, [Next]_vars, readOnly, NEW i \in Identities, remote[i] = NoBytes
      PROVE  remote'[i] = NoBytes
  <2>1. ~ \E t \in Threads : At(t, {"POST"}, "write")
    BY <1>1 DEF Inv, Harmless, At
  <2>2. QED
    BY <1>1, <2>1, RemoteSteps
<1>2. Inv /\ [Next]_vars =>
        [readOnly => \A i \in Identities : remote[i] = NoBytes => remote'[i] = NoBytes]_vars
  BY <1>1
<1>3. QED
  BY <1>2, Invariance, PTL DEF Spec, ReadOnlyKept
=============================================================================
