# Codifide: verification

TLA+ models of parts of Codifide, the TLC runs that check them on small
instances, and theorems about them proved with TLAPS. Paths below are relative
to `src/`.

## Inventory

| Component | Where | State | Operations | What is hard | What makes it correct |
|---|---|---|---|---|---|
| Symbol store | `codifide/store/symbol_store.py` | one file per object under `sha256/`, temporary files | `put`, `put_json`, `put_module`, `has`, `get_bytes`, `get`, `iter_identities` | several processes on one directory, no lock on `put` or on reads; crash inside a write; bytes damaged on disk | only whole bytes under a name; reads return the bytes of the name or a typed error |
| ROOTS | `symbol_store.py` `add_root`, `remove_root`; `gc.py` `read_roots`, `write_roots` | one text file | add, remove, read | read-modify-write without a lock, truncation before writing | an acknowledged root stays until it is removed |
| Garbage collector | `codifide/store/gc.py` | LOCK, GC.LOG, the locals of one run | `gc` dry and executing | concurrent puts, damage, ROOTS edits and second collectors; death at any step; some deletions fail | nothing its roots reach is deleted; one collector at a time; the log is what was deleted; it ends |
| Registry server | `codifide/server.py` | a store or a blob store shared by request threads | POST and GET of a symbol, GET of imports | two requests at once; partial failure of the blob service; restarts; encodings | what is posted is served under its identity; a missing object is missing |
| Remote client, push | `codifide/store/remote.py`, `__main__.py` `cmd_store_push` | a local store as cache | `get`, `get_bytes`, `has`, push of an index | retries, a server that answers otherwise, a collected cache | only verified bytes are cached; imports arrive before importers |
| Blob store | `codifide/store/blob_store.py` | an external blob service | `put`, `has`, `get_bytes` | test and upload are two calls | as the symbol store |
| Interpreter | `codifide/runtime/interpreter.py` | frame stack: intent chain, depth, purity budget; memo; trace | `run`, `invoke`, dispatch, evaluation | every exit of a nested call restores the stack; memo keys; effects through imports; contracts | declared effects cover the effects done; contracts are pure; the memo changes no result |
| Rust interpreter | `crates/codifide-interpreter` | as above, and worker threads | `eval`, `eval_parallel_exprs` | thread interleavings, merge of traces and errors | parallel evaluation is sequential evaluation |
| Canonical bytes | `codifide/projection/*`, `crates/codifide-canonical` | none | encode, decode, hash | boundaries of integer and float heads, key order, two implementations | one value, one byte string; the decoder accepts nothing else |
| Parser | `codifide/parser/*`, Rust `parser/*` | the definition, candidate, block and expression being read | text to definitions | layout, continuation lines, operators rewritten in the text, declarations in any order | what is accepted loses no word, clause or scope; every source is accepted or refused |
| Dispatch index, capability manifest, CLI, primitives, core types | rest of `codifide/` | none | | | not modelled, or constants of the models above |

The components meet at the store directory: the CLI, the server, the remote
client's cache and the interpreter's import resolver all open a `SymbolStore`
on some directory, in processes of their own, and `gc` runs on the same files.

## What is modelled

| Module | Models |
|---|---|
| `Reachability` | the reference definition of reachability through imports: the intersection of all sets closed under imports |
| `SymbolStore` | object files, atomic writes and reads, by several processes |
| `RootsFile` | the ROOTS file and its two editors |
| `Collector` | one action per step of `gc.gc` |
| `StoreSystem` | the composition, with crashes and damage; the properties |
| `StoreContract` | what a store promises, with no files, processes or locks |
| `MCStoreSystem` | the instances TLC checks |
| `StoreSystemProofs` | theorems about `StoreSystem`, about ROOTS and about garbage |
| `ProgramText` | a Codifide module as data: definitions, their expression nodes, names and what they resolve to, costs |
| `Interpreter` | loading, invocation, contracts, dispatch, evaluation, calls, memo and unwinding of the Python interpreter; the properties |
| `MCInterpreter` | the program TLC runs |
| `InterpreterProofs` | theorems about `Interpreter`: types, stack, effects, contracts, scopes, memo |
| `ProgramTextProofs` | lemmas about programs that both interpreters need |
| `RegistryServer` | the handlers of `server.py`, step by step, over a directory or over `blob_store.py` |
| `RemoteClient` | `RemoteStore`, the resolution of imports through it, and the commands that put, index and push |
| `Registry` | the composition of server and clients, with faults of disks, blobs and connections, restarts and collections; the properties |
| `MCRegistry` | the instance TLC checks |
| `RegistryProofs` | theorems about `Registry` |
| `ParallelEvaluator` | the Rust interpreter with its parallel branches, over `ProgramText`; the properties |
| `MCParallelEvaluator` | the program TLC runs |
| `ParallelProofs` | theorems about `ParallelEvaluator`: effects of branches, the recursion limit |
| `TreeWalkProofs` | the tree walker of `ParallelEvaluator` as a function, which its steps follow |
| `AgreementProofs` | theorem: evaluation in parallel is evaluation from left to right |
| `OutputProofs` | theorems: what is printed, and in which order; the types of the evaluator |
| `ExprSyntax` | `expr_parser.py`: operators, and the recursive descent over tokens |
| `SourceParser` | `parser.py`: one action per kind of line |
| `CanonicalForm` | modules to canonical documents and back |
| `CanonicalCbor` | the encoder and the decoder, byte for byte |
| `Publication` | the composition: parse, project, encode, decode, rebuild; the properties |
| `MCPublication` | the sources and documents TLC checks |

The parts share no state. They meet in these assumptions: `Registry` takes a
call on a local store as one step and `SymbolStore` has the steps inside; an
interpreter reads a store only to resolve imports before it runs, and `Bindings`
is what it found there; what the stores call an identity is the hash of the bytes
`Publication` makes; the programs of `ProgramText` are the trees `SourceParser`
builds.

### The store

`StoreSystem` is one chain of `EXTENDS`, each module adding its variables to
those below: `Reachability`, `SymbolStore`, `RootsFile`, `Collector`,
`StoreSystem`.

State and code:

- `file[i]` is what the object path of identity `i` holds. An identity is the
  hash of the bytes of one wire form, so of its two paths only one is ever
  written by the program, and `file[i]` stands for both. The bytes are reduced
  to what their hash says of them.
- `temp[p]`, `pc[p]`, `arg[p]`, `ret[p]` are the temporary file, the place, the
  identity and the outcome of the call process `p` is in. A step is one access
  to the shared directory with the code up to the next access.
- `roots` is ROOTS, `newRoots[p]` the list `p` is about to write back, `acked`
  a history of the edits that returned.
- `lock` and `log` are LOCK and GC.LOG. `execute[p]` and `gcRoots[p]` are what a
  run knows before it has LOCK; `listed`, `reachable`, `frontier`,
  `unreachable` and `deleted` are its locals after. `intact`, `presentAtLock`,
  `rootsAtWalk` and `gone` are histories that only properties read.

Decisions a reader may want to question:

- `gc` visits an identity with `has` and then `get`; the model does both at
  once. Only the holder of LOCK deletes, so in between a file may only appear or
  be damaged, and either way the visit ends as if it all happened at the later
  moment.
- `iter_identities` goes from shard to shard, so `GcScan` may list any subset of
  what was put while it went.
- A temporary file that a dead writer left behind is dropped from the state: it
  has a random name and no code looks at it. (No code removes it either:
  `symbol_store.py:482-484` and `docs/STORE.md:80-82` say that the next
  collection does, and `iter_identities` skips it.)
- `write_text` truncates and then writes; the list is short enough for one write.
- The symlink checks, the decode errors of `get` and a malformed line in ROOTS
  are left out: no action of the model produces one.

### The interpreter

`Interpreter` makes the recursion of `interpreter.py` an explicit stack, so that
"every exit" is something a step can be.

State and code:

- `stack` is the Python stack: a frame for each `_invoke_internal` in progress,
  the innermost first. `phase` and `at` are the statement the call has reached
  (parameters, preconditions, guards, body, postconditions, return). `focus` is
  the expression `_eval` is called with next, and `work` the calls of `_eval`
  that wait for a part of theirs, each with the values it has (`done`) and the
  locals it started from (`outer`).
- `depth`, `chain` and `memo` are `_depth`, `_intent_chain` and `_memo`. `chain`
  holds the names of the intents.
- `raised` is the exception in flight; `Unwind` runs one `finally` clause per
  frame. `outcome` is what the host got.
- `loaded` says that `run` has passed `_check_transitive_effects`. `declared` is
  part of the program; it is a variable so that a run covers every declaration.
- `computed`, and `held` and `failed` of a frame, are histories that only
  properties read.

Decisions a reader may want to question:

- A primitive returns any scalar or fails, except `is_bottom`, whose result is
  determined. A condition therefore goes either way.
- A scalar stands for a value with its type tag and confidence. `KeyOf` is what
  `_normalize_for_key` makes of it; the run's is injective, the theorems' is any.
- `believe` is evaluated as a binding of `it` around conditionals, and is
  modelled as one. A dotted primitive without arguments is a call.
- A refusal that becomes an argument is wrapped in a `Value` (`interpreter.py:664`)
  and is no refusal to the tests for refusals that follow: `Boxed`.
- The frame of a callee has no purity budget of its caller (`interpreter.py:671`):
  `Budget` looks at the callee's phase only.
- The module is loaded by `run`; the tests that build an `Interpreter` and
  `invoke` it directly skip the check of effects. One interpreter is invoked
  several times, as those tests do.
- Left out: arguments without a hash (their calls are not memoised), an empty
  sequence, the recursion limit of Python itself, provenance and the trace,
  error texts. Programs given by `NodeRecords` are those the parser accepts.

### The registry

`RegistryServer` has a thread for each request, and a step is one access to the
store with the code up to the next access. `remote` is what the store of the
server holds; `backend` says whether that is a directory or a blob service, and
`readOnly` whether it takes posts: both are chosen by `Init`. `wire[c]` is the
answer on the connection of client `c`. `RemoteClient` adds `local`, the local
store all clients share, and `call[c]`, the place a call of `c` has reached.
`Registry` composes them with the environment; `gap` (what a call looks for and was
missing during it), `held` (whose pushed object the registry has held meanwhile) and
`met` (the faults a call has met) are histories that properties read.

Steps that are kept apart because the code does: the existence test and the
upload of a blob put; the test of `_get_symbol` and its read; the address and the
download of a blob; the fetch, the caching and the second read of
`RemoteStore.get`; one import after the other in a run, and in `imports`.

Faults: the blob service fails, a disk is full or damages an object, a
connection breaks before or after the request is handled (a thread whose client
has gone works on, as a stray), or inside the body of an answer, which the client's
bounded read returns cut short (`CutOff`), the server restarts, an answer is forged,
objects are collected on either side. `BlobStore.has` takes an error whose message
has "404" or "not found" in it for absence (`blob_store.py:143-152`), so wherever the
code asks it, a failure of the service ends either in a `StoreError` or in an answer
that the object is missing; a put that is answered so goes on to upload. `MaxFaults` bounds the faults of a
behaviour and `Strays` the abandoned threads.

Decisions a reader may want to question:

- An identity stands for the bytes it is the hash of. `Form`, `Cbor` and
  `Envelope` say what the bytes decode to and which bytes are made of that.
- A collection may take any object. Which objects it may take is the subject of
  `StoreContract`; the clients must cope with any.
- Sizes, malformed paths, an `Accept` header (no client sends one) and error texts
  are left out.

### The Rust interpreter

`ParallelEvaluator` has the frames of `Interpreter` without its memo and types,
which the Rust code lacks, and one interpreter for every task. A task is named by
its path: `<<2, 1>>` evaluates the first part of a concatenation of task `<<2>>`.
`Spawn` makes the branches with a copy of the frame, the depth of the parent and
an empty trace; `Join` waits for all of them, merges the traces in the order of
the parts and takes the first error in that order. Between the two any branch
may take the next step. `printed` is standard output, where a line appears when
`io.say` runs; a trace is merged only at the join.

Each program is run twice, first with the parallel path off; `expected` is what
that run ended with. The effects the helpers declare are chosen by `Init`.

Decisions a reader may want to question:

- Values are strings and refusals. A primitive returns its first argument, fails,
  or (`is_bottom`) tests; no value has fields, so a field access fails.
- An error leaves all calls of a task at once: no Rust frame handles one.
- Every branch may run at once. Rayon runs as many as it has threads, and a
  worker that waits for a scope takes other branches of it: fewer interleavings,
  none of them new.
- `eval_parallel`, `contains_user_call` and `call_with_vals` are not called by
  any code and not modelled.

### From source to identity

`SourceParser` reads one line per step. `top`, `def`, `cand`, `bel` and `expr` are
the locals of the nested parsing functions of `parser.py`, `None` when that
function does not run; `outcome` says how parsing ended. Lines are an indentation
and a sequence of tokens; what the lexer and the operator rewriting do to the
text of an expression is done to its tokens by `ExprSyntax`. The rewriting does not
know the tokens: for it a string is spelled out as its quotes and the pieces between
them (`Spelled`), its parentheses count when an operand is looked for, each quote turns
`inString`, an escaped one too, and what it leaves is lexed again (`Lexed`). `document`, `wire`,
`arrived` and `rebuilt` are the stages after: `to_canonical`, `encode_cbor`,
`decode_canonical_cbor`, `from_canonical`, which raises for another schema version, a cost that is no natural
number, a definition with a blank intent or without candidates, and an expression of an
unknown kind (`IsReadable`). A document may also come from another
producer, and bytes from an encoder that follows RFC 8949 without its
deterministic rules (`Forms`), or arrive cut short or with a tail.

The Python code and these modules were run side by side on the sources of all
shapes and on the documents and their encodings: outcome and bytes agreed on each.

Decisions a reader may want to question:

- Negative numbers, escapes other than that of a quote, glyph spellings of keywords, and
  arrows or `#` in strings are left out of the sources. `Inside` gives the pieces of
  every string of the sources and of every string a rewriting makes of them. NaN and infinities are left out of the
  values.
- `RECURSIVE` operators are what expressions and documents ask for. These modules
  are for TLC; no theorem is about them.

## Runs

| Run | Instance | Shows |
|---|---|---|
| `store` | two identities, one importing the other; a collector and a client that puts (also falsely named bytes), reads and collects; crashes, damage, failing writes, unlinks and log; any initial store and ROOTS | types, whole objects, exclusion of collectors, the soundness of sweeps, what the log of a run that reports has, refinement of `StoreContract`, and that calls end |
| `store_roots` | three identities in a chain; an administrator and a collector; no faults | acknowledged roots are kept, a collector sees all of them or none, a full sweep takes all its garbage |
| `roots_lost_update` | two processes that add roots | an acknowledged root is lost |
| `roots_read_before_lock` | a collector and an administrator | what a root reaches when the closure is computed is deleted |
| `interpreter` | a program of five definitions, one imported, that takes every step of the model, under each of the 32 declarations of its effect | types, the stack restored on every way out, effects covered by every caller, a faithful memo, contracts, scopes, and that invocations end |
| `impure_guard` | the same program | an effect happens below a guard |
| `shadowed_callee` | the same program | an effect happens below callers that do not declare it |
| `memo_clash` | the same program, two definitions of one name | a call is answered with the result of another definition |
| `registry` | a symbol and an index over it; two clients, one that reads, asks and posts, one that puts and pushes; both backends, read-only or not; one fault of any kind; any collections | nothing unverified is stored or returned; a push that reports success was published, and one that meets no fault succeeds unless a rival upload of the same blob comes between its look and its write; what is reported missing was missing, unless the blob service failed in the call; an `IntegrityError` means a forged or cut answer, a damaged copy or an object in JSON; calls end |
| `publication` | thirteen shapes of sources: clauses in any order, steps of a body, lines that continue, `believe` blocks, statements, all expressions of up to four tokens from eleven, operators beside strings that have parentheses or quotes in them, repeated names and blank intents; documents at every boundary of the encoding, and ones `from_canonical` refuses | a source that is accepted loses no clause, scope or declaration, and no word unless a string of it confuses the rewriting; it is read back, the last definition of each name; the decoder takes one encoding of a document, floats excepted |
| `parallel` | a program of nineteen definitions, one imported, seventeen calls a host makes of it, every choice of effects for three helpers | every interleaving ends as the tree walker does, with its trace; what is printed; which effects are kept apart; depth; termination |
| `output_reordered` | the same program | a run that ends with a value has printed its lines in another order |

Bounds. In the store the identities and processes are the only bounds; no counter
is capped. Two identities give every relation of an import to its target, and a
sweep of more than one object; three give an object reached only through
another. A hazard of this code is between two processes: collector and
collector, collector and writer, reader, editor. `store` lets its client
collect too; the run with two administrators has a third process to collect.

The interpreter runs have one effect, two scalars (one truthy, one not), a
depth limit of 3 (a call, a nested call, a call refused) and arguments of
length 0 and 1. What is bounded is the program; it is written so that every
kind of expression, error and exit occurs, at every depth the limit admits, and
that imported and local definitions call each other.

`registry` has two clients, for every hazard is between two calls, or a call and
the environment; an object without imports and one that imports it, in the two
wire forms; and one fault, so that a failure meets a handler that runs
undisturbed. Two faults at once are not covered.

`publication` bounds the sources by shapes: in each a group of up to four lines
varies over everything that matters there, and the lines around it are fixed.
Heads are tried on both sides of 24, 2^8, 2^16, 2^32 and 2^64; `MaxElsewhere`
bounds the containers that are also encoded in other forms, `MaxPayload` the
lengths a decoder meets.

`parallel` has a depth limit of 3, which leaves room for a branch inside a branch
and a call in it, and for the recursion of `deep` to be refused in a branch of a
branch of a branch; three parts, so that two that are no neighbours can conflict;
two effects, one of which prints.

Deadlock is checked in every run: a store process can always call again, and a
host invoke again. `publication` and `parallel` end, and have an explicit step
for that (`Finished`, `Rest`) that is only enabled at the end. For `publication`
the check therefore says that no source leaves the parser without a step (it is
accepted or refused), that every module published is encoded, decoded and
accepted by `from_canonical`. It stands for liveness there: every step consumes a
line or a stage.

Fairness. `Fairness` is weak fairness of each process that is inside a call: the
operating system runs it. Calls need not be made, crashes and damage need not
happen, and nothing is assumed of `flock`: a process that waits for LOCK is
excepted from `CallsReturn`, as flock promises no order among waiters.

`FairSpec` of the interpreter is weak fairness of its steps: it is one Python
thread that runs until it returns. The host need not call. `InvocationsEnd`
holds because of the depth limit: `f` recurses for as long as its guards let it.

The registry's `Fairness` is weak fairness of each client inside a call and of each
thread that handles a request. No fault has to happen, and no call has to be
made. `CallsEnd` needs no timeout: a server that dies closes its connections.

`FairSpec` of the parallel evaluator says that while some task can go on, one
does: Rayon's pool does not stop. Nothing is assumed of which task, so
`RunsEnd` does not depend on the scheduler.

The six violations are disagreements between the code and its documents:

1. `gc.py:126-131` says that the `roots` commands read, modify and write
   atomically; `add_root` takes no lock, and of two concurrent ones one is lost.
2. `gc.py:24-25` says that no deleted identity is reachable from a root at
   closure-computation time; the roots are read before LOCK is waited for.
3. `docs/CANONICAL.md:365-367` says that no primitive with an effect is invoked
   while a contract or guard is evaluated; a definition called there has its own
   budget, and performs the effects it declares.
4. `docs/CANONICAL.md:75-77` says that shadowing cannot smuggle an effect past
   the check; calls in an imported body resolve against the importing module,
   and only the importing module's own definitions are checked.
5. `interpreter.py:338-339` says that a pure definition gives the same result for
   the same arguments; the memo's key is the definition's own name, which two
   definitions may have when one is imported under another name.
6. `dispatches/2026-05-12-parallel-evaluator-proposal.readout.md:70-76` says that output
   is never reordered by thread scheduling; the effects of primitives in a part are
   not in the analysis (`parallel.rs:93-98`), so `f(io.say("a")) ++ f(io.say("b"))` prints
   in either order.

In the passing runs are states in which the code and its documents disagree as well.
The property then states what the code does keep, its comment what it does not, and
`PROJECT.json` has a finding for each:

| Property | Documents | Code |
|---|---|---|
| `CallsReturn` | all errors are `StoreError`s (`docs/STORE.md:305-308`) | a read that races a deletion raises `FileNotFoundError` (`ReadBytes`) |
| `LogMatchesSweep` | every deletion is logged (`docs/STORE.md:195`, `gc.py:237-238`) | a file of length zero is deleted without being reported or logged; a crash or a failing append after a sweep leaves deletions that GC.LOG never names |
| `SweepSparesReachable` | `gc` and `put` serialise (`docs/STORE.md:182-184`) | `put` takes no lock |
| `PushAccepted` | posts are idempotent (`docs/RPC_API.md:112-115`, `__main__.py:488-489`, `blob_store.py:90-91`) | of two puts of one symbol over a blob service, both of which found nothing, the later is answered 500 |
| `AbsenceIsTrue` | errors of the service propagate (`blob_store.py:142-143`) | those whose message has 404 or not found in it are taken for absence |
| `IntegrityErrorsAreReal` | the bytes of an answer hash to the identity asked for (`docs/RPC_API.md:311-312`) | of a symbol stored in JSON the CBOR bytes are sent, which have another hash |
| `WordsKept` | only operators outside strings are rewritten (`expr_parser.py:74-75`) | parentheses and escaped quotes in strings are counted: `h(f("(") < g(")"))` is accepted as `h(f("lt(("), g("))"))` |
| `RoundTrip` | the round trip is total (`canonical.py:4-6`) | of two definitions of one name the document has the last, and `lookup` before it is made the first |
| `RoundTrip` | a bottom's reason is not in the identity (`core/types.py:97-99`) | it is in the document and so in the bytes hashed |
| `OneEncoding` | floats that are not shortest are refused (`cbor_decoder.py:6-8`, `docs/CANONICAL.md:232-234`) | they are accepted in any width (`cbor_decoder.py:159-188`) |
| `EffectsKeptApart` | the analysis is an over-approximation and never runs in parallel what it should not (`parallel.rs:16-19`, `61-63`) | the effects of primitives in a part, and those behind imports that declare less than they do, are not in it |

Further disagreements met while reading, without a run or a finding:

- `gc.py:16-18` says that a put between closure and sweep is deleted; the
  listing is older than the closure, so it is not. The re-put of a listed,
  unreachable object is: `put` returns its identity, and the sweep removes it.
- `put`'s docstring says that bytes already there are verified; they are not.
- `gc`'s docstring says that a dry run without roots reports "would delete 0";
  it lists everything, as its own comment at `gc.py:259` says.
- A crash between truncation and write of ROOTS leaves it empty.
- A refusal that `main` returns after it was an argument is boxed, and reaches
  the host as a result; `docs/CANONICAL.md:401-404` makes an unhandled refusal
  an error. (`ReturnToHost` and `Boxed` show it; there is no run.)
- `_normalize_for_key` drops type tag and confidence, and Python's `True == 1`
  makes these one key. `KeysDistinguish` excludes this from `MemoFaithful`.
- `docs/CANONICAL.md` lists the check of effects through calls as missing; it is
  there.

Of the registry:

- A connection that breaks or times out while an answer is awaited raises neither
  `HTTPError` nor `URLError`, and leaves `RemoteStore._fetch` and push as it is.
- `RemoteStore.get` may raise `NotFound` after a fetch that succeeded, when the cache
  is collected in between.
- `FileNotFoundError` in `_get_symbol`, `StoreError` of `has` in `do_HEAD` and `OSError`
  of `put` are not caught: the connection is closed without an answer.

Of the parallel evaluator:

- After an error, branches to the right of it have printed what the tree walker
  never reaches; `NothingPrintedLost` allows for it. Their traces are dropped.
- `parallel.rs:8-11` lists the arguments of calls as a place of parallelism. Only the
  parts of concatenations are.

Of source and bytes:

- A bare `cand`, `pre` or `post` that is indented deeper than its candidate's header is
  parsed as a reference of that name: inside a candidate only the heads of its own
  clauses are known (`parser.py:574-655`). Two candidates become one, where
  `parser.py:30` has the keyword `cand` delimit them.
- An arm whose pattern begins with `else`, such as `elsewhere => 1`, is taken for the else
  arm (`parser.py:682`); a second else arm silently replaces the first.
- A guard may use a name that the body binds only later (`parser.py:569-571`,
  `609-614`); the reference is unbound when the guard runs.
- `intent`, `sig`, `cost` and `module` may be repeated; the last one counts.
- An expression continues on the next line whatever that line's indentation;
  `module`, `from` and `import` are among the stop heads and never match there.
- `#` in a string starts a comment.
- `a < b and c < d` becomes `lt(and(lt(a, b), c), d)`. A string, a group, a negative number
  or an `if` to the right of a comparison is a parse error, although
  `docs/AGENT_QUICKREF.md:47-50` and `docs/AGENT_COOKBOOK.md:50-53` offer comparisons without that limit.
- A map key that is a list raises `TypeError`, and the keys 1, 1.0 and true count as
  repeated (both are dictionary keys of Python).
- Imports come back sorted; `RoundTrip` is stated up to their order.

## Proofs

### The store

`StoreSystemProofs` holds ten theorems about `Spec`. The first seven are for any set of processes,
identities, imports, calls and faults, and assume only the named assumptions of
the constants: `Imports`, `Calls` and `Faults` have their types, and the two
markers `NoId` and `NoProc` are not members of the sets they complete.

| Theorem | States |
|---|---|
| `TypeCorrect` | `[]TypeOK` |
| `ObjectsAreWhole` | `[]OnlyWholeObjects` |
| `CollectorsExclude` | `[]OneCollector` |
| `SweepSound` | `[]SweepSparesReachable` |
| `OnlyAuthorisedDeletions` | `DeletionsAuthorised` |
| `LogIsTheSweep` | `LogMatchesSweep`: also that a run that ends before its log is written returns no report |
| `StoreImplementsContract` | `KeepsContract` |

The argument. `TypeOK` is inductive and says where temporary files and locals
may exist. `OneCollector` is inductive with it. `StepCases` sorts the steps: most
are `Quiet`, they touch nothing of the collector, so each invariant of the
collector is shown for the collector's own steps, a crash and damage only.
`SweepSparesReachable` is not inductive: it speaks of `Closure`, an intersection
of sets that no step computes. `WalkInv` is: during the walk `reachable \union
frontier` holds the roots, and the imports of every intact object visited; when
the frontier is empty, `reachable` is itself one of the sets `Closure`
intersects, and garbage is disjoint from it. `intact`, which only shrinks during a
run, is what makes this survive concurrent puts and damage. `CallInv` says that
a run which deletes has a root. From `WalkInv` and `CallInv` follow
`DeletionsAuthorised` and each step of the refinement; `LogInv` adds that during
the sweep `deleted` is what has been removed.

The last three have a hypothesis on the constants each:

| Theorem | States | Hypothesis |
|---|---|---|
| `RootsKept` | `[]AckedRootsKept` | `OneLivingEditor` |
| `RootsSeen` | `CollectorsSeeEveryRoot` | `OneLivingEditor` |
| `GarbageGoes` | `[]GarbageRemoved` | no unlink fails |

`OneLivingEditor` says that one process at most edits ROOTS, and that processes
do not die. The code does not make that true and the theorems are false without
it: the run `roots_lost_update` is two editors, and a death between truncation
and write empties the file. The theorems say that nothing else is needed: any
number of collectors, readers, writers, damage and failures do no harm. The
instance of `store_roots` satisfies both hypotheses.

The argument. `RootsInv`: an editor inside an edit has in its list all
acknowledged roots but the one the edit is about, and ROOTS has them until it is
truncated. `GarbageInv`, on top of `WalkInv`: what was present at the lock is listed
by every scan, and is still present or has gone; `reachable` and `frontier` stay inside the closure of
the roots through all imports, so what the roots do not reach is never visited; of
that, what was present at the lock is in `unreachable` or gone during the sweep,
and gone after it.

Only model-checked here: `CallsReturn` (liveness).

### The interpreter

`InterpreterProofs` holds six theorems about `Spec`, for any
program, any declaration of effects, any arguments and any depth limit.

| Theorem | States |
|---|---|
| `TypeCorrect` | `[]TypeOK` |
| `StackRestored` | `[]StackDiscipline` |
| `EffectsSound` | `[]EffectsCovered` |
| `ContractsHeld` | `[]ContractsKept` |
| `NamesScoped` | `[]BindingsScoped` |
| `MemoIsFaithful` | `[]MemoFaithful` |

They assume the named assumptions of `ProgramText` and `Interpreter`: expressions
are trees whose nodes belong to one definition, names resolve to definitions, a
cost is a natural number, the markers are not values. `EffectsCovered` is itself
conditional: on imports that declare what the names in them resolve to. The run
`shadowed_callee` is what happens without it.

The argument. None of the first three is inductive alone. `Inv` adds: what a frame
evaluates belongs to its definition, and every primitive it has begun was
allowed by its signature (`FramesOK`); the frames below the innermost wait with
an expression begun, so that a result finds its place (`Waiting`); an
invocation implies the check passed (`Loaded`); effects shrink from caller to
callee along the stack (`EffectsShrink`). `BecomeOK`, `PushOK` and `PopOK` show
`Inv` preserved by the three shapes a step has, a change of the innermost frame, a call,
an exit; each action then only shows that its new frame is one. A call keeps
`EffectsShrink` because a callee is in `Callees` of the definition its call node
belongs to, local (then checked by `Load`) or imported (then assumed). The one
fact about data is that among satisfied candidates a cheapest exists
(`CheapestExists`), by well-foundedness of the natural numbers.

The other three rest on `CallInv`, which is inductive on top of `Inv`. For contracts it
says how `held`, `failed` and `satisfied` follow `at` through preconditions,
guards and postconditions (`ContractOK`), so that at the choice of a candidate every
guard has been decided; that the chosen one is cheapest, and the first of these, is
then `Cheapest` and the lemma `CheapestExists`. For scopes it
speaks of frames in the middle of an expression, which `BindingsScoped` does not:
`work[Len(work)].outer`, the locals the outermost expression began with, has no
names of inner bindings (`ScopeOK`), and every way out of an expression puts some
`outer` back. For the memo it says that every entry is the key of something in
`computed` with its result (`MemoOK`); `MemoFaithful` follows where keys tell calls
apart, which is the hypothesis it states itself, as `memo_clash` shows it must.

Only model-checked: `InvocationsEnd` (liveness).

### The registry

`RegistryProofs` holds seven theorems about `Spec`, for any objects and encodings,
clients, calls, kinds of fault, number of faults and of strays. They assume the named
assumptions of the constants: the types of `Form`, `Cbor`, `Envelope`,
`Imports` and the calls, and markers outside the sets they complete.

| Theorem | States |
|---|---|
| `TypeCorrect` | `[]TypeOK` |
| `Verified` | `[]OnlyVerifiedBytes` |
| `Published` | `[]PushedIsPublished` |
| `Accepted` | `[]PushAccepted` |
| `AbsenceTrue` | `[]AbsenceIsTrue` |
| `ErrorsAreReal` | `IntegrityErrorsAreReal` |
| `ReadOnlyIsKept` | `ReadOnlyKept` |

The argument. One invariant carries all of them. `StoresInv`: a store holds under an
identity its bytes, damaged bytes or none. `CallInv`: what a call carries past the
comparison of hashes is what the identity names. `ConnectionInv`: a thread or an
answer belongs to a call that waits for it, one excludes the other, and the thread
works on what was asked; this is what lets an answer be read as one to this
call. `AnswerInv`: an answer is true of the store at some moment since the call began, which
`gap` and `held` record, unless `met` says that it was forged or cut, or that the blob
service failed where the answer is that nothing was found. `AbsenceInv` and
`PushInv` carry that through the answer, the cache and the second read to the end
of the call. Of threads whose client has gone nothing is needed but their type, since no
invariant of a call depends on them but through the stores. For a read-only server,
every thread reads or has only begun (`Harmless`).
Steps are grouped by what they touch: the stores, the threads, one client.

The proofs corrected the model: the arms of two `CASE`s in `RemoteClient` were
not disjoint, so that what an answer meant was the checker's choice among two arms. They are
disjoint now, in the order in which the code tests.

Only model-checked: `CallsEnd` (liveness).

### The Rust interpreter

Seven theorems about `Spec`, for any program, any declarations, any entries and any
order in which branches run. The first three are in `ParallelProofs`.

| Theorem | States | Module |
|---|---|---|
| `EffectsApart` | `[]EffectsKeptApart` | `ParallelProofs` |
| `DepthCounted` | `[]DepthCountsCalls` | `ParallelProofs` |
| `LimitHolds` | `[]WithinLimit`: no task counts more calls than the limit | `ParallelProofs` |
| `Agrees` | `[]AgreesWithTreeWalker` | `AgreementProofs` |
| `NothingLost` | `[]NothingPrintedLost` | `OutputProofs` |
| `OrderKept` | `[]PrintedInOrder` | `OutputProofs` |
| `TypeCorrect` | `[]TypeOK` | `OutputProofs` |

They assume the named assumptions of `ProgramText` and `ParallelEvaluator` (among them that
some scalar is truthy, so that `is_bottom` has two answers); `TypeCorrect` has the hypothesis
`StringsJoin` besides.
`EffectsKeptApart` is conditional itself, on imports that declare what they call, and so is
`PrintedInOrder`, which also asks that no part of a concatenation that may run in parallel
performs an effect itself.

The argument. Two tasks that run at once are branches of one concatenation, or
inside such branches, so the invariant has to follow a path of the tree of tasks. `Paths`:
the set of tasks is closed under prefixes, and each task above another waits, at a
concatenation whose parts have disjoint effects. `Confined`: whatever a
task will still call declares only effects of each part on the way to it
(`Within`), because the definition it is in does, or because the nodes of the
branch lie in that part. A call keeps this as declared effects shrink from
caller to callee, and a spawn as the effects of a part are among those of the whole.
For two tasks, neither above the other, the least level at which their paths differ
(`PathsPart`) names two parts with disjoint effects, one for each. `SubtreeOf` shows that the
recursive function `Subtree` satisfies its defining equation, by giving the set
of what is reachable as a solution of it.

`DepthInv` says that a branch's outermost frame, and no other, is the copy of the
frame it was spawned from, and that the depth of a task is that of its own calls on
top of the depth of the task above. A join discards branches that have returned,
so that the parent's depth is again its own. `DepthCountsCalls` is stated for a task
and the one above it; unrolled to the root it is the sum along the path.

`Agrees` is the largest proof here, a simulation. The run in parallel is compared not
with another run of the model but with a function. `TreeWalk` (in `TreeWalkProofs`) is the
next state of an interpreter that evaluates from left to right, as a function of its stack, depth,
trace and outcome; `StepsAreWalks` shows that every action of a task but a spawn and a
join is that function, in either run. `Walk(I, J)` says that some number of its steps lead
from `I` to `J`: a function on the naturals, not a recursive operator.

A branch is a whole interpreter of its own, with a stack that begins with a copy of the
frame of the concatenation. `Matches` puts it where the tree walker would be: with the
branch's stack on top of the frame that waits, its trace after the traces before it.
`MoveOnTop` and `MatchStep` show that a branch's next step is then the tree walker's next steps,
in three cases: inside the part, when the part ends with a value (which the frame below
takes), and when it ends with an error.

`AgreeInv` says that a walk leads from the entry to what the root task is now, and of each
task with branches, that every branch `Matches` its part (`AllFamilies`). A join is then
one walk after another, over the branches from left to right, up to the first that
failed: `MergeAll` and `FamilyOver` show that the folds by which the model merges values and
traces compute that. Since the last interpreter of a walk is unique, the outcome and trace
of the root task are those of the tree walker. Nothing is assumed of the effects of
the parts: that two branches may run at once matters only for what they print.

`NothingLost` needs in addition where each line is. `PrintInv` gives to every task a
set of places in the output: as many as the task has printed of every line, no place
to two tasks, each place to some task. A step that prints takes the next place; a join gives
the places of the branches to the task that joins them, all of them if no branch failed, those
up to the first failure otherwise. So the output has every line of the final trace, and
when no branch failed, no other. `Agrees` carries that over to `expected`.

`OrderKept` rests on two more invariants. The first, `PlaceInv`, says where in the program a
task is. Every frame is in a definition that at most as many calls lead to from the
entry as it has below it (`CalledWithin`, which ends at the limit of depth, so that `PartsPerform` speaks of
all the code that can run); the frame a branch began with, until it makes a call, is at work within its part
(`AtWorkIn`, from what `Subtree` is); and a task with branches waits at a concatenation for which
`ShouldParallelize` held. So when no part performs an effect itself, whoever prints is in a call,
and then each part on the way to it declares printing (`PrintDeclared`, from `Confined`).

The second, `OrderInv`, is about the places of the lines. The lines of a task have theirs in
the order in which it printed them (`Ordered`); every line is some task's (`Complete`); what a task has
printed came before what its branches have (`Nested`: while they run, it waits); and a task that
has printed has done so with the licence of all parts above it (`Licensed`). A join merges traces
in the order of the parts, which need not be the order in which the branches ran; but of
parts with disjoint effects at most one declares printing (`OnePrints`), so all the others are empty
and the merged lines are in their order again. `OrderInv` asks that no task has failed: a join
that meets an error drops the branches after it, and their lines remain printed.

`InterpOK` and `FrameOK` are what these theorems need of types; that values are values is
`TypeInv`, for `TypeCorrect`. A frame holds scalars and refusals, everywhere a value can be
(`FrameTyped`): a primitive prints and returns scalars only, since a refusal among its
arguments stops all primitives but `is_bottom` (`ResultTyped`), and the error of a task is one of the known
kinds. Since every step but a spawn and a join is `TreeWalk`, it is enough that the moves of the tree
walker keep this (`MovesTyped`, `WalkTyped`). A concatenation is a fold over the texts of its parts, and so are the
traces a join merges: `FoldingExists` and `FoldingSteps` take such a fold apart, one element at a
time, by induction on numbers, and `TextTyped` follows. It needs `StringsJoin`: the empty string is a scalar and two
scalars put together are one. That holds of strings; it is a hypothesis and not an `ASSUME`
because no finite set for TLC satisfies it. The scalars of the run are those that occur in it, and
there `TypeOK` is checked without it.

### What is only model-checked

- Liveness, everywhere: `CallsReturn`, `InvocationsEnd`, `CallsEnd`, `RunsEnd`.
- All of `Publication`. Its modules are recursive over expressions and documents, and
  what such a definition computes for every input is out of reach of the provers.

## Not modelled

- The Rust parser and the Rust copies of the projection and the CBOR codec
  (`crates/codifide-canonical`, `crates/codifide-interpreter/src/parser`): other
  programs for the same specification, without state. The tests of the
  repository compare them with the Python code on a corpus.
- The dispatch index (`dispatch_index.py`) and the capability manifest
  (`capability.py`): tables computed once from constant data, with no state.
- The command line, except the commands that run, put, index and push: argument
  parsing, output, and calls of the functions modelled.
- The primitives as functions on numbers, text and lists; their effects are
  constants of `ProgramText`, their results are left open or abstract.
- Provenance, error texts, the legacy JSON bytes.

## What may follow

The models are complete as planned, and so are the proofs that the provers reach, but for
`StoreContract`: its own invariants, carried over to the store by `StoreImplementsContract`.
