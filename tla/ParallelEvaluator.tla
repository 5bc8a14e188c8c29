------------------------ MODULE ParallelEvaluator ------------------------
(***************************************************************************)
(* The interpreter in Rust (src/crates/codifide-interpreter/src), which    *)
(* evaluates the parts of a concatenation in parallel when each is a call  *)
(* of a definition and no two of them declare a common effect.             *)
(*                                                                         *)
(* A task is an interpreter: one for the entry, and one for every part     *)
(* that is evaluated in parallel.  The name of a task is its path: task    *)
(* <<2, 1>> evaluates the first part of a concatenation of task <<2>>,     *)
(* which evaluates the second part of one of the task <<>>.                *)
(*                                                                         *)
(* Every program runs twice, first with the parallel path switched off;    *)
(* what the tree walker ends with is kept in expected.                     *)
(*                                                                         *)
(* Abstractions.  Values are strings and refusals; a primitive returns its *)
(* first argument or fails.  An error leaves all calls of a task at once.  *)
(* Any number of tasks may be at work, whatever the size of Rayon's pool.  *)
(***************************************************************************)
EXTENDS ProgramText, SequencesExt

CONSTANTS
    Declarations, \* functions from definitions to the effects they declare
    Entries,      \* the definitions a host may name, with the arguments
    Failing,      \* the primitives that fail
    Printing,     \* the effect of the primitives that write to standard output
    Mark,         \* what a refusal looks like in a string
    MaxDepth      \* Interpreter.max_depth

NoValue == "no value"
Unbound == "unbound"

ErrorKinds ==
    {"General", "Effect", "Contract", "Dispatch", "BottomPropagation", "Primitive",
     "RecursionLimit", "Refusal"}

ASSUME EvaluatorAssumption ==
    /\ Declarations \subseteq [Definitions -> SUBSET Effects]
    /\ \A e \in Entries : e.name \in Names /\ e.args \in Seq(Scalars)
    /\ Failing \subseteq DOMAIN Primitives
    /\ Printing \in Effects /\ Mark \in Scalars /\ Scalars # Falsy
    /\ MaxDepth \in Nat \ {0}

VARIABLES
    declared, \* declared[d]: the effects in the signature of d; never changes
    entry,    \* what the host runs; never changes
    mode,     \* whether the module is loaded, and the parallel path switched on
    task,     \* task[t]: the interpreter at path t
    printed,  \* the lines on standard output, in the order they appeared
    expected  \* history: how the tree walker ended, and its trace

vars == <<declared, entry, mode, task, printed, expected>>

-----------------------------------------------------------------------------
(***************************************************************************)
(* Interpreters and their frames, the innermost frame first.  The last     *)
(* frame of a branch is a copy of the frame that holds the concatenation.  *)
(***************************************************************************)
NoOutcome == [kind |-> "none", what |-> NoValue]
Ok(v)     == [kind |-> "value", what |-> v]
Err(e)    == [kind |-> "error", what |-> e]

Silence == [e \in Effects |-> <<>>]

Interp(stack, depth) ==
    [stack |-> stack, depth |-> depth, trace |-> Silence, outcome |-> NoOutcome]

\* Missing arguments are refusals.
NewFrame(d, vs) ==
    [defn |-> d, phase |-> "pre", at |-> 1, allowed |-> {}, satisfied |-> {},
     focus |-> NoNode, work |-> <<>>, given |-> NoValue, result |-> NoValue,
     locals |-> [x \in Names |->
         IF \E i \in 1..Len(Params[d]) : Params[d][i] = x
         THEN LET i == CHOOSE i \in 1..Len(Params[d]) : Params[d][i] = x
              IN  IF i <= Len(vs) THEN vs[i] ELSE Bottom
         ELSE Unbound]]

\* The effects a primitive may have: contracts and guards run with an empty budget.
Allowed(f) ==
    CASE f.phase = "body"   -> declared[f.defn]
      [] f.phase = "branch" -> f.allowed
      [] OTHER              -> {}

BranchFrame(f, n) ==
    [f EXCEPT !.phase = "branch", !.allowed = Allowed(f), !.focus = n, !.work = <<>>]

Give(f, v) ==
    IF f.work = <<>>
    THEN [f EXCEPT !.focus = NoNode, !.given = v]
    ELSE [f EXCEPT !.focus = NoNode,
                   !.work = <<[Head(f.work) EXCEPT !.done = Append(@, v)]>> \o Tail(f.work)]

Finish(f, v) == Give([f EXCEPT !.work = Tail(f.work), !.locals = Head(f.work).outer], v)

NextPart(w) ==
    LET parts == Node[w.node].parts
        i     == Len(w.done) + 1
    IN  IF Node[w.node].kind = "conditional" /\ i > 1
        THEN IF i = 2 THEN (IF Truthy(w.done[1]) THEN parts[2] ELSE parts[3]) ELSE NoNode
        ELSE IF i <= Len(parts) THEN parts[i] ELSE NoNode

-----------------------------------------------------------------------------
Tasks == DOMAIN task

Kids(t) == {u \in Tasks : Len(u) = Len(t) + 1 /\ SubSeq(u, 1, Len(t)) = t}

Ended(t)  == task[t].outcome # NoOutcome
Active(t) == mode \in {"tree walker", "parallel"} /\ ~Ended(t) /\ Kids(t) = {}

Top(t)     == Head(task[t].stack)
Inner(t)   == Node[Head(Top(t).work).node]
Done(t)    == Head(Top(t).work).done
Idle(f)    == f.focus = NoNode /\ f.work = <<>> /\ f.given = NoValue
Settled(f) == f.focus = NoNode /\ f.work = <<>> /\ f.given # NoValue

\* Every part of the innermost expression of t is done.
Ready(t) == Top(t).focus = NoNode /\ Top(t).work # <<>> /\ NextPart(Head(Top(t).work)) = NoNode

Update(t, interp) ==
    /\ task' = [task EXCEPT ![t] = interp]
    /\ UNCHANGED <<declared, entry, mode, expected>>

Become(t, f) ==
    /\ Update(t, [task[t] EXCEPT !.stack = <<f>> \o Tail(@)])
    /\ UNCHANGED printed

\* The calls a stack holds; a branch belongs to a call of the task above.
Calls(stack) == Cardinality({i \in 1..Len(stack) : stack[i].phase # "branch"})

Raise(t, e) ==
    /\ Update(t, [task[t] EXCEPT !.stack = <<>>, !.outcome = Err(e), !.depth = @ - Calls(task[t].stack)])
    /\ UNCHANGED printed

-----------------------------------------------------------------------------
(***************************************************************************)
(* Running a module: the static check, which looks at local callees only,  *)
(* and the invocation of the entry.                                        *)
(***************************************************************************)
EffectsDeclared ==
    \A d \in Local : \A c \in Callees(d) \intersect Local : declared[c] \subseteq declared[d]

\* The interpreter of the entry, before its first step.
EntryInterp ==
    IF entry.name \in DOMAIN Symbols
    THEN Interp(<<NewFrame(Symbols[entry.name], entry.args)>>, 1)
    ELSE [Interp(<<>>, 0) EXCEPT !.outcome = Err("General")]

Load ==
    /\ mode = "new"
    /\ IF EffectsDeclared
       THEN /\ mode' = "tree walker"
            /\ task' = [t \in {<<>>} |-> EntryInterp]
       ELSE /\ mode' = "refused"
            /\ UNCHANGED task
    /\ UNCHANGED <<declared, entry, printed, expected>>

\* The same run again, now with the parallel path.
RunAgain ==
    /\ mode = "tree walker" /\ Ended(<<>>)
    /\ mode' = "parallel"
    /\ expected' = [outcome |-> task[<<>>].outcome, trace |-> task[<<>>].trace]
    /\ task' = [t \in {<<>>} |-> EntryInterp]
    /\ printed' = <<>>
    /\ UNCHANGED <<declared, entry>>

-----------------------------------------------------------------------------
(***************************************************************************)
(* Contract clauses, guards and candidates.                                *)
(***************************************************************************)
ClausePhases == {"pre", "guard", "post"}

Clause(f) ==
    CASE f.phase = "pre"   -> Pre[f.defn][f.at]
      [] f.phase = "guard" -> Candidates[f.defn][f.at].guard
      [] f.phase = "post"  -> Post[f.defn][f.at]

ClauseCount(f) ==
    CASE f.phase = "pre"   -> Len(Pre[f.defn])
      [] f.phase = "guard" -> Len(Candidates[f.defn])
      [] f.phase = "post"  -> Len(Post[f.defn])

InClauses(f)   == f.phase \in ClausePhases /\ f.at <= ClauseCount(f)
PastClauses(f) == f.phase \in ClausePhases /\ f.at > ClauseCount(f)

BeginClause(t) ==
    LET f == Top(t)
    IN  /\ Active(t) /\ Idle(f) /\ InClauses(f) /\ Clause(f) # NoNode
        /\ Become(t, [f EXCEPT
              !.focus = Clause(f),
              !.locals = IF f.phase = "post" THEN [f.locals EXCEPT !["result"] = f.result]
                                             ELSE f.locals])

\* Bug: the same clause is evaluated again.
SameClause(f) == f.at

NextClause(f) == f.at + 1

NoGuard(t) ==
    LET f == Top(t)
    IN  /\ Active(t) /\ Idle(f) /\ InClauses(f) /\ Clause(f) = NoNode
        /\ Become(t, [f EXCEPT !.at = NextClause(f), !.satisfied = @ \union {f.at}])

\* A guard may fail; a contract clause must hold.
ClauseDecided(t) ==
    LET f == Top(t)
    IN  /\ Active(t) /\ Settled(f) /\ InClauses(f)
        /\ Truthy(f.given) \/ f.phase = "guard"
        /\ Become(t, [f EXCEPT
              !.given = NoValue, !.at = NextClause(f),
              !.satisfied = IF f.phase = "guard" /\ Truthy(f.given) THEN @ \union {f.at} ELSE @])

ClauseFails(t) ==
    /\ Active(t) /\ Settled(Top(t)) /\ InClauses(Top(t))
    /\ ~Truthy(Top(t).given) /\ Top(t).phase # "guard"
    /\ Raise(t, "Contract")

ClausesPassed(t) ==
    LET f == Top(t)
    IN  /\ Active(t) /\ Idle(f) /\ PastClauses(f) /\ f.phase # "guard"
        /\ Become(t, [f EXCEPT !.phase = IF f.phase = "pre" THEN "guard" ELSE "return", !.at = 1])

Dispatch(t) ==
    LET f == Top(t)
        chosen == Cheapest(f.defn, f.satisfied)
    IN  /\ Active(t) /\ Idle(f) /\ PastClauses(f) /\ f.phase = "guard" /\ f.satisfied # {}
        /\ Become(t, [f EXCEPT !.phase = "body", !.at = chosen,
                               !.focus = Candidates[f.defn][chosen].body])

DispatchFails(t) ==
    /\ Active(t) /\ Idle(Top(t)) /\ PastClauses(Top(t))
    /\ Top(t).phase = "guard" /\ Top(t).satisfied = {}
    /\ Raise(t, "Dispatch")

\* After a refusal there are no postconditions.
BodyEnds(t) ==
    LET f == Top(t)
    IN  /\ Active(t) /\ Settled(f) /\ f.phase = "body"
        /\ Become(t, [f EXCEPT
              !.phase = IF f.given = Bottom THEN "return" ELSE "post",
              !.at = 1, !.given = NoValue, !.result = f.given])

-----------------------------------------------------------------------------
(***************************************************************************)
(* Whether the parts of a concatenation may run in parallel.               *)
(***************************************************************************)
Subtree[n \in Nodes] ==
    {n} \union UNION {Subtree[Node[n].parts[i]] : i \in 1..Len(Node[n].parts)}

IsUserCall(n) == Node[n].kind = "call" /\ IsDefinition(Node[n].name)

\* Bug: calls among the arguments of a part are not looked at.
OuterEffects(n) == declared[Lookup(Node[n].name)]

\* The declared effects of the definitions called in n; those of primitives do not count.
ExprEffects(n) ==
    UNION {declared[Lookup(Node[m].name)] : m \in {k \in Subtree[n] : IsUserCall(k)}}

\* Bug: only neighbours are compared.
NeighboursDisjoint(ns) ==
    \A i, j \in 1..Len(ns) : j = i + 1 => ExprEffects(ns[i]) \intersect ExprEffects(ns[j]) = {}

AllDisjoint(ns) ==
    \A i, j \in 1..Len(ns) : i < j => ExprEffects(ns[i]) \intersect ExprEffects(ns[j]) = {}

ShouldParallelize(ns) ==
    /\ Len(ns) >= 2
    /\ \A i \in 1..Len(ns) : IsUserCall(ns[i])
    /\ AllDisjoint(ns)

RunsInParallel(n) ==
    mode = "parallel" /\ Node[n].kind = "concat" /\ ShouldParallelize(Node[n].parts)

-----------------------------------------------------------------------------
(***************************************************************************)
(* Expressions.                                                            *)
(***************************************************************************)
Evaluating(t, kinds) == Active(t) /\ Top(t).focus # NoNode /\ Node[Top(t).focus].kind \in kinds

EvalLeaf(t) ==
    LET n == Node[Top(t).focus]
        v == CASE n.kind = "literal"   -> n.value
               [] n.kind = "refusal"   -> Bottom
               [] n.kind = "reference" -> Top(t).locals[n.name]
    IN  /\ Evaluating(t, LeafKinds)
        /\ IF v = Unbound THEN Raise(t, "General") ELSE Become(t, Give(Top(t), v))

\* The effect of a primitive call, if n is one.
EffectsOf(n) ==
    IF Node[n].kind = "call" /\ IsPrimitive(Node[n].name)
    THEN {Primitives[Node[n].name]} \ {NoEffect}
    ELSE {}

Callable(n) == IsDefinition(Node[n].name) \/ IsPrimitive(Node[n].name)

\* An expression with parts is begun; a primitive first has to be allowed.
Begin(t) ==
    LET f == Top(t)
        n == f.focus
    IN  /\ Evaluating(t, InnerKinds) /\ ~RunsInParallel(n)
        /\ Node[n].kind = "call" => Callable(n)
        /\ EffectsOf(n) \subseteq Allowed(f)
        /\ Become(t, [f EXCEPT
              !.focus = NoNode,
              !.work = <<[node |-> n, done |-> <<>>, outer |-> f.locals]>> \o @])

CallRefused(t) ==
    LET n == Top(t).focus
    IN  /\ Evaluating(t, {"call"})
        /\ \/ ~Callable(n) /\ Raise(t, "General")
           \/ ~(EffectsOf(n) \subseteq Allowed(Top(t))) /\ Raise(t, "Effect")

EvalPart(t) ==
    LET f == Top(t)
        w == Head(f.work)
    IN  /\ Active(t) /\ f.focus = NoNode /\ f.work # <<>> /\ NextPart(w) # NoNode
        /\ Become(t, [f EXCEPT
              !.focus = NextPart(w),
              !.locals = IF Node[w.node].kind = "binding" /\ Len(w.done) = 1
                         THEN [f.locals EXCEPT ![Node[w.node].name] = w.done[1]]
                         ELSE f.locals])

Finishing(t, kinds) == Active(t) /\ Ready(t) /\ Inner(t).kind \in kinds

FinishLast(t) ==
    /\ Finishing(t, {"sequence", "conditional", "binding"})
    /\ Become(t, Finish(Top(t), Done(t)[Len(Done(t))]))

\* A refusal is marked in the string and no longer one.
Text(vs) == FoldLeft(LAMBDA s, v : s \o (IF v = Bottom THEN Mark ELSE v), "", vs)

FinishConcat(t) ==
    /\ Finishing(t, {"concat"})
    /\ Become(t, Finish(Top(t), Text(Done(t))))

\* A string has no fields.
FieldMissing(t) == Finishing(t, {"field"}) /\ Raise(t, "General")

-----------------------------------------------------------------------------
(***************************************************************************)
(* Calls.                                                                  *)
(***************************************************************************)
FinishingPrimitive(t) == Finishing(t, {"call"}) /\ IsPrimitive(Inner(t).name)

Refused(vs) == \E i \in 1..Len(vs) : vs[i] = Bottom

Truth(b) == CHOOSE x \in Scalars : Truthy(x) <=> b

Result(p, vs) ==
    CASE p = "is_bottom" -> Truth(Refused(vs))
      [] p # "is_bottom" -> IF vs = <<>> THEN Nothing ELSE vs[1]

\* A line is on standard output at once, and in the trace of the branch.
CallPrimitive(t) ==
    LET p == Inner(t).name
        v == Result(p, Done(t))
        e == EffectsOf(Head(Top(t).work).node)
    IN  /\ FinishingPrimitive(t) /\ p \notin Failing
        /\ Refused(Done(t)) => p = "is_bottom"
        /\ Update(t, [task[t] EXCEPT
              !.stack = <<Finish(Top(t), v)>> \o Tail(@),
              !.trace = [x \in Effects |-> IF x \in e THEN Append(@[x], v) ELSE @[x]]])
        /\ printed' = IF Printing \in e THEN Append(printed, v) ELSE printed

PrimitiveRaises(t) ==
    LET p == Inner(t).name
    IN  /\ FinishingPrimitive(t)
        /\ IF Refused(Done(t)) /\ p # "is_bottom"
           THEN Raise(t, "BottomPropagation")
           ELSE p \in Failing /\ Raise(t, "Primitive")

\* Bug: one call too many.
HasRoomAtLimit(t) == task[t].depth <= MaxDepth

HasRoom(t) == task[t].depth < MaxDepth

CallDefinition(t) ==
    /\ Finishing(t, {"call"}) /\ IsDefinition(Inner(t).name) /\ HasRoom(t)
    /\ Update(t, [task[t] EXCEPT
          !.stack = <<NewFrame(Lookup(Inner(t).name), Done(t))>> \o @,
          !.depth = @ + 1])
    /\ UNCHANGED printed

RecursionLimit(t) ==
    /\ Finishing(t, {"call"}) /\ IsDefinition(Inner(t).name) /\ ~HasRoom(t)
    /\ Raise(t, "RecursionLimit")

Return(t) ==
    LET f == Top(t)
        rest == Tail(task[t].stack)
    IN  /\ Active(t) /\ f.phase = "return" /\ rest # <<>>
        /\ Update(t, [task[t] EXCEPT
              !.stack = <<Finish(Head(rest), f.result)>> \o Tail(rest),
              !.depth = @ - 1])
        /\ UNCHANGED printed

\* The host takes no refusal for an answer.
ReturnToHost(t) ==
    LET v == Top(t).result
    IN  /\ Active(t) /\ Top(t).phase = "return" /\ Tail(task[t].stack) = <<>>
        /\ Update(t, [task[t] EXCEPT
              !.stack = <<>>, !.depth = @ - 1,
              !.outcome = IF v = Bottom THEN Err("Refusal") ELSE Ok(v)])
        /\ UNCHANGED printed

-----------------------------------------------------------------------------
(***************************************************************************)
(* Branches: one interpreter for each part, with a copy of the frame, the  *)
(* depth of the parent and a trace of its own.  The parent waits for all.  *)
(***************************************************************************)
\* Bug: every branch counts its calls from zero.
BranchDepthZero(t) == 0

BranchDepth(t) == task[t].depth

Spawn(t) ==
    LET f == Top(t)
        parts == Node[f.focus].parts
        kids == {Append(t, i) : i \in 1..Len(parts)}
    IN  /\ Evaluating(t, {"concat"}) /\ RunsInParallel(f.focus)
        /\ task' = [u \in Tasks \union kids |->
               IF u \in kids
               THEN Interp(<<BranchFrame(f, parts[u[Len(u)]])>>, BranchDepth(t))
               ELSE task[u]]
        /\ UNCHANGED <<declared, entry, mode, printed, expected>>

BranchEnds(t) ==
    /\ Active(t) /\ Top(t).phase = "branch" /\ Settled(Top(t))
    /\ Update(t, [task[t] EXCEPT !.stack = <<>>, !.outcome = Ok(Top(t).given)])
    /\ UNCHANGED printed

\* Bug: one failed branch is enough for the parent to go on.
SomeFailed(t) ==
    \/ \A u \in Kids(t) : Ended(u)
    \/ \E u \in Kids(t) : task[u].outcome.kind = "error"

AllEnded(t) == \A u \in Kids(t) : Ended(u)

Failed(t) == {i \in 1..Cardinality(Kids(t)) : task[Append(t, i)].outcome.kind = "error"}

\* The branches looked at: all, or those up to the first that failed.
LookedAt(t) ==
    {i \in 1..Cardinality(Kids(t)) : \A j \in Failed(t) : i <= j}

\* Bug: the traces of all branches are merged before the first error is looked for.
MergedAll(t) ==
    [e \in Effects |->
        FoldLeft(LAMBDA seen, i : seen \o task[Append(t, i)].trace[e],
                 task[t].trace[e], [i \in 1..Cardinality(Kids(t)) |-> i])]

Merged(t) ==
    [e \in Effects |->
        FoldLeft(LAMBDA seen, i :
                     IF i \in LookedAt(t) THEN seen \o task[Append(t, i)].trace[e] ELSE seen,
                 task[t].trace[e], [i \in 1..Cardinality(Kids(t)) |-> i])]

Without(t, interp) == [u \in Tasks \ Kids(t) |-> IF u = t THEN interp ELSE task[u]]

\* The traces are merged in the order of the parts; the first error in that order counts.
Join(t) ==
    LET f == Top(t)
        kids == Kids(t)
        given == [i \in 1..Cardinality(kids) |-> task[Append(t, i)].outcome.what]
        calls == Calls(task[t].stack)
    IN  /\ ~Ended(t) /\ kids # {} /\ AllEnded(t)
        /\ task' = Without(t,
               IF Failed(t) = {}
               THEN [task[t] EXCEPT !.stack = <<Give(f, Text(given))>> \o Tail(@), !.trace = Merged(t)]
               ELSE LET first == CHOOSE i \in Failed(t) : \A j \in Failed(t) : i <= j
                    IN  [task[t] EXCEPT !.stack = <<>>, !.depth = @ - calls, !.trace = Merged(t),
                                        !.outcome = task[Append(t, first)].outcome])
        /\ UNCHANGED <<declared, entry, mode, printed, expected>>

-----------------------------------------------------------------------------
Init ==
    /\ declared \in Declarations /\ entry \in Entries
    /\ mode = "new"
    /\ task = [t \in {<<>>} |-> Interp(<<>>, 0)]
    /\ printed = <<>>
    /\ expected = [outcome |-> NoOutcome, trace |-> Silence]

Step(t) ==
    \/ BeginClause(t) \/ NoGuard(t) \/ ClauseDecided(t) \/ ClauseFails(t) \/ ClausesPassed(t)
    \/ Dispatch(t) \/ DispatchFails(t) \/ BodyEnds(t)
    \/ EvalLeaf(t) \/ Begin(t) \/ CallRefused(t) \/ EvalPart(t)
    \/ FinishLast(t) \/ FinishConcat(t) \/ FieldMissing(t)
    \/ CallPrimitive(t) \/ PrimitiveRaises(t) \/ CallDefinition(t) \/ RecursionLimit(t)
    \/ Return(t) \/ ReturnToHost(t)
    \/ Spawn(t) \/ BranchEnds(t) \/ Join(t)

Over == mode = "refused" \/ (mode = "parallel" /\ Ended(<<>>))

Rest == Over /\ UNCHANGED vars

Work == Load \/ RunAgain \/ \E t \in Tasks : Step(t)

Next == Work \/ Rest

Spec == Init /\ [][Next]_vars

\* The host runs the module, and the pool always lets some task go on.
FairSpec == Spec /\ WF_vars(Work)

-----------------------------------------------------------------------------
(***************************************************************************)
(* Properties.                                                             *)
(***************************************************************************)
Outcomes == [kind : {"none", "value", "error"}, what : Values \union ErrorKinds \union {NoValue}]
Traces   == [Effects -> Seq(Scalars)]

\* Types; every branch has its parent, which holds the call of the branch's frame.
TypeOK ==
    /\ declared \in Declarations /\ entry \in Entries
    /\ mode \in {"new", "tree walker", "parallel", "refused"}
    /\ <<>> \in Tasks
    /\ \A t \in Tasks :
          /\ t # <<>> => Front(t) \in Tasks /\ mode = "parallel" /\ ~Ended(Front(t))
          /\ task[t].depth \in 0..MaxDepth
          /\ task[t].trace \in Traces /\ task[t].outcome \in Outcomes
          /\ \A i \in 1..Len(task[t].stack) :
                (task[t].stack[i].phase = "branch") <=> (t # <<>> /\ i = Len(task[t].stack))
    /\ printed \in Seq(Scalars)
    /\ expected.trace \in Traces /\ expected.outcome \in Outcomes

RunOver == mode = "parallel" /\ Ended(<<>>)

\* The tree walker is the reference (parallel.rs:4-5, interpreter.rs:3-4): whatever the
\* interleaving of the branches, the run ends with its value or error and its trace.
AgreesWithTreeWalker ==
    RunOver => expected = [outcome |-> task[<<>>].outcome, trace |-> task[<<>>].trace]

\* Effect e is about to happen in task t: a primitive that has it is called next.
AboutToPerform(t, e) ==
    Active(t) /\ Ready(t) /\ e \in EffectsOf(Head(Top(t).work).node)

\* The load check leaves imports out (interpreter.rs:80-81).
ImportsDeclare ==
    \A d \in Local \union Imported : \A c \in Callees(d) :
        {d, c} \intersect Imported # {} => declared[c] \subseteq declared[d]

\* Two tasks that share an effect must not run side by side (parallel.rs:18-21): what
\* the analysis sees is an over-approximation, so that the code "never runs two
\* expressions in parallel when they shouldn't be" (parallel.rs:60-63).  The code keeps
\* less than that, and this property says how much: effects that happen in a call that a
\* branch has made never meet, if imports declare what they call.  Effects of primitives
\* among the arguments of a part are not in the analysis and may meet (parallel.rs:93-97),
\* and so may those of imports that declare too little: OutputNeverReordered fails then.
EffectsKeptApart ==
    \A t, u \in Tasks : \A e \in Effects :
        /\ t # u
        /\ AboutToPerform(t, e) /\ Top(t).phase # "branch"
        /\ AboutToPerform(u, e) /\ Top(u).phase # "branch"
        => ~ImportsDeclare

\* The definitions at most k calls away from the entry.
CalledWithin[k \in Nat] ==
    IF k = 0 THEN {Symbols[entry.name]}
    ELSE CalledWithin[k - 1] \union UNION {Callees(d) : d \in CalledWithin[k - 1]}

\* Some part of a concatenation of this run calls a primitive with an effect itself.
PartsPerform ==
    \E n \in UNION {AllExprsOf(d) : d \in CalledWithin[MaxDepth]} :
        /\ Node[n].kind = "concat" /\ ShouldParallelize(Node[n].parts)
        /\ \E m \in Subtree[n] : EffectsOf(m) # {}

\* Standard output has the lines of the trace in its order, although branches print as
\* they go and only their traces are sorted; unless an effect is hidden from the analysis,
\* by an import or by a part that calls the primitive itself.
PrintedInOrder ==
    RunOver /\ task[<<>>].outcome.kind = "value" /\ ImportsDeclare /\ ~PartsPerform =>
        printed = task[<<>>].trace[Printing]

\* What the design promises without these conditions: output is "never interleaved or
\* reordered by thread scheduling" (parallel-evaluator-proposal.readout.md:70-73).  In
\* f(io.say("a")) ++ f(io.say("b")) the two lines may come out in the other order.
OutputNeverReordered ==
    RunOver /\ task[<<>>].outcome.kind = "value" => printed = task[<<>>].trace[Printing]

Occurrences(s, x) == Cardinality({i \in 1..Len(s) : s[i] = x})

\* In any case what the tree walker prints is printed as often; only after an error
\* may there be more, from branches the tree walker does not reach.
NothingPrintedLost ==
    RunOver => \A x \in {expected.trace[Printing][i] : i \in 1..Len(expected.trace[Printing])} \union
                        {printed[i] : i \in 1..Len(printed)} :
        /\ Occurrences(printed, x) >= Occurrences(expected.trace[Printing], x)
        /\ expected.outcome.kind = "value" =>
               Occurrences(printed, x) = Occurrences(expected.trace[Printing], x)

\* The depth of a task counts its own calls on top of those of the tasks above it, as
\* one stack would: branches neither gain room under the limit nor lose it.
DepthCountsCalls ==
    mode \in {"tree walker", "parallel"} =>
        \A t \in Tasks :
            task[t].depth =
                Calls(task[t].stack) + IF t = <<>> THEN 0 ELSE task[Front(t)].depth

\* Every run ends, and a task that waits for its branches goes on.
RunsEnd == <>Over
=============================================================================
