---------------------------- MODULE Interpreter ----------------------------
(***************************************************************************)
(* The interpreter of src/codifide/runtime/interpreter.py as an abstract   *)
(* machine.  The Python stack becomes explicit: a stack of frames, the     *)
(* innermost first, each with the expressions it has begun and not yet     *)
(* finished.  What a primitive computes is left open: any scalar, or a     *)
(* failure.  Which effects the definitions declare is left open too: the   *)
(* initial states take every choice of Declarations.                       *)
(***************************************************************************)
EXTENDS ProgramText

CONSTANTS
    Declarations, \* functions from definitions to the effects they declare
    ArgLists,     \* the arguments a host passes
    KeyOf,        \* KeyOf[x]: what _normalize_for_key makes of a scalar
    MaxDepth      \* Interpreter.max_depth

NoValue  == "no value"
NoError  == "no error"
Unbound  == "unbound"

Errors ==
    {"CodifideError", "EffectViolation", "ContractViolation", "DispatchError",
     "BottomPropagationError", "PrimitiveError", "RecursionLimitError",
     "TypeViolation", "RefusalError"}

ASSUME InterpreterAssumption ==
    /\ Declarations \subseteq [Definitions -> SUBSET Effects]
    /\ ArgLists \subseteq Seq(Scalars)
    /\ Scalars \subseteq DOMAIN KeyOf
    /\ MaxDepth \in Nat \ {0}
    /\ NoValue \notin Values /\ Unbound \notin Values

VARIABLES
    declared, \* declared[d]: the effects in the signature of d; never changes
    loaded,   \* whether the module passed _check_transitive_effects
    stack,    \* the frames, the innermost first
    depth,    \* _depth
    chain,    \* _intent_chain, the names in it, the innermost first
    memo,     \* _memo
    raised,   \* the error on its way to the host, or NoError
    outcome,  \* history: what the last invocation gave the host
    computed  \* history: definition, arguments and result of the calls that
              \*   returned to a caller in the invocation

vars == <<declared, loaded, stack, depth, chain, memo, raised, outcome, computed>>

-----------------------------------------------------------------------------
(***************************************************************************)
(* Frames.  An expression that was begun waits on work with the values of  *)
(* its parts that are done, and the locals it was begun with.              *)
(***************************************************************************)
Locals == [Names -> Values \union {Unbound}]

Begun == [node : Nodes, done : Seq(Values), outer : Locals]

ClausePhases == {"pre", "guard", "post"}
Phases == ClausePhases \union {"bind", "body", "return"}

Frames ==
    [defn : Definitions, args : Seq(Values), locals : Locals,
     phase : Phases,                     \* the part of the call the frame is in
     at : Nat \ {0},                     \*   and the clause or candidate of that part
     focus : Nodes \union {NoNode},      \* the expression to evaluate next
     work : Seq(Begun),                  \* those begun, the innermost first
     given : Values \union {NoValue},    \* the value of the clause or body, once there
     satisfied : SUBSET Nat,             \* the candidates whose guards held
     held : SUBSET (Nodes \union {NoNode}),   \* history: the clauses and guards that held,
     failed : SUBSET (Nodes \union {NoNode}), \*   and those that did not
     result : Values \union {NoValue}]   \* what the body gave

NewFrame(d, vs) ==
    [defn |-> d, args |-> vs, locals |-> [x \in Names |-> Unbound], phase |-> "bind", at |-> 1,
     focus |-> NoNode, work |-> <<>>, given |-> NoValue, satisfied |-> {}, held |-> {},
     failed |-> {}, result |-> NoValue]

\* A value goes to the expression that waits for it, or to the clause or body.
Give(f, v) ==
    IF f.work = <<>>
    THEN [f EXCEPT !.focus = NoNode, !.given = v]
    ELSE [f EXCEPT !.focus = NoNode,
                   !.work = <<[Head(f.work) EXCEPT !.done = Append(@, v)]>> \o Tail(f.work)]

\* Bug: a name bound inside an expression stays bound after it.
FinishInPlace(f, v) == Give([f EXCEPT !.work = Tail(f.work)], v)

\* The innermost expression has a value; names bound inside it are gone.
Finish(f, v) == Give([f EXCEPT !.work = Tail(f.work), !.locals = Head(f.work).outer], v)

\* The part of a begun expression to evaluate next, or NoNode.
NextPart(w) ==
    LET parts == Node[w.node].parts
        i     == Len(w.done) + 1
    IN  IF Node[w.node].kind = "conditional" /\ i > 1
        THEN IF i = 2 THEN (IF Truthy(w.done[1]) THEN parts[2] ELSE parts[3]) ELSE NoNode
        ELSE IF i <= Len(parts) THEN parts[i] ELSE NoNode

\* The effects a primitive may have: contracts run with an empty budget.
Budget(f) == IF f.phase = "body" THEN declared[f.defn] ELSE {}

-----------------------------------------------------------------------------
Running == stack # <<>> /\ raised = NoError
Top     == Head(stack)

Idle(f)    == f.focus = NoNode /\ f.work = <<>> /\ f.given = NoValue
Settled(f) == f.focus = NoNode /\ f.work = <<>> /\ f.given # NoValue
Inner(f)   == Node[Head(f.work).node]

\* Every part of the innermost expression of f is done.
Ready(f) == f.focus = NoNode /\ f.work # <<>> /\ NextPart(Head(f.work)) = NoNode

Become(f) ==
    /\ stack' = <<f>> \o Tail(stack)
    /\ UNCHANGED <<declared, loaded, depth, chain, memo, raised, outcome, computed>>

Raise(error) ==
    /\ raised' = error
    /\ UNCHANGED <<declared, loaded, stack, depth, chain, memo, outcome, computed>>

\* _push_depth, and the entry into the intent chain.
Push(d, vs, below) ==
    /\ stack' = <<NewFrame(d, vs)>> \o below
    /\ depth' = depth + 1
    /\ chain' = <<NameOf[d]>> \o chain

\* Bug: the depth is restored by the call and by its finally clause.
PopTwice(below) == stack' = below /\ depth' = depth - 2 /\ chain' = Tail(chain)

\* Bug: the depth is not restored when a call ends.
PopWithoutDepth(below) == stack' = below /\ depth' = depth /\ chain' = Tail(chain)

\* The finally clause of a call.
Pop(below) == stack' = below /\ depth' = depth - 1 /\ chain' = Tail(chain)

-----------------------------------------------------------------------------
(***************************************************************************)
(* Loading: every definition a local definition calls declares no effect   *)
(* the caller does not.                                                    *)
(***************************************************************************)
\* Bug: imported callees are not looked at.
LocalEffectsDeclared ==
    \A d \in Local : \A c \in Callees(d) \intersect Local : declared[c] \subseteq declared[d]

EffectsDeclared ==
    \A d \in Local : \A c \in Callees(d) : declared[c] \subseteq declared[d]

Load ==
    /\ ~loaded /\ EffectsDeclared
    /\ loaded' = TRUE
    /\ UNCHANGED <<declared, stack, depth, chain, memo, raised, outcome, computed>>

LoadRefused ==
    /\ ~loaded /\ ~EffectsDeclared
    /\ outcome' = "EffectViolation"
    /\ UNCHANGED <<declared, loaded, stack, depth, chain, memo, raised, computed>>

-----------------------------------------------------------------------------
(***************************************************************************)
(* Invocation by the host, and the parameters.                             *)
(***************************************************************************)
\* Bug: the memo of the last invocation is kept.
MemoKept == memo

MemoAtInvoke == <<>>

Invoke(name, vs) ==
    /\ loaded /\ stack = <<>> /\ name \in DOMAIN Symbols
    /\ Push(Symbols[name], vs, <<>>)
    /\ memo' = MemoAtInvoke /\ computed' = {} /\ outcome' = NoError
    /\ UNCHANGED <<declared, loaded, raised>>

NoSuchDefinition(name) ==
    /\ loaded /\ stack = <<>> /\ name \notin DOMAIN Symbols
    /\ outcome' = "CodifideError"
    /\ UNCHANGED <<declared, loaded, stack, depth, chain, memo, raised, computed>>

\* What is no Value is wrapped in one: a missing argument as None, a refusal as it is.
Argument(f, i) ==
    IF i > Len(f.args) THEN Nothing
    ELSE IF f.args[i] = Bottom THEN Boxed ELSE f.args[i]

\* A wrapped argument gets the declared type; a Value has to have it.
ArgumentsFit(f) ==
    \A i \in 1..Len(Params[f.defn]) :
        i <= Len(f.args) /\ f.args[i] # Bottom => f.args[i] \in ParamTypes[f.defn][i]

BindParameters ==
    LET f == Top
        ps == Params[f.defn]
    IN  /\ Running /\ f.phase = "bind" /\ ArgumentsFit(f)
        /\ Become([f EXCEPT
              !.phase = "pre",
              !.locals = [x \in Names |->
                  IF \E i \in 1..Len(ps) : ps[i] = x
                  THEN Argument(f, CHOOSE i \in 1..Len(ps) : ps[i] = x)
                  ELSE Unbound]])

ArgumentRefused ==
    /\ Running /\ Top.phase = "bind" /\ ~ArgumentsFit(Top)
    /\ Raise("TypeViolation")

-----------------------------------------------------------------------------
(***************************************************************************)
(* Contract clauses and guards.                                            *)
(***************************************************************************)
Clause(f) ==
    CASE f.phase = "pre"   -> Pre[f.defn][f.at]
      [] f.phase = "guard" -> Candidates[f.defn][f.at].guard
      [] f.phase = "post"  -> Post[f.defn][f.at]

ClauseCount(f) ==
    CASE f.phase = "pre"   -> Len(Pre[f.defn])
      [] f.phase = "guard" -> Len(Candidates[f.defn])
      [] f.phase = "post"  -> Len(Post[f.defn])

InClauses(f) == f.phase \in ClausePhases /\ f.at <= ClauseCount(f)

PastClauses(f) == f.phase \in ClausePhases /\ f.at > ClauseCount(f)

\* Postconditions see the result under its name.
BeginClause ==
    LET f == Top
    IN  /\ Running /\ Idle(f) /\ InClauses(f) /\ Clause(f) # NoNode
        /\ Become([f EXCEPT
              !.focus = Clause(f),
              !.locals = IF f.phase = "post" THEN [f.locals EXCEPT !["result"] = f.result]
                                             ELSE f.locals])

\* Bug: the same clause is evaluated again.
SameClause(f) == f.at

NextClause(f) == f.at + 1

ClauseHolds ==
    LET f == Top
    IN  /\ Running /\ Settled(f) /\ InClauses(f) /\ Truthy(f.given)
        /\ Become([f EXCEPT
              !.given = NoValue, !.at = NextClause(f), !.held = @ \union {Clause(f)},
              !.satisfied = IF f.phase = "guard" THEN @ \union {f.at} ELSE @])

ClauseFails ==
    /\ Running /\ Settled(Top) /\ InClauses(Top) /\ ~Truthy(Top.given)
    /\ Top.phase # "guard"
    /\ Raise("ContractViolation")

GuardFails ==
    LET f == Top
    IN  /\ Running /\ Settled(f) /\ InClauses(f) /\ ~Truthy(f.given)
        /\ f.phase = "guard"
        /\ Become([f EXCEPT
              !.given = NoValue, !.at = NextClause(f), !.failed = @ \union {Clause(f)}])

NoGuard ==
    LET f == Top
    IN  /\ Running /\ Idle(f) /\ InClauses(f) /\ Clause(f) = NoNode
        /\ Become([f EXCEPT !.at = NextClause(f), !.satisfied = @ \union {f.at}])

\* Bug: the first satisfied candidate is taken, whatever it costs.
Earliest(f) == CHOOSE i \in f.satisfied : \A j \in f.satisfied : i <= j

Chosen(f) == Cheapest(f.defn, f.satisfied)

PreconditionsHold ==
    LET f == Top
    IN  /\ Running /\ Idle(f) /\ PastClauses(f) /\ f.phase = "pre"
        /\ Become([f EXCEPT !.phase = "guard", !.at = 1])

Dispatch ==
    LET f == Top
    IN  /\ Running /\ Idle(f) /\ PastClauses(f) /\ f.phase = "guard" /\ f.satisfied # {}
        /\ Become([f EXCEPT
              !.phase = "body", !.at = Chosen(f),
              !.focus = Candidates[f.defn][Chosen(f)].body])

DispatchFails ==
    /\ Running /\ Idle(Top) /\ PastClauses(Top) /\ Top.phase = "guard" /\ Top.satisfied = {}
    /\ Raise("DispatchError")

\* After a refusal there are no postconditions.
BodyEnds ==
    LET f == Top
    IN  /\ Running /\ Settled(f) /\ f.phase = "body"
        /\ Become([f EXCEPT
              !.phase = IF f.given = Bottom THEN "return" ELSE "post",
              !.at = 1, !.given = NoValue, !.result = f.given])

PostconditionsHold ==
    LET f == Top
    IN  /\ Running /\ Idle(f) /\ PastClauses(f) /\ f.phase = "post"
        /\ Become([f EXCEPT !.phase = "return", !.at = 1])

-----------------------------------------------------------------------------
(***************************************************************************)
(* Expressions.                                                            *)
(***************************************************************************)
Evaluating(kinds) == Running /\ Top.focus # NoNode /\ Node[Top.focus].kind \in kinds

EvalLiteral == Evaluating({"literal"}) /\ Become(Give(Top, Node[Top.focus].value))

EvalRefusal == Evaluating({"refusal"}) /\ Become(Give(Top, Bottom))

EvalReference ==
    LET v == Top.locals[Node[Top.focus].name]
    IN  /\ Evaluating({"reference"}) /\ v # Unbound
        /\ Become(Give(Top, v))

ReferenceUnbound ==
    /\ Evaluating({"reference"}) /\ Top.locals[Node[Top.focus].name] = Unbound
    /\ Raise("CodifideError")

\* The effect of a primitive call, if n is one.
EffectsOf(n) ==
    IF Node[n].kind = "call" /\ IsPrimitive(Node[n].name)
    THEN {Primitives[Node[n].name]} \ {NoEffect}
    ELSE {}

Callable(n) == IsDefinition(Node[n].name) \/ IsPrimitive(Node[n].name)

\* An expression with parts is begun; a primitive first has to be allowed.
Begin ==
    LET f == Top
        n == f.focus
    IN  /\ Evaluating(InnerKinds)
        /\ Node[n].kind = "call" => Callable(n)
        /\ EffectsOf(n) \subseteq Budget(f)
        /\ Become([f EXCEPT
              !.focus = NoNode,
              !.work = <<[node |-> n, done |-> <<>>, outer |-> f.locals]>> \o @])

CallableUnknown ==
    /\ Evaluating({"call"}) /\ ~Callable(Top.focus)
    /\ Raise("CodifideError")

EffectRefused ==
    /\ Evaluating({"call"}) /\ ~(EffectsOf(Top.focus) \subseteq Budget(Top))
    /\ Raise("EffectViolation")

\* The body of a binding sees the value of its expression.
EvalPart ==
    LET f == Top
        w == Head(f.work)
    IN  /\ Running /\ f.focus = NoNode /\ f.work # <<>> /\ NextPart(w) # NoNode
        /\ Become([f EXCEPT
              !.focus = NextPart(w),
              !.locals = IF Node[w.node].kind = "binding" /\ Len(w.done) = 1
                         THEN [f.locals EXCEPT ![Node[w.node].name] = w.done[1]]
                         ELSE f.locals])

Finishing(kinds) == Running /\ Ready(Top) /\ Inner(Top).kind \in kinds

Done(f) == Head(f.work).done

\* The value of the last part that was evaluated.
FinishLast ==
    /\ Finishing({"sequence", "conditional", "binding"})
    /\ Become(Finish(Top, Done(Top)[Len(Done(Top))]))

\* A string made of the values, of refusals too; or the value of a field.
FinishWithData ==
    /\ Finishing({"concat", "field"})
    /\ \E v \in Scalars : Become(Finish(Top, v))

FieldMissing ==
    /\ Finishing({"field"})
    /\ Raise("CodifideError")

-----------------------------------------------------------------------------
(***************************************************************************)
(* Calls.                                                                  *)
(***************************************************************************)
FinishingPrimitive  == Finishing({"call"}) /\ IsPrimitive(Inner(Top).name)
FinishingDefinition == Finishing({"call"}) /\ IsDefinition(Inner(Top).name)

Refused(vs) == \E i \in 1..Len(vs) : vs[i] = Bottom

\* A payload that is a refusal stays boxed in what a primitive returns.
PrimitiveResults(vs) == Scalars \union ({vs[i] : i \in 1..Len(vs)} \intersect {Boxed})

FinishPrimitive ==
    /\ FinishingPrimitive /\ Inner(Top).name # "is_bottom" /\ ~Refused(Done(Top))
    /\ \E v \in PrimitiveResults(Done(Top)) : Become(Finish(Top, v))

\* The one primitive that may look at a refusal; it does not look into boxes.
FinishIsBottom ==
    /\ FinishingPrimitive /\ Inner(Top).name = "is_bottom" /\ Len(Done(Top)) = 1
    /\ \E v \in Scalars :
          /\ Truthy(v) <=> Refused(Done(Top))
          /\ Become(Finish(Top, v))

BottomReachesPrimitive ==
    /\ FinishingPrimitive /\ Inner(Top).name # "is_bottom" /\ Refused(Done(Top))
    /\ Raise("BottomPropagationError")

PrimitiveFails ==
    /\ FinishingPrimitive
    /\ Inner(Top).name = "is_bottom" => Len(Done(Top)) # 1
    /\ Refused(Done(Top)) => Inner(Top).name = "is_bottom"
    /\ Raise("PrimitiveError")

Callee == Lookup(Inner(Top).name)

Pure(d) == declared[d] = {}

\* A refusal has the same key in a box and out of it.
Key(d, vs) ==
    <<NameOf[d], [i \in 1..Len(vs) |-> IF vs[i] \in Scalars THEN KeyOf[vs[i]] ELSE Bottom]>>

Memoized(d, vs) == Pure(d) /\ Key(d, vs) \in DOMAIN memo

\* A pure call that was made before is answered from the memo.
AnswerFromMemo ==
    LET vs == Done(Top)
    IN  /\ FinishingDefinition /\ Memoized(Callee, vs)
        /\ Become(Finish(Top, memo[Key(Callee, vs)]))

Call ==
    /\ FinishingDefinition /\ ~Memoized(Callee, Done(Top)) /\ depth < MaxDepth
    /\ Push(Callee, Done(Top), stack)
    /\ UNCHANGED <<declared, loaded, memo, raised, outcome, computed>>

RecursionLimit ==
    /\ FinishingDefinition /\ ~Memoized(Callee, Done(Top)) /\ depth >= MaxDepth
    /\ Raise("RecursionLimitError")

ResultFits(f) == f.result = Bottom \/ f.result \in ReturnType[f.defn]

\* A nested call gives its result to its caller.
Return ==
    LET f == Top
        rest == Tail(stack)
    IN  /\ Running /\ f.phase = "return" /\ ResultFits(f) /\ rest # <<>>
        /\ Pop(<<Finish(Head(rest), f.result)>> \o Tail(rest))
        /\ memo' = IF Pure(f.defn)
                   THEN [k \in DOMAIN memo \union {Key(f.defn, f.args)} |->
                            IF k = Key(f.defn, f.args) THEN f.result ELSE memo[k]]
                   ELSE memo
        /\ computed' = computed \union {<<f.defn, f.args, f.result>>}
        /\ UNCHANGED <<declared, loaded, raised, outcome>>

\* A refusal nobody handles is an error of main, and of calls without arguments.
Unhandled(f) == f.result = Bottom /\ (NameOf[f.defn] = "main" \/ f.args = <<>>)

\* The host gets what is in the Value.
ReturnToHost ==
    LET f == Top
    IN  /\ Running /\ f.phase = "return" /\ ResultFits(f) /\ Tail(stack) = <<>> /\ ~Unhandled(f)
        /\ Pop(<<>>)
        /\ outcome' = IF f.result = Boxed THEN Bottom ELSE f.result
        /\ UNCHANGED <<declared, loaded, memo, raised, computed>>

RefusalUnhandled ==
    /\ Running /\ Top.phase = "return" /\ Tail(stack) = <<>> /\ Unhandled(Top)
    /\ Raise("RefusalError")

ResultRefused ==
    /\ Running /\ Top.phase = "return" /\ ~ResultFits(Top)
    /\ Raise("TypeViolation")

\* An error leaves one call after the other.
Unwind ==
    /\ raised # NoError /\ stack # <<>>
    /\ Pop(Tail(stack))
    /\ IF Tail(stack) = <<>>
       THEN raised' = NoError /\ outcome' = raised
       ELSE UNCHANGED <<raised, outcome>>
    /\ UNCHANGED <<declared, loaded, memo, computed>>

-----------------------------------------------------------------------------
Init ==
    /\ declared \in Declarations
    /\ loaded = FALSE
    /\ stack = <<>> /\ depth = 0 /\ chain = <<>>
    /\ memo = <<>> /\ computed = {}
    /\ raised = NoError /\ outcome = NoError

Clausewise ==
    \/ BindParameters \/ ArgumentRefused
    \/ BeginClause \/ ClauseHolds \/ ClauseFails \/ GuardFails \/ NoGuard
    \/ PreconditionsHold \/ Dispatch \/ DispatchFails \/ BodyEnds \/ PostconditionsHold

Evaluation ==
    \/ EvalLiteral \/ EvalRefusal \/ EvalReference \/ ReferenceUnbound
    \/ Begin \/ CallableUnknown \/ EffectRefused \/ EvalPart
    \/ FinishLast \/ FinishWithData \/ FieldMissing

Calling ==
    \/ FinishPrimitive \/ FinishIsBottom \/ BottomReachesPrimitive \/ PrimitiveFails
    \/ AnswerFromMemo \/ Call \/ RecursionLimit

Leaving == Return \/ ReturnToHost \/ RefusalUnhandled \/ ResultRefused \/ Unwind

Step == Clausewise \/ Evaluation \/ Calling \/ Leaving

Host ==
    \/ Load \/ LoadRefused
    \/ \E name \in Names :
          \/ \E vs \in ArgLists : Invoke(name, vs)
          \/ NoSuchDefinition(name)

Next == Step \/ Host

Spec == Init /\ [][Next]_vars

\* The interpreter is one Python thread that runs until it returns.
FairSpec == Spec /\ WF_vars(Step)

-----------------------------------------------------------------------------
(***************************************************************************)
(* Properties.                                                             *)
(***************************************************************************)
Keys == Names \X Seq({KeyOf[x] : x \in Scalars} \union {Bottom})

\* Types; the memo maps keys to values.
TypeOK ==
    /\ declared \in Declarations /\ loaded \in BOOLEAN
    /\ stack \in Seq(Frames) /\ depth \in Nat /\ chain \in Seq(Names)
    /\ DOMAIN memo \subseteq Keys /\ \A k \in DOMAIN memo : memo[k] \in Values
    /\ raised \in Errors \union {NoError}
    /\ outcome \in Values \union Errors \union {NoError}
    /\ computed \subseteq Definitions \X Seq(Values) \X Values

\* Whatever a call ends with, a result, a refusal or an error at any place of any
\* frame, _depth and _intent_chain are those of the calls still open: the limit
\* (interpreter.py:426) does not drift, and the chain in an error names them.
StackDiscipline ==
    /\ depth = Len(stack) /\ depth <= MaxDepth
    /\ Len(chain) = Len(stack)
    /\ \A i \in 1..Len(stack) : chain[i] = NameOf[stack[i].defn]

\* Effect e is about to happen: a primitive that has it is called next.
AboutToPerform(e) ==
    /\ Running /\ Ready(Top)
    /\ e \in EffectsOf(Head(Top.work).node)

\* Imported definitions, too, declare the effects of what their calls resolve to.
ImportsDeclare ==
    \A d \in Imported : \A c \in Callees(d) : declared[c] \subseteq declared[d]

EffectsCoveredAlways ==
    \A e \in Effects : AboutToPerform(e) =>
        \A i \in 1..Len(stack) : e \in declared[stack[i].defn]

\* The check of direct calls before a module runs (interpreter.py:120) is enough for
\* chains of calls: an effect that happens is declared by every definition on the
\* stack, the host's entry included, if imports declare what they call.
EffectsCovered == ImportsDeclare => EffectsCoveredAlways

\* Contracts are pure: no effect happens while a clause or guard is evaluated, in
\* this frame or in one below (docs/CANONICAL.md:363-369).
ContractsPure ==
    \A e \in Effects : AboutToPerform(e) =>
        \A i \in 1..Len(stack) : stack[i].phase \notin ClausePhases

\* An answer of the memo is the result of a call of the same definition with the
\* same arguments earlier in the same invocation.  (A refusal and a refusal in a
\* box are one argument: a call boxes it.)
AnswersAreComputed ==
    Running /\ Ready(Top) /\ Inner(Top).kind = "call" /\ IsDefinition(Inner(Top).name) =>
        LET vs == Done(Top)
        IN  Memoized(Callee, vs) =>
                \E c \in computed :
                    /\ c[1] = Callee /\ c[3] = memo[Key(Callee, vs)]
                    /\ Len(c[2]) = Len(vs)
                    /\ \A i \in 1..Len(vs) :
                          c[2][i] = vs[i] \/ {c[2][i], vs[i]} = {Bottom, Boxed}

KeysDistinguish ==
    /\ \A x, y \in Scalars : KeyOf[x] = KeyOf[y] => x = y
    /\ \A x \in Scalars : KeyOf[x] # Bottom
    /\ \A d, e \in Definitions : NameOf[d] = NameOf[e] => d = e

\* The memo changes no result (interpreter.py:334-341) as long as its keys tell
\* arguments and definitions apart.
MemoFaithful == KeysDistinguish => AnswersAreComputed

\* What a frame promises, through all the calls its clauses made: the body that runs
\* is of a candidate whose guard held, after every precondition held and every
\* cheaper guard failed; a result that is no refusal met every postcondition.
CallKeepsContract(f) ==
    LET c == Candidates[f.defn]
    IN  /\ f.phase = "body" =>
              /\ \A i \in 1..Len(Pre[f.defn]) : Pre[f.defn][i] \in f.held
              /\ c[f.at].guard \in f.held \union {NoNode}
              /\ \A j \in 1..Len(c) : Cheaper(f.defn, j, f.at) => c[j].guard \in f.failed
        /\ f.phase = "return" /\ f.result # Bottom =>
              \A i \in 1..Len(Post[f.defn]) : Post[f.defn][i] \in f.held

ContractsKept == \A i \in 1..Len(stack) : CallKeepsContract(stack[i])

\* Between clauses a frame knows its parameters and the result, and no name that
\* was bound inside an expression (interpreter.py:519-522, 548-556).
BindingsScoped ==
    \A i \in 1..Len(stack) :
        LET f == stack[i]
            known == {Params[f.defn][j] : j \in 1..Len(Params[f.defn])} \union {"result"}
        IN  f.focus = NoNode /\ f.work = <<>> => \A x \in Names \ known : f.locals[x] = Unbound

\* Every invocation ends, recursion included.
InvocationsEnd == stack # <<>> ~> stack = <<>>
=============================================================================
