--------------------------- MODULE TreeWalkProofs ---------------------------
(***************************************************************************)
(* The tree walker of ParallelEvaluator as a function: an interpreter has  *)
(* one next step, and every step of a task but a spawn and a join is that  *)
(* step.  The function keeps the shape of stacks, frames and traces.       *)
(***************************************************************************)
EXTENDS ParallelProofs

(***************************************************************************)
(* Evaluation in parallel is evaluation from left to right, for any        *)
(* program and any order in which the branches run.                        *)
(*                                                                         *)
(* The tree walker is a function of the interpreter: it has one next step. *)
(* What a task does is a walk of that function; and when a task joins its  *)
(* branches, their walks, one after the other and put on top of the frame  *)
(* that waits for them, are the walk it would have made itself.            *)
(***************************************************************************)

-----------------------------------------------------------------------------
(***************************************************************************)
(* The next step of the tree walker, as a function.                        *)
(***************************************************************************)
GoesOn(f)         == [does |-> "goes on", frame |-> f, what |-> NoValue, effects |-> {}]
Performs(f, v, e) == [does |-> "performs", frame |-> f, what |-> v, effects |-> e]
Invokes(f)        == [does |-> "invokes", frame |-> f, what |-> NoValue, effects |-> {}]
Fails(f, e)       == [does |-> "fails", frame |-> f, what |-> e, effects |-> {}]
Ends(f, v)        == [does |-> "ends", frame |-> f, what |-> v, effects |-> {}]
Returns(f)        == [does |-> "returns", frame |-> f, what |-> f.result, effects |-> {}]
Waits(f)          == [does |-> "waits", frame |-> f, what |-> NoValue, effects |-> {}]

LeafValue(f) ==
    LET n == Node[f.focus]
    IN  CASE n.kind = "literal"   -> n.value
          [] n.kind = "refusal"   -> Bottom
          [] n.kind = "reference" -> f.locals[n.name]

WithBegun(f) ==
    [f EXCEPT !.focus = NoNode, !.work = <<[node |-> f.focus, done |-> <<>>, outer |-> f.locals]>> \o @]

WithPart(f) ==
    LET w == Head(f.work)
    IN  [f EXCEPT !.focus = NextPart(w),
                  !.locals = IF Node[w.node].kind = "binding" /\ Len(w.done) = 1
                             THEN [f.locals EXCEPT ![Node[w.node].name] = w.done[1]]
                             ELSE f.locals]

\* An expression to evaluate.
MoveInto(f) ==
    IF Node[f.focus].kind \in LeafKinds
    THEN IF LeafValue(f) = Unbound THEN Fails(f, "General") ELSE GoesOn(Give(f, LeafValue(f)))
    ELSE IF Node[f.focus].kind = "call" /\ ~Callable(f.focus) THEN Fails(f, "General")
    ELSE IF ~(EffectsOf(f.focus) \subseteq Allowed(f)) THEN Fails(f, "Effect")
    ELSE GoesOn(WithBegun(f))

\* An expression whose parts are done.
MoveOutOf(f, depth) ==
    LET w == Head(f.work)
        n == Node[w.node]
    IN  IF n.kind \in {"sequence", "conditional", "binding"}
        THEN GoesOn(Finish(f, w.done[Len(w.done)]))
        ELSE IF n.kind = "concat" THEN GoesOn(Finish(f, Text(w.done)))
        ELSE IF n.kind = "field" THEN Fails(f, "General")
        ELSE IF IsPrimitive(n.name)
        THEN IF Refused(w.done) /\ n.name # "is_bottom" THEN Fails(f, "BottomPropagation")
             ELSE IF n.name \in Failing THEN Fails(f, "Primitive")
             ELSE Performs(Finish(f, Result(n.name, w.done)), Result(n.name, w.done), EffectsOf(w.node))
        ELSE IF n.kind # "call" \/ ~IsDefinition(n.name) THEN Waits(f)
        ELSE IF depth < MaxDepth THEN Invokes(NewFrame(Lookup(n.name), w.done))
        ELSE Fails(f, "RecursionLimit")

\* A clause, a body or a part that is done.
MoveAfter(f) ==
    IF InClauses(f)
    THEN IF Truthy(f.given) \/ f.phase = "guard"
         THEN GoesOn([f EXCEPT
                 !.given = NoValue, !.at = NextClause(f),
                 !.satisfied = IF f.phase = "guard" /\ Truthy(f.given) THEN @ \union {f.at} ELSE @])
         ELSE Fails(f, "Contract")
    ELSE IF f.phase = "body"
    THEN GoesOn([f EXCEPT
            !.phase = IF f.given = Bottom THEN "return" ELSE "post",
            !.at = 1, !.given = NoValue, !.result = f.given])
    ELSE IF f.phase = "branch" THEN Ends(f, f.given)
    ELSE Waits(f)

\* Nothing at work: the next clause, the choice of a candidate, the return.
MoveOn(f) ==
    IF InClauses(f)
    THEN IF Clause(f) = NoNode
         THEN GoesOn([f EXCEPT !.at = NextClause(f), !.satisfied = @ \union {f.at}])
         ELSE GoesOn([f EXCEPT
                 !.focus = Clause(f),
                 !.locals = IF f.phase = "post" THEN [f.locals EXCEPT !["result"] = f.result]
                                                ELSE f.locals])
    ELSE IF PastClauses(f)
    THEN IF f.phase # "guard"
         THEN GoesOn([f EXCEPT !.phase = IF f.phase = "pre" THEN "guard" ELSE "return", !.at = 1])
         ELSE IF f.satisfied = {} THEN Fails(f, "Dispatch")
         ELSE GoesOn([f EXCEPT
                 !.phase = "body", !.at = Cheapest(f.defn, f.satisfied),
                 !.focus = Candidates[f.defn][Cheapest(f.defn, f.satisfied)].body])
    ELSE IF f.phase = "return" THEN Returns(f)
    ELSE Waits(f)

Move(f, depth) ==
    IF f.focus # NoNode THEN MoveInto(f)
    ELSE IF f.work # <<>>
    THEN IF NextPart(Head(f.work)) # NoNode THEN GoesOn(WithPart(f)) ELSE MoveOutOf(f, depth)
    ELSE IF f.given # NoValue THEN MoveAfter(f)
    ELSE MoveOn(f)

\* The depth of an interpreter that has ended does not matter any more.
Stopped(interp, outcome) ==
    [interp EXCEPT !.stack = <<>>, !.depth = 0, !.outcome = outcome]

Moved(interp, m) ==
    LET rest == Tail(interp.stack)
    IN  IF m.does = "goes on" THEN [interp EXCEPT !.stack = <<m.frame>> \o rest]
        ELSE IF m.does = "performs"
        THEN [interp EXCEPT
                 !.stack = <<m.frame>> \o rest,
                 !.trace = [x \in Effects |-> IF x \in m.effects THEN Append(@[x], m.what) ELSE @[x]]]
        ELSE IF m.does = "invokes" THEN [interp EXCEPT !.stack = <<m.frame>> \o @, !.depth = @ + 1]
        ELSE IF m.does = "fails" THEN Stopped(interp, Err(m.what))
        ELSE IF m.does = "ends" THEN Stopped(interp, Ok(m.what))
        ELSE IF m.does = "waits" THEN interp
        ELSE IF rest = <<>>
        THEN Stopped(interp, IF m.what = Bottom THEN Err("Refusal") ELSE Ok(m.what))
        ELSE [interp EXCEPT !.stack = <<Finish(Head(rest), m.what)>> \o Tail(rest), !.depth = @ - 1]

TreeWalk(interp) ==
    IF interp.outcome # NoOutcome THEN interp
    ELSE Moved(interp, Move(Head(interp.stack), interp.depth))

Seen(interp) == IF interp.outcome = NoOutcome THEN interp ELSE [interp EXCEPT !.depth = 0]

\* A frame that is about to return has nothing at work.
FrameSane(f) == f.phase = "return" => f.focus = NoNode /\ f.work = <<>> /\ f.given = NoValue

-----------------------------------------------------------------------------
(***************************************************************************)
(* Every step of a task but a spawn and a join is the step of the tree     *)
(* walker.                                                                 *)
(***************************************************************************)
WalkStep(t) == Seen(task'[t]) = TreeWalk(task[t]) /\ task' = [task EXCEPT ![t] = task'[t]]

\* What a task becomes, when it becomes what Move says.
LEMMA MoveIsStep ==
    ASSUME Inv, NEW t \in Tasks, Active(t), NEW m, m = Move(Top(t), task[t].depth),
           NEW interp, Seen(interp) = Moved(task[t], m), Update(t, interp)
    PROVE  WalkStep(t)
<1>1. task' = [task EXCEPT ![t] = interp] /\ task'[t] = interp
  BY DEF Update, Tasks
<1>2. task[t].outcome = NoOutcome
  BY DEF Active, Ended
<1>3. TreeWalk(task[t]) = Moved(task[t], m)
  BY <1>2 DEF TreeWalk, Top
<1>4. QED
  BY <1>1, <1>3 DEF WalkStep

\* A step that only changes the frame on top.
LEMMA BecomeIsStep ==
    ASSUME Inv, NEW t \in Tasks, Active(t), NEW g, Become(t, g),
           Move(Top(t), task[t].depth) = GoesOn(g)
    PROVE  WalkStep(t)
<1> DEFINE m == Move(Top(t), task[t].depth)
           interp == [task[t] EXCEPT !.stack = <<g>> \o Tail(@)]
<1>1. Update(t, interp)
  BY DEF Become
<1>2. DOMAIN task[t] = {"stack", "depth", "trace", "outcome"} /\ task[t].outcome = NoOutcome
  BY ActiveOK DEF InterpOK, Ended
<1>3. m.does = "goes on" /\ m.frame = g
  <2>1. m = GoesOn(g)
    OBVIOUS
  <2> HIDE DEF m
  <2>2. QED
    BY <2>1 DEF GoesOn
<1> HIDE DEF m
<1>4. interp.outcome = NoOutcome
  BY <1>2
<1>5. Moved(task[t], m) = interp
  BY <1>3 DEF Moved
<1> HIDE DEF interp
<1>6. QED
  BY <1>1, <1>4, <1>5, MoveIsStep DEF Seen, m

\* A step that raises an error.
LEMMA RaiseIsStep ==
    ASSUME Inv, NEW t \in Tasks, Active(t), NEW e, Raise(t, e),
           Move(Top(t), task[t].depth) = Fails(Top(t), e)
    PROVE  WalkStep(t)
<1> DEFINE m == Move(Top(t), task[t].depth)
           interp == [task[t] EXCEPT !.stack = <<>>, !.outcome = Err(e), !.depth = @ - Calls(task[t].stack)]
<1>1. Update(t, interp)
  BY DEF Raise
<1>2. DOMAIN task[t] = {"stack", "depth", "trace", "outcome"} /\ task[t].outcome = NoOutcome
  BY ActiveOK DEF InterpOK, Ended
<1>3. m.does = "fails" /\ m.what = e
  BY DEF Fails
<1> HIDE DEF m
<1>4. interp.outcome # NoOutcome
  BY <1>2 DEF Err, NoOutcome
<1>5. Moved(task[t], m) = [task[t] EXCEPT !.stack = <<>>, !.depth = 0, !.outcome = Err(e)]
  BY <1>3 DEF Moved, Stopped
<1>6. [interp EXCEPT !.depth = 0] = [task[t] EXCEPT !.stack = <<>>, !.depth = 0, !.outcome = Err(e)]
  BY <1>2
<1> HIDE DEF interp
<1>7. QED
  BY <1>1, <1>4, <1>5, <1>6, MoveIsStep DEF Seen, m

\* The contract of a definition: its clauses, its guards, its dispatch.
LEMMA ClauseSteps ==
    ASSUME Inv, NEW t \in Tasks, FrameSane(Top(t)),
           \/ BeginClause(t) \/ NoGuard(t) \/ ClauseDecided(t) \/ ClauseFails(t)
           \/ ClausesPassed(t) \/ Dispatch(t) \/ DispatchFails(t) \/ BodyEnds(t)
    PROVE  WalkStep(t)
<1> DEFINE f == Top(t)
<1>1. CASE BeginClause(t) \/ NoGuard(t) \/ ClausesPassed(t) \/ Dispatch(t)
  <2>1. Active(t) /\ Idle(f)
    BY <1>1 DEF BeginClause, NoGuard, ClausesPassed, Dispatch
  <2>2. Move(f, task[t].depth) = MoveOn(f)
    BY <2>1 DEF Move, Idle
  <2>3. PastClauses(f) => ~InClauses(f)
    <3>1. CASE f.phase \in ClausePhases
      BY <2>1, ActiveOK, DefinitionAssumption, NameAssumption
      DEF PastClauses, InClauses, ClauseCount, ClausePhases, FrameOK, Local, Imported
    <3>2. QED
      BY <3>1 DEF PastClauses
  <2>4. CASE BeginClause(t)
    BY <2>1, <2>2, <2>4, BecomeIsStep DEF BeginClause, MoveOn
  <2>5. CASE NoGuard(t)
    BY <2>1, <2>2, <2>5, BecomeIsStep DEF NoGuard, MoveOn
  <2>6. CASE ClausesPassed(t)
    BY <2>1, <2>2, <2>3, <2>6, BecomeIsStep DEF ClausesPassed, MoveOn
  <2>7. CASE Dispatch(t)
    BY <2>1, <2>2, <2>3, <2>7, BecomeIsStep DEF Dispatch, MoveOn
  <2>8. QED
    BY <1>1, <2>4, <2>5, <2>6, <2>7
<1>2. CASE DispatchFails(t)
  <2>1. Active(t) /\ Idle(f) /\ PastClauses(f) /\ f.phase = "guard" /\ f.satisfied = {}
    BY <1>2 DEF DispatchFails
  <2>2. ~InClauses(f)
    BY <2>1, ActiveOK, DefinitionAssumption, NameAssumption
    DEF PastClauses, InClauses, ClauseCount, ClausePhases, FrameOK, Local, Imported
  <2>3. Move(f, task[t].depth) = Fails(f, "Dispatch")
    BY <2>1, <2>2 DEF Move, Idle, MoveOn
  <2>4. QED
    BY <1>2, <2>1, <2>3, RaiseIsStep DEF DispatchFails
<1>3. CASE ClauseDecided(t) \/ BodyEnds(t)
  <2>1. Active(t) /\ Settled(f)
    BY <1>3 DEF ClauseDecided, BodyEnds
  <2>2. Move(f, task[t].depth) = MoveAfter(f)
    BY <2>1 DEF Move, Settled
  <2>3. CASE ClauseDecided(t)
    BY <2>1, <2>2, <2>3, BecomeIsStep DEF ClauseDecided, MoveAfter
  <2>4. CASE BodyEnds(t)
    BY <2>1, <2>2, <2>4, BecomeIsStep DEF BodyEnds, MoveAfter, InClauses, ClausePhases
  <2>5. QED
    BY <1>3, <2>3, <2>4
<1>4. CASE ClauseFails(t)
  BY <1>4, RaiseIsStep DEF ClauseFails, MoveAfter, Move, Settled
<1>5. QED
  BY <1>1, <1>2, <1>3, <1>4

\* Expressions on their way down.
LEMMA ExpressionSteps ==
    ASSUME Inv, NEW t \in Tasks,
           \/ EvalLeaf(t) \/ Begin(t) \/ CallRefused(t) \/ EvalPart(t)
    PROVE  WalkStep(t)
<1> DEFINE f == Top(t)
<1>1. Active(t)
  BY DEF EvalLeaf, Begin, CallRefused, EvalPart, Evaluating
<1>2. CASE EvalLeaf(t)
  <2>1. f.focus # NoNode /\ Node[f.focus].kind \in LeafKinds
    BY <1>2 DEF EvalLeaf, Evaluating
  <2>2. IF LeafValue(f) = Unbound THEN Raise(t, "General") ELSE Become(t, Give(f, LeafValue(f)))
    BY <1>2 DEF EvalLeaf, LeafValue
  <2>3. Move(f, task[t].depth) =
           IF LeafValue(f) = Unbound THEN Fails(f, "General") ELSE GoesOn(Give(f, LeafValue(f)))
    BY <2>1 DEF Move, MoveInto
  <2>4. CASE LeafValue(f) = Unbound
    BY <1>1, <2>2, <2>3, <2>4, RaiseIsStep
  <2>5. CASE LeafValue(f) # Unbound
    BY <1>1, <2>2, <2>3, <2>5, BecomeIsStep
  <2>6. QED
    BY <2>4, <2>5
<1>3. CASE Begin(t)
  <2>1. /\ f.focus # NoNode /\ Node[f.focus].kind \notin LeafKinds
        /\ Node[f.focus].kind = "call" => Callable(f.focus)
        /\ EffectsOf(f.focus) \subseteq Allowed(f)
    BY <1>3 DEF Begin, Evaluating, LeafKinds, InnerKinds
  <2>2. Become(t, WithBegun(f))
    BY <1>3 DEF Begin, WithBegun
  <2>3. Move(f, task[t].depth) = GoesOn(WithBegun(f))
    BY <2>1 DEF Move, MoveInto
  <2>4. QED
    BY <1>1, <2>2, <2>3, BecomeIsStep
<1>4. CASE CallRefused(t)
  <2>1. f.focus # NoNode /\ Node[f.focus].kind = "call" /\ Node[f.focus].kind \notin LeafKinds
    BY <1>4 DEF CallRefused, Evaluating, LeafKinds
  <2>2. \/ ~Callable(f.focus) /\ Raise(t, "General")
        \/ ~(EffectsOf(f.focus) \subseteq Allowed(f)) /\ Raise(t, "Effect")
    BY <1>4 DEF CallRefused
  <2>3. EffectsOf(f.focus) # {} => Callable(f.focus)
    BY DEF EffectsOf, Callable
  <2>4. CASE ~Callable(f.focus) /\ Raise(t, "General")
    <3>1. Move(f, task[t].depth) = Fails(f, "General")
      BY <2>1, <2>4 DEF Move, MoveInto
    <3>2. QED
      BY <1>1, <2>4, <3>1, RaiseIsStep
  <2>5. CASE ~(EffectsOf(f.focus) \subseteq Allowed(f)) /\ Raise(t, "Effect")
    <3>1. Move(f, task[t].depth) = Fails(f, "Effect")
      BY <2>1, <2>3, <2>5 DEF Move, MoveInto
    <3>2. QED
      BY <1>1, <2>5, <3>1, RaiseIsStep
  <2>6. QED
    BY <2>2, <2>4, <2>5
<1>5. CASE EvalPart(t)
  <2>1. f.focus = NoNode /\ f.work # <<>> /\ NextPart(Head(f.work)) # NoNode
    BY <1>5 DEF EvalPart
  <2>2. Become(t, WithPart(f))
    BY <1>5 DEF EvalPart, WithPart
  <2>3. Move(f, task[t].depth) = GoesOn(WithPart(f))
    BY <2>1 DEF Move
  <2>4. QED
    BY <1>1, <2>2, <2>3, BecomeIsStep
<1>6. QED
  BY <1>2, <1>3, <1>4, <1>5

\* Expressions on their way up, but for the calls.
LEMMA FinishSteps ==
    ASSUME Inv, NEW t \in Tasks,
           FinishLast(t) \/ FinishConcat(t) \/ FieldMissing(t) \/ PrimitiveRaises(t) \/ RecursionLimit(t)
    PROVE  WalkStep(t)
<1> DEFINE f == Top(t)
           w == Head(f.work)
           n == Node[w.node]
<1>1. Active(t) /\ Ready(t)
  BY DEF FinishLast, FinishConcat, FieldMissing, PrimitiveRaises, RecursionLimit,
         FinishingPrimitive, Finishing
<1>2. f.focus = NoNode /\ f.work # <<>> /\ NextPart(w) = NoNode
  BY <1>1 DEF Ready
<1>3. Move(f, task[t].depth) = MoveOutOf(f, task[t].depth)
  BY <1>2 DEF Move
<1>4. Inner(t) = n /\ Done(t) = w.done
  BY DEF Inner, Done
<1>5. CASE FinishLast(t)
  <2>1. Become(t, Finish(f, w.done[Len(w.done)])) /\ n.kind \in {"sequence", "conditional", "binding"}
    BY <1>4, <1>5 DEF FinishLast, Finishing
  <2>2. Move(f, task[t].depth) = GoesOn(Finish(f, w.done[Len(w.done)]))
    BY <1>3, <2>1 DEF MoveOutOf
  <2>3. QED
    BY <1>1, <2>1, <2>2, BecomeIsStep
<1>6. CASE FinishConcat(t)
  <2>1. Become(t, Finish(f, Text(w.done))) /\ n.kind = "concat"
    BY <1>4, <1>6 DEF FinishConcat, Finishing
  <2>2. Move(f, task[t].depth) = GoesOn(Finish(f, Text(w.done)))
    BY <1>3, <2>1 DEF MoveOutOf
  <2>3. QED
    BY <1>1, <2>1, <2>2, BecomeIsStep
<1>7. CASE FieldMissing(t)
  <2>1. Raise(t, "General") /\ n.kind = "field"
    BY <1>4, <1>7 DEF FieldMissing, Finishing
  <2>2. Move(f, task[t].depth) = Fails(f, "General")
    BY <1>3, <2>1 DEF MoveOutOf
  <2>3. QED
    BY <1>1, <2>1, <2>2, RaiseIsStep
<1>8. CASE PrimitiveRaises(t)
  <2>1. n.kind = "call" /\ IsPrimitive(n.name)
    BY <1>4, <1>8 DEF PrimitiveRaises, FinishingPrimitive, Finishing
  <2>2. IF Refused(w.done) /\ n.name # "is_bottom"
        THEN Raise(t, "BottomPropagation") ELSE n.name \in Failing /\ Raise(t, "Primitive")
    BY <1>4, <1>8 DEF PrimitiveRaises
  <2>3. CASE Refused(w.done) /\ n.name # "is_bottom"
    <3>1. Move(f, task[t].depth) = Fails(f, "BottomPropagation")
      BY <1>3, <2>1, <2>3 DEF MoveOutOf
    <3>2. QED
      BY <1>1, <2>2, <2>3, <3>1, RaiseIsStep
  <2>4. CASE ~(Refused(w.done) /\ n.name # "is_bottom")
    <3>1. Move(f, task[t].depth) = Fails(f, "Primitive")
      BY <1>3, <2>1, <2>2, <2>4 DEF MoveOutOf
    <3>2. QED
      BY <1>1, <2>2, <2>4, <3>1, RaiseIsStep
  <2>5. QED
    BY <2>3, <2>4
<1>9. CASE RecursionLimit(t)
  <2>1. n.kind = "call" /\ IsDefinition(n.name) /\ ~(task[t].depth < MaxDepth) /\ Raise(t, "RecursionLimit")
    BY <1>4, <1>9 DEF RecursionLimit, Finishing, HasRoom
  <2>2. Move(f, task[t].depth) = Fails(f, "RecursionLimit")
    BY <1>3, <2>1 DEF MoveOutOf, IsPrimitive
  <2>3. QED
    BY <1>1, <2>1, <2>2, RaiseIsStep
<1>10. QED
  BY <1>5, <1>6, <1>7, <1>8, <1>9

\* The calls.
LEMMA CallSteps ==
    ASSUME Inv, NEW t \in Tasks, CallPrimitive(t) \/ CallDefinition(t)
    PROVE  WalkStep(t)
<1> DEFINE f == Top(t)
           w == Head(f.work)
           n == Node[w.node]
           m == Move(f, task[t].depth)
<1>1. Active(t) /\ Ready(t) /\ n.kind = "call"
  BY DEF CallPrimitive, CallDefinition, FinishingPrimitive, Finishing, Inner
<1>2. f.focus = NoNode /\ f.work # <<>> /\ NextPart(w) = NoNode
  BY <1>1 DEF Ready
<1>3. m = MoveOutOf(f, task[t].depth)
  BY <1>2 DEF Move
<1>4. Inner(t) = n /\ Done(t) = w.done
  BY DEF Inner, Done
<1>5. DOMAIN task[t] = {"stack", "depth", "trace", "outcome"} /\ task[t].outcome = NoOutcome
  BY <1>1, ActiveOK DEF InterpOK, Ended
<1>6. CASE CallPrimitive(t)
  <2> DEFINE v == Result(n.name, w.done)
             e == EffectsOf(w.node)
             g == Finish(f, v)
             tr == [x \in Effects |-> IF x \in e THEN Append(task[t].trace[x], v) ELSE task[t].trace[x]]
             interp == [task[t] EXCEPT !.stack = <<g>> \o Tail(task[t].stack), !.trace = tr]
  <2>1. Update(t, interp) /\ IsPrimitive(n.name) /\ n.name \notin Failing /\ (Refused(w.done) => n.name = "is_bottom")
    BY <1>4, <1>6 DEF CallPrimitive, FinishingPrimitive
  <2>2. m = Performs(g, v, e)
    BY <1>1, <1>3, <2>1 DEF MoveOutOf
  <2> HIDE DEF m
  <2>3. m.does = "performs" /\ m.frame = g /\ m.what = v /\ m.effects = e
    BY <2>2 DEF Performs
  <2>4. interp.outcome = NoOutcome
    BY <1>5
  <2> HIDE DEF g, v, e
  <2>5. Moved(task[t], m) = interp
    BY <2>3 DEF Moved
  <2> HIDE DEF interp
  <2>6. QED
    BY <1>1, <2>1, <2>4, <2>5, MoveIsStep DEF Seen, m
<1>7. CASE CallDefinition(t)
  <2> DEFINE g == NewFrame(Lookup(n.name), w.done)
             interp == [task[t] EXCEPT !.stack = <<g>> \o @, !.depth = @ + 1]
  <2>1. Update(t, interp) /\ IsDefinition(n.name) /\ task[t].depth < MaxDepth
    BY <1>4, <1>7 DEF CallDefinition, HasRoom
  <2>2. m = Invokes(g)
    BY <1>1, <1>3, <2>1 DEF MoveOutOf, IsPrimitive
  <2> HIDE DEF m
  <2>3. m.does = "invokes" /\ m.frame = g
    BY <2>2 DEF Invokes
  <2>4. interp.outcome = NoOutcome
    BY <1>5
  <2> HIDE DEF g
  <2>5. Moved(task[t], m) = interp
    BY <2>3 DEF Moved
  <2> HIDE DEF interp
  <2>6. QED
    BY <1>1, <2>1, <2>4, <2>5, MoveIsStep DEF Seen, m
<1>8. QED
  BY <1>6, <1>7

\* The ends of calls and of branches.
LEMMA ReturnSteps ==
    ASSUME Inv, NEW t \in Tasks, FrameSane(Top(t)), Return(t) \/ ReturnToHost(t) \/ BranchEnds(t)
    PROVE  WalkStep(t)
<1> DEFINE f == Top(t)
           m == Move(f, task[t].depth)
           rest == Tail(task[t].stack)
<1>1. Active(t)
  BY DEF Return, ReturnToHost, BranchEnds
<1>2. DOMAIN task[t] = {"stack", "depth", "trace", "outcome"} /\ task[t].outcome = NoOutcome
  BY <1>1, ActiveOK DEF InterpOK, Ended
<1>3. f.phase = "return" => m = Returns(f)
  BY DEF Move, MoveOn, FrameSane, InClauses, PastClauses, ClausePhases
<1>4. CASE Return(t)
  <2> DEFINE g == Finish(Head(rest), f.result)
             interp == [task[t] EXCEPT !.stack = <<g>> \o Tail(rest), !.depth = @ - 1]
  <2>1. Update(t, interp) /\ f.phase = "return" /\ rest # <<>>
    BY <1>4 DEF Return
  <2>2. m = Returns(f)
    BY <1>3, <2>1
  <2> HIDE DEF m
  <2>3. m.does = "returns" /\ m.what = f.result
    BY <2>2 DEF Returns
  <2>4. interp.outcome = NoOutcome
    BY <1>2
  <2>5. Moved(task[t], m) = interp
    BY <2>1, <2>3 DEF Moved
  <2> HIDE DEF interp
  <2>6. QED
    BY <1>1, <2>1, <2>4, <2>5, MoveIsStep DEF Seen, m
<1>5. CASE ReturnToHost(t)
  <2> DEFINE v == f.result
             o == IF v = Bottom THEN Err("Refusal") ELSE Ok(v)
             interp == [task[t] EXCEPT !.stack = <<>>, !.depth = @ - 1, !.outcome = o]
  <2>1. Update(t, interp) /\ f.phase = "return" /\ rest = <<>>
    BY <1>5 DEF ReturnToHost
  <2>2. m = Returns(f)
    BY <1>3, <2>1
  <2> HIDE DEF m
  <2>3. m.does = "returns" /\ m.what = v
    BY <2>2 DEF Returns
  <2>4. o # NoOutcome
    BY DEF Err, Ok, NoOutcome
  <2>5. Moved(task[t], m) = Stopped(task[t], o)
    BY <2>1, <2>3 DEF Moved
  <2> HIDE DEF o
  <2>6. interp.outcome # NoOutcome
    BY <1>2, <2>4
  <2>7. [interp EXCEPT !.depth = 0] = Stopped(task[t], o)
    BY <1>2 DEF Stopped
  <2> HIDE DEF interp
  <2>8. QED
    BY <1>1, <2>1, <2>5, <2>6, <2>7, MoveIsStep DEF Seen, m
<1>6. CASE BranchEnds(t)
  <2> DEFINE v == f.given
             interp == [task[t] EXCEPT !.stack = <<>>, !.outcome = Ok(v)]
  <2>1. Update(t, interp) /\ f.phase = "branch" /\ Settled(f)
    BY <1>6 DEF BranchEnds
  <2>2. m = Ends(f, v)
    BY <2>1 DEF Move, Settled, MoveAfter, InClauses, ClausePhases
  <2> HIDE DEF m
  <2>3. m.does = "ends" /\ m.what = v
    BY <2>2 DEF Ends
  <2>4. Ok(v) # NoOutcome
    BY DEF Ok, NoOutcome
  <2>5. Moved(task[t], m) = Stopped(task[t], Ok(v))
    BY <2>3 DEF Moved
  <2>6. interp.outcome # NoOutcome
    BY <1>2, <2>4
  <2>7. [interp EXCEPT !.depth = 0] = Stopped(task[t], Ok(v))
    BY <1>2 DEF Stopped
  <2> HIDE DEF interp
  <2>8. QED
    BY <1>1, <2>1, <2>5, <2>6, <2>7, MoveIsStep DEF Seen, m
<1>7. QED
  BY <1>4, <1>5, <1>6

\* Every step of a task is the step of the tree walker, but for a spawn and a join.
LEMMA StepsAreWalks ==
    ASSUME Inv, NEW t \in Tasks, FrameSane(Top(t)), Step(t), ~Spawn(t), ~Join(t)
    PROVE  WalkStep(t) /\ Active(t)
<1>1. Active(t)
  BY DEF Step, BeginClause, NoGuard, ClauseDecided, ClauseFails, ClausesPassed, Dispatch,
         DispatchFails, BodyEnds, EvalLeaf, Begin, CallRefused, EvalPart, FinishLast, FinishConcat,
         FieldMissing, CallPrimitive, PrimitiveRaises, CallDefinition, RecursionLimit, Return,
         ReturnToHost, BranchEnds, FinishingPrimitive, Finishing, Evaluating
<1>2. QED
  BY <1>1, ClauseSteps, ExpressionSteps, FinishSteps, CallSteps, ReturnSteps DEF Step

\* Induction, for a set of numbers.
LEMMA NatInduct ==
    ASSUME NEW S, 0 \in S, \A k \in Nat : k \in S => k + 1 \in S
    PROVE  Nat \subseteq S
<1> SUFFICES ASSUME Nat \ S # {}
             PROVE  FALSE
  OBVIOUS
<1>1. PICK x \in Nat \ S : \A y \in Nat \ S : ~(y < x)
  <2> DEFINE D == Nat \ S
  <2>1. D \in SUBSET Nat /\ D # {}
    OBVIOUS
  <2>2. PICK x \in D : \A y \in D : ~(<<y, x>> \in OpToRel(<, Nat))
    <3> HIDE DEF D
    <3>1. QED
      BY <2>1, NatLessThanWellFounded, WFMin
  <2>3. QED
    BY <2>2 DEF OpToRel
<1>2. x # 0 /\ x - 1 \in Nat /\ x = (x - 1) + 1
  OBVIOUS
<1>3. x - 1 \in S
  BY <1>1, <1>2
<1>4. QED
  BY <1>2, <1>3

\* Two sequences in one set.
LEMMA Together ==
    ASSUME NEW s, IsSeq(s), NEW r, IsSeq(r)
    PROVE  \E U : s \in Seq(U) /\ r \in Seq(U)
<1> DEFINE V == {s[i] : i \in 1..Len(s)}
           W == {r[i] : i \in 1..Len(r)}
<1>1. s \in Seq(V) /\ r \in Seq(W)
  BY DEF IsSeq
<1> HIDE DEF V, W
<1> DEFINE U == V \union W
<1>2. V \subseteq U /\ W \subseteq U
  OBVIOUS
<1> HIDE DEF U
<1>3. s \in Seq(U) /\ r \in Seq(U)
  BY <1>1, <1>2
<1>4. QED
  BY <1>3

\* A sequence is its length and its elements.
LEMMA SameSeq ==
    ASSUME NEW s, IsSeq(s), NEW r, IsSeq(r), Len(s) = Len(r), \A i \in 1..Len(s) : s[i] = r[i]
    PROVE  s = r
<1>1. PICK U : s \in Seq(U) /\ r \in Seq(U)
  BY Together
<1>2. QED
  BY <1>1

\* One sequence after the other.
LEMMA Joined ==
    ASSUME NEW s, IsSeq(s), NEW r, IsSeq(r)
    PROVE  /\ IsSeq(s \o r) /\ Len(s) \in Nat /\ Len(r) \in Nat /\ Len(s \o r) = Len(s) + Len(r)
           /\ \A i \in 1..Len(s) : (s \o r)[i] = s[i]
           /\ \A i \in 1..Len(r) : (s \o r)[Len(s) + i] = r[i]
           /\ <<>> \o r = r /\ s \o <<>> = s
           /\ s # <<>> => /\ s \o r # <<>> /\ Head(s \o r) = Head(s)
                          /\ Tail(s \o r) = Tail(s) \o r
<1>1. PICK U : s \in Seq(U) /\ r \in Seq(U)
  BY Together
<1>2. /\ s \o r \in Seq(U) /\ Len(s) \in Nat /\ Len(r) \in Nat /\ Len(s \o r) = Len(s) + Len(r)
      /\ \A i \in 1..Len(s) : (s \o r)[i] = s[i]
      /\ \A i \in 1..Len(r) : (s \o r)[Len(s) + i] = r[i]
  BY <1>1
<1>3. IsSeq(s \o r)
  BY <1>2, SeqIsSeq
<1>4. <<>> \o r = r /\ s \o <<>> = s
  BY <1>1
<1>5. ASSUME s # <<>>
      PROVE  s \o r # <<>> /\ Head(s \o r) = Head(s) /\ Tail(s \o r) = Tail(s) \o r
  <2>1. s \o r # <<>> /\ Head(s \o r) = Head(s)
    BY <1>1, <1>5
  <2>2. Tail(s \o r) = Tail(s) \o r
    BY <1>1, <1>5
  <2>3. QED
    BY <2>1, <2>2
<1>6. QED
  BY <1>2, <1>3, <1>4, <1>5

\* A frame more on a stack, and a frame less.
LEMMA Pushes ==
    ASSUME NEW s, IsSeq(s), NEW r, IsSeq(r), NEW x
    PROVE  /\ (<<x>> \o s) \o r = <<x>> \o (s \o r)
           /\ Tail(<<x>> \o s) = s /\ Head(<<x>> \o s) = x /\ <<x>> \o s # <<>>
           /\ IsSeq(<<x>>) /\ <<x>> \o <<>> = <<x>> /\ Tail(<<x>>) = <<>> /\ Head(<<x>>) = x /\ Len(<<x>>) = 1
<1>1. PICK U : s \in Seq(U) /\ r \in Seq(U)
  BY Together
<1> DEFINE V == U \union {x}
<1>2. s \in Seq(V) /\ r \in Seq(V) /\ x \in V
  BY <1>1
<1> HIDE DEF V
<1>3. (<<x>> \o s) \o r = <<x>> \o (s \o r)
  BY <1>2
<1>4. Tail(<<x>> \o s) = s /\ Head(<<x>> \o s) = x
  BY <1>2
<1>5. IsSeq(<<x>>)
  BY OneFrame
<1>6. <<x>> \o <<>> = <<x>> /\ Tail(<<x>>) = <<>> /\ Head(<<x>>) = x /\ Len(<<x>>) = 1
  BY <1>2
<1>7. QED
  BY <1>3, <1>4, <1>5, <1>6, Pushed

-----------------------------------------------------------------------------
(***************************************************************************)
(* Frames, as the tree walker leaves them.                                 *)
(***************************************************************************)
Fields == {"defn", "phase", "at", "allowed", "satisfied", "focus", "work", "given", "result", "locals"}

\* A value is there when nothing is at work; a frame about to return has neither.
FrameShape(f) ==
    /\ DOMAIN f = Fields
    /\ IsSeq(f.work) /\ \A i \in 1..Len(f.work) : DOMAIN f.work[i] = {"node", "done", "outer"}
    /\ f.phase = "return" \/ f.given # NoValue => f.focus = NoNode /\ f.work = <<>>
    /\ f.phase = "return" => f.given = NoValue

\* The locals a frame goes back to when its expressions are done.
Base(f) == IF f.work = <<>> THEN f.locals ELSE f.work[Len(f.work)].outer

\* The records of moves.
LEMMA MoveRecords ==
    /\ \A f : GoesOn(f).does = "goes on" /\ GoesOn(f).frame = f
    /\ \A f, v, e : /\ Performs(f, v, e).does = "performs" /\ Performs(f, v, e).frame = f
                    /\ Performs(f, v, e).what = v /\ Performs(f, v, e).effects = e
    /\ \A f : Invokes(f).does = "invokes" /\ Invokes(f).frame = f
    /\ \A f, e : Fails(f, e).does = "fails" /\ Fails(f, e).what = e
    /\ \A f, v : Ends(f, v).does = "ends" /\ Ends(f, v).what = v
    /\ \A f : Returns(f).does = "returns" /\ Returns(f).what = f.result
    /\ \A f : Waits(f).does = "waits"
BY DEF GoesOn, Performs, Invokes, Fails, Ends, Returns, Waits

\* The last element, when the first is another one.
LEMMA LastOf ==
    ASSUME NEW s, IsSeq(s), NEW x
    PROVE  /\ (<<x>> \o s)[Len(<<x>> \o s)] = IF s = <<>> THEN x ELSE s[Len(s)]
           /\ s # <<>> => (<<x>> \o Tail(s))[Len(<<x>> \o Tail(s))] = IF Tail(s) = <<>> THEN x ELSE s[Len(s)]
           /\ s # <<>> /\ Tail(s) # <<>> => Tail(s)[Len(Tail(s))] = s[Len(s)]
           /\ s # <<>> /\ Tail(s) = <<>> => Head(s) = s[Len(s)]
<1>1. ASSUME NEW r, IsSeq(r)
      PROVE  (<<x>> \o r)[Len(<<x>> \o r)] = IF r = <<>> THEN x ELSE r[Len(r)]
  <2>1. CASE r = <<>>
    BY <2>1, Pushes, <1>1
  <2>2. CASE r # <<>>
    <3>1. Len(r) \in Nat \ {0}
      BY <1>1, <2>2, Popped
    <3>2. /\ Len(<<x>> \o r) = Len(r) + 1
          /\ \A i \in 2..Len(<<x>> \o r) : i - 1 \in 1..Len(r) /\ (<<x>> \o r)[i] = r[i - 1]
      BY <1>1, Pushed
    <3> HIDE DEF IsSeq
    <3>3. QED
      BY <3>1, <3>2, <2>2
  <2>3. QED
    BY <2>1, <2>2
<1>2. ASSUME s # <<>>
      PROVE  /\ IsSeq(Tail(s))
             /\ Tail(s) # <<>> => Tail(s)[Len(Tail(s))] = s[Len(s)]
             /\ Tail(s) = <<>> => Head(s) = s[Len(s)]
  <2> DEFINE r == Tail(s)
  <2>1. /\ Len(s) \in Nat \ {0} /\ Head(s) = s[1] /\ IsSeq(r) /\ Len(r) = Len(s) - 1
        /\ \A i \in 1..Len(r) : i + 1 \in 1..Len(s) /\ r[i] = s[i + 1]
    BY <1>2, Popped
  <2> HIDE DEF r
  <2>2. ASSUME r # <<>>
        PROVE  r[Len(r)] = s[Len(s)]
    <3>1. Len(r) \in 1..Len(r)
      BY <2>1, <2>2, Popped
    <3>2. QED
      BY <2>1, <3>1
  <2>3. ASSUME r = <<>>
        PROVE  Head(s) = s[Len(s)]
    <3>1. Len(r) = 0
      BY <2>3
    <3>2. Len(s) = 1
      BY <2>1, <3>1
    <3>3. QED
      BY <2>1, <3>2
  <2>4. QED
    BY <2>1, <2>2, <2>3 DEF r
<1>3. QED
  BY <1>1, <1>2

\* A value, for the frame or for the expression it belongs to.
LEMMA GiveShape ==
    ASSUME NEW f, FrameShape(f), f.given = NoValue, f.phase # "return", NEW v
    PROVE  \A g \in {Give(f, v)} :
               /\ FrameShape(g) /\ g.phase = f.phase /\ g.allowed = f.allowed /\ Base(g) = Base(f)
               /\ g.focus = NoNode /\ g.locals = f.locals
               /\ f.work = <<>> => g.work = <<>> /\ g.given = v
               /\ f.work # <<>> =>
                      /\ g.work = <<[Head(f.work) EXCEPT !.done = Append(@, v)]>> \o Tail(f.work)
                      /\ g.given = NoValue
<1>1. CASE f.work = <<>>
  <2> DEFINE g == [f EXCEPT !.focus = NoNode, !.given = v]
  <2>1. Give(f, v) = g
    BY <1>1 DEF Give
  <2>2. /\ DOMAIN g = Fields /\ g.focus = NoNode /\ g.given = v /\ g.work = <<>>
        /\ g.phase = f.phase /\ g.allowed = f.allowed /\ g.locals = f.locals
    BY <1>1 DEF FrameShape, Fields
  <2> HIDE DEF g
  <2>3. FrameShape(g) /\ Base(g) = Base(f)
    BY <1>1, <2>2 DEF FrameShape, Base
  <2>4. QED
    BY <1>1, <2>1, <2>2, <2>3
<1>2. CASE f.work # <<>>
  <2> DEFINE h == Head(f.work)
             w == [h EXCEPT !.done = Append(@, v)]
             ws == <<w>> \o Tail(f.work)
             g == [f EXCEPT !.focus = NoNode, !.work = ws]
  <2>1. Give(f, v) = g
    BY <1>2 DEF Give
  <2>2. /\ DOMAIN g = Fields /\ g.focus = NoNode /\ g.given = NoValue /\ g.work = ws
        /\ g.phase = f.phase /\ g.allowed = f.allowed /\ g.locals = f.locals
    BY DEF FrameShape, Fields
  <2> HIDE DEF g
  <2>3. /\ IsSeq(f.work) /\ h = f.work[1] /\ 1 \in 1..Len(f.work)
        /\ DOMAIN h = {"node", "done", "outer"}
    BY <1>2, Popped DEF FrameShape
  <2>4. DOMAIN w = {"node", "done", "outer"} /\ w.outer = h.outer
    BY <2>3
  <2> HIDE DEF w
  <2>5. /\ IsSeq(ws) /\ ws # <<>> /\ Len(ws) = Len(f.work) /\ Len(f.work) \in Nat \ {0} /\ ws[1] = w
        /\ \A i \in 2..Len(f.work) : ws[i] = f.work[i]
    BY <1>2, <2>3, Replaced
  <2>6. ws[Len(ws)].outer = f.work[Len(f.work)].outer
    <3> HIDE DEF ws, h
    <3>1. QED
      BY <2>3, <2>4, <2>5
  <2> HIDE DEF ws, h
  <2>7. \A i \in 1..Len(ws) : DOMAIN ws[i] = {"node", "done", "outer"}
    <3> SUFFICES ASSUME NEW i \in 1..Len(ws)
                 PROVE  DOMAIN ws[i] = {"node", "done", "outer"}
      OBVIOUS
    <3>1. CASE i = 1
      BY <3>1, <2>4, <2>5
    <3>2. CASE i # 1
      BY <3>2, <2>5 DEF FrameShape
    <3>3. QED
      BY <3>1, <3>2
  <2>8. FrameShape(g)
    BY <2>2, <2>5, <2>7 DEF FrameShape
  <2>9. Base(g) = Base(f)
    BY <1>2, <2>2, <2>5, <2>6 DEF Base
  <2>10. QED
    BY <1>2, <2>1, <2>2, <2>8, <2>9 DEF ws, w, h
<1>3. QED
  BY <1>1, <1>2

\* The innermost expression is done.
LEMMA FinishShape ==
    ASSUME NEW f, FrameShape(f), f.work # <<>>, NEW v
    PROVE  \A g \in {Finish(f, v)} :
               FrameShape(g) /\ g.phase = f.phase /\ g.allowed = f.allowed /\ Base(g) = Base(f)
<1> DEFINE g == [f EXCEPT !.work = Tail(f.work), !.locals = Head(f.work).outer]
           ws == Tail(f.work)
<1>1. f.given = NoValue /\ f.phase # "return"
  BY DEF FrameShape
<1>2. /\ DOMAIN g = Fields /\ g.given = NoValue /\ g.phase = f.phase /\ g.allowed = f.allowed
      /\ g.work = ws /\ g.locals = Head(f.work).outer
  BY <1>1 DEF FrameShape, Fields
<1>3. Finish(f, v) = Give(g, v)
  BY DEF Finish
<1> HIDE DEF g
<1>4. /\ IsSeq(ws) /\ \A i \in 1..Len(ws) : i + 1 \in 1..Len(f.work) /\ ws[i] = f.work[i + 1]
  BY Popped DEF FrameShape
<1>5. Base(g) = Base(f)
  BY <1>2, LastOf DEF Base, FrameShape
<1> HIDE DEF ws
<1>6. FrameShape(g)
  BY <1>1, <1>2, <1>4 DEF FrameShape
<1> DEFINE k == Give(g, v)
<1>7. FrameShape(k) /\ k.phase = g.phase /\ k.allowed = g.allowed /\ Base(k) = Base(g)
  BY <1>1, <1>2, <1>6, GiveShape
<1> HIDE DEF k
<1>8. QED
  BY <1>2, <1>3, <1>5, <1>7 DEF k

\* An expression with parts is begun.
LEMMA BegunShape ==
    ASSUME NEW f, FrameShape(f), f.focus # NoNode
    PROVE  \A g \in {WithBegun(f)} :
               /\ FrameShape(g) /\ g.phase = f.phase /\ g.allowed = f.allowed /\ Base(g) = Base(f)
               /\ g.work = <<[node |-> f.focus, done |-> <<>>, outer |-> f.locals]>> \o f.work
               /\ g.focus = NoNode /\ g.given = NoValue /\ g.locals = f.locals
<1> DEFINE w == [node |-> f.focus, done |-> <<>>, outer |-> f.locals]
           ws == <<w>> \o f.work
           g == [f EXCEPT !.focus = NoNode, !.work = ws]
<1>1. f.given = NoValue /\ f.phase # "return" /\ IsSeq(f.work)
  BY DEF FrameShape
<1>2. DOMAIN w = {"node", "done", "outer"} /\ w.outer = f.locals
  OBVIOUS
<1>3. WithBegun(f) = g
  BY DEF WithBegun
<1>4. /\ DOMAIN g = Fields /\ g.given = NoValue /\ g.phase = f.phase /\ g.allowed = f.allowed
      /\ g.work = ws /\ g.locals = f.locals /\ g.focus = NoNode
  BY <1>1 DEF FrameShape, Fields
<1> HIDE DEF g
<1> HIDE DEF w
<1>5. /\ IsSeq(ws) /\ ws # <<>> /\ ws[1] = w
      /\ \A i \in 2..Len(ws) : i - 1 \in 1..Len(f.work) /\ ws[i] = f.work[i - 1]
      /\ ws[Len(ws)] = IF f.work = <<>> THEN w ELSE f.work[Len(f.work)]
  <2>1. /\ IsSeq(ws) /\ ws # <<>> /\ ws[1] = w
        /\ \A i \in 2..Len(ws) : i - 1 \in 1..Len(f.work) /\ ws[i] = f.work[i - 1]
    <3> DEFINE r == f.work
    <3>1. IsSeq(r)
      BY <1>1
    <3> HIDE DEF r
    <3>2. /\ IsSeq(<<w>> \o r) /\ <<w>> \o r # <<>> /\ (<<w>> \o r)[1] = w
          /\ \A i \in 2..Len(<<w>> \o r) : i - 1 \in 1..Len(r) /\ (<<w>> \o r)[i] = r[i - 1]
      BY <3>1, Pushed
    <3>3. QED
      BY <3>2 DEF r
  <2>2. ws[Len(ws)] = IF f.work = <<>> THEN w ELSE f.work[Len(f.work)]
    BY <1>1, LastOf
  <2>3. QED
    BY <2>1, <2>2
<1>6. Base(g) = Base(f)
  BY <1>2, <1>4, <1>5 DEF Base
<1> HIDE DEF ws
<1>7. \A i \in 1..Len(ws) : DOMAIN ws[i] = {"node", "done", "outer"}
  <2> SUFFICES ASSUME NEW i \in 1..Len(ws)
               PROVE  DOMAIN ws[i] = {"node", "done", "outer"}
    OBVIOUS
  <2>1. CASE i = 1
    BY <2>1, <1>2, <1>5
  <2>2. CASE i # 1
    <3>1. Len(ws) \in Nat
      BY <1>5, SeqIsSeq DEF IsSeq
    <3>2. i \in 2..Len(ws)
      BY <2>2, <3>1
    <3>3. QED
      BY <3>2, <1>5 DEF FrameShape
  <2>3. QED
    BY <2>1, <2>2
<1>8. FrameShape(g)
  BY <1>1, <1>4, <1>5, <1>7 DEF FrameShape
<1>9. QED
  BY <1>3, <1>4, <1>6, <1>8 DEF ws, w

\* The next part is evaluated.
LEMMA PartShape ==
    ASSUME NEW f, FrameShape(f), f.work # <<>>
    PROVE  \A g \in {WithPart(f)} :
               /\ FrameShape(g) /\ g.phase = f.phase /\ g.allowed = f.allowed /\ Base(g) = Base(f)
               /\ g.work = f.work /\ g.focus = NextPart(Head(f.work)) /\ g.given = NoValue
<1> DEFINE w == Head(f.work)
           l == IF Node[w.node].kind = "binding" /\ Len(w.done) = 1
                THEN [f.locals EXCEPT ![Node[w.node].name] = w.done[1]] ELSE f.locals
           x == NextPart(w)
           g == [f EXCEPT !.focus = x, !.locals = l]
<1>1. WithPart(f) = g
  BY DEF WithPart
<1>2. f.given = NoValue /\ f.phase # "return" /\ IsSeq(f.work)
  BY DEF FrameShape
<1> HIDE DEF l, x
<1>3. /\ DOMAIN g = Fields /\ g.given = NoValue /\ g.phase = f.phase /\ g.allowed = f.allowed
      /\ g.work = f.work /\ g.focus = x
  BY <1>2 DEF FrameShape, Fields
<1> HIDE DEF g
<1>4. FrameShape(g) /\ Base(g) = Base(f)
  BY <1>2, <1>3 DEF FrameShape, Base
<1>5. QED
  BY <1>1, <1>3, <1>4 DEF x

\* The frame of a call has the shape of a frame.
LEMMA NewShape ==
    ASSUME NEW d, NEW vs
    PROVE  FrameShape(NewFrame(d, vs)) /\ NewFrame(d, vs).phase = "pre"
<1> DEFINE l == [x \in Names |->
               IF \E i \in 1..Len(Params[d]) : Params[d][i] = x
               THEN LET i == CHOOSE i \in 1..Len(Params[d]) : Params[d][i] = x
                    IN  IF i <= Len(vs) THEN vs[i] ELSE Bottom
               ELSE Unbound]
           f == [defn |-> d, phase |-> "pre", at |-> 1, allowed |-> {}, satisfied |-> {},
                 focus |-> NoNode, work |-> <<>>, given |-> NoValue, result |-> NoValue,
                 locals |-> l]
<1>1. NewFrame(d, vs) = f
  BY DEF NewFrame
<1> HIDE DEF l
<1>2. IsSeq(<<>>) /\ 1..Len(<<>>) = {}
  <2>1. <<>> \in Seq(Nat) /\ Len(<<>>) = 0
    OBVIOUS
  <2>2. IsSeq(<<>>)
    BY <2>1, SeqIsSeq
  <2>3. QED
    BY <2>1, <2>2
<1>3. DOMAIN f = Fields /\ f.phase = "pre" /\ f.work = <<>> /\ f.given = NoValue
  BY DEF Fields
<1> HIDE DEF f
<1>4. FrameShape(f)
  BY <1>2, <1>3 DEF FrameShape
<1>5. QED
  BY <1>1, <1>3, <1>4

\* Move m is one a frame like f may make.
Proper(f, m) ==
    /\ m.does \in {"goes on", "performs"} =>
           FrameShape(m.frame) /\ (m.frame.phase = "branch" <=> f.phase = "branch")
    /\ m.does = "invokes" => FrameShape(m.frame) /\ m.frame.phase # "branch" /\ f.work # <<>>
    /\ m.does = "returns" => f.phase = "return"
    /\ m.does = "ends" => f.phase = "branch"
    /\ m.does \in {"goes on", "performs", "invokes", "fails", "ends", "returns", "waits"}

\* Moves of each kind keep the shape of a frame.
LEMMA ProperMoves ==
    ASSUME NEW f
    PROVE  /\ \A g : FrameShape(g) /\ (g.phase = "branch" <=> f.phase = "branch") => Proper(f, GoesOn(g))
           /\ \A g, v, e : FrameShape(g) /\ (g.phase = "branch" <=> f.phase = "branch") =>
                               Proper(f, Performs(g, v, e))
           /\ \A g : FrameShape(g) /\ g.phase # "branch" /\ f.work # <<>> => Proper(f, Invokes(g))
           /\ \A e : Proper(f, Fails(f, e))
           /\ \A v : f.phase = "branch" => Proper(f, Ends(f, v))
           /\ f.phase = "return" => Proper(f, Returns(f))
           /\ Proper(f, Waits(f))
<1>1. ASSUME NEW g, NEW v, NEW e, FrameShape(g), g.phase = "branch" <=> f.phase = "branch"
      PROVE  Proper(f, GoesOn(g)) /\ Proper(f, Performs(g, v, e))
  <2>2. Proper(f, GoesOn(g))
    <3>1. GoesOn(g).does = "goes on" /\ GoesOn(g).frame = g
      BY DEF GoesOn
    <3>2. QED
      BY <1>1, <3>1 DEF Proper
  <2>3. Proper(f, Performs(g, v, e))
    <3>1. Performs(g, v, e).does = "performs" /\ Performs(g, v, e).frame = g
      BY DEF Performs
    <3>2. QED
      BY <1>1, <3>1 DEF Proper
  <2>4. QED
    BY <2>2, <2>3
<1>2. ASSUME NEW g, FrameShape(g), g.phase # "branch", f.work # <<>>
      PROVE  Proper(f, Invokes(g))
  BY <1>2, MoveRecords DEF Proper
<1>3. /\ \A e : Proper(f, Fails(f, e))
      /\ \A v : f.phase = "branch" => Proper(f, Ends(f, v))
      /\ f.phase = "return" => Proper(f, Returns(f))
      /\ Proper(f, Waits(f))
  <2>1. ASSUME NEW m, \/ m.does \in {"fails", "waits"}
                      \/ m.does = "ends" /\ f.phase = "branch"
                      \/ m.does = "returns" /\ f.phase = "return"
        PROVE  Proper(f, m)
    BY <2>1 DEF Proper
  <2>2. /\ \A e : Fails(f, e).does = "fails"
        /\ \A v : Ends(f, v).does = "ends"
        /\ Returns(f).does = "returns" /\ Waits(f).does = "waits"
    BY MoveRecords
  <2>3. QED
    BY <2>1, <2>2
<1>4. QED
  BY <1>1, <1>2, <1>3

\* The tree walker keeps the shape of frames.
LEMMA MoveShape ==
    ASSUME NEW f, FrameShape(f), NEW d, NEW m, m = Move(f, d)
    PROVE  Proper(f, m)
<1>1. CASE f.focus # NoNode
  <2>1. m = MoveInto(f) /\ f.given = NoValue /\ f.phase # "return"
    BY <1>1 DEF Move, FrameShape
  <2>2. \/ \E e : m = Fails(f, e)
        \/ \E v : m = GoesOn(Give(f, v))
        \/ m = GoesOn(WithBegun(f))
    BY <2>1 DEF MoveInto
  <2>3. CASE \E e : m = Fails(f, e)
    BY <2>3, ProperMoves
  <2>4. CASE \E v : m = GoesOn(Give(f, v))
    <3>1. PICK v : m = GoesOn(Give(f, v))
      BY <2>4
    <3>2. FrameShape(Give(f, v)) /\ Give(f, v).phase = f.phase
      BY <2>1, GiveShape
    <3>3. QED
      BY <3>1, <3>2, ProperMoves
  <2>5. CASE m = GoesOn(WithBegun(f))
    <3>1. FrameShape(WithBegun(f)) /\ WithBegun(f).phase = f.phase
      BY <1>1, BegunShape
    <3>2. QED
      BY <2>5, <3>1, ProperMoves
  <2>6. QED
    BY <2>2, <2>3, <2>4, <2>5
<1>2. CASE f.focus = NoNode /\ f.work # <<>>
  <2>1. \/ m = GoesOn(WithPart(f)) \/ m = MoveOutOf(f, d)
    BY <1>2 DEF Move
  <2>2. CASE m = GoesOn(WithPart(f))
    <3>1. FrameShape(WithPart(f)) /\ WithPart(f).phase = f.phase
      BY <1>2, PartShape
    <3>2. QED
      BY <2>2, <3>1, ProperMoves
  <2>3. CASE m = MoveOutOf(f, d)
    <3>1. \/ \E e : m = Fails(f, e)
          \/ \E v : m = GoesOn(Finish(f, v))
          \/ \E v, e : m = Performs(Finish(f, v), v, e)
          \/ \E x, vs : m = Invokes(NewFrame(x, vs))
          \/ m = Waits(f)
      BY <2>3 DEF MoveOutOf
    <3>2. CASE (\E e : m = Fails(f, e)) \/ m = Waits(f)
      BY <3>2, ProperMoves
    <3>3. CASE \E v : m = GoesOn(Finish(f, v))
      BY <1>2, <3>3, ProperMoves, FinishShape
    <3>4. CASE \E v, e : m = Performs(Finish(f, v), v, e)
      BY <1>2, <3>4, ProperMoves, FinishShape
    <3>5. CASE \E x, vs : m = Invokes(NewFrame(x, vs))
      BY <1>2, <3>5, ProperMoves, NewShape
    <3>6. QED
      BY <3>1, <3>2, <3>3, <3>4, <3>5
  <2>4. QED
    BY <2>1, <2>2, <2>3
<1>3. CASE f.focus = NoNode /\ f.work = <<>> /\ f.given # NoValue
  <2>1. m = MoveAfter(f) /\ f.phase # "return"
    BY <1>3 DEF Move, FrameShape
  <2>2. CASE InClauses(f)
    <3> DEFINE s == IF f.phase = "guard" /\ Truthy(f.given) THEN f.satisfied \union {f.at} ELSE f.satisfied
               g == [f EXCEPT !.given = NoValue, !.at = NextClause(f), !.satisfied = s]
    <3>1. m = GoesOn(g) \/ m = Fails(f, "Contract")
      BY <2>1, <2>2 DEF MoveAfter
    <3> HIDE DEF s
    <3>2. DOMAIN g = Fields /\ g.given = NoValue /\ g.phase = f.phase /\ g.work = f.work /\ g.focus = f.focus
      BY DEF FrameShape, Fields
    <3> HIDE DEF g
    <3>3. FrameShape(g)
      BY <1>3, <3>2 DEF FrameShape
    <3>4. QED
      BY <3>1, <3>2, <3>3, ProperMoves
  <2>3. CASE ~InClauses(f) /\ f.phase = "body"
    <3> DEFINE p == IF f.given = Bottom THEN "return" ELSE "post"
               g == [f EXCEPT !.phase = p, !.at = 1, !.given = NoValue, !.result = f.given]
    <3>1. m = GoesOn(g)
      BY <2>1, <2>3 DEF MoveAfter
    <3>2. p # "branch"
      OBVIOUS
    <3> HIDE DEF p
    <3>3. DOMAIN g = Fields /\ g.given = NoValue /\ g.phase = p /\ g.work = f.work /\ g.focus = f.focus
      BY DEF FrameShape, Fields
    <3> HIDE DEF g
    <3>4. FrameShape(g)
      BY <1>3, <3>3 DEF FrameShape
    <3>5. QED
      BY <2>3, <3>1, <3>2, <3>3, <3>4, ProperMoves
  <2>4. CASE ~InClauses(f) /\ f.phase # "body"
    <3>1. (f.phase = "branch" /\ m = Ends(f, f.given)) \/ m = Waits(f)
      BY <2>1, <2>4 DEF MoveAfter
    <3>2. QED
      BY <3>1, ProperMoves
  <2>5. QED
    BY <2>2, <2>3, <2>4
<1>4. CASE f.focus = NoNode /\ f.work = <<>> /\ f.given = NoValue
  <2>1. m = MoveOn(f)
    BY <1>4 DEF Move
  <2>2. CASE InClauses(f)
    <3>0. f.phase \in ClausePhases
      BY <2>2 DEF InClauses
    <3> DEFINE l == IF f.phase = "post" THEN [f.locals EXCEPT !["result"] = f.result] ELSE f.locals
               g == [f EXCEPT !.focus = Clause(f), !.locals = l]
               h == [f EXCEPT !.at = NextClause(f), !.satisfied = @ \union {f.at}]
    <3>1. m = GoesOn(g) \/ m = GoesOn(h)
      BY <2>1, <2>2 DEF MoveOn
    <3> HIDE DEF l
    <3>2. DOMAIN g = Fields /\ g.given = NoValue /\ g.phase = f.phase /\ g.work = f.work
      BY <1>4 DEF FrameShape, Fields
    <3>3. DOMAIN h = Fields /\ h.given = NoValue /\ h.phase = f.phase /\ h.work = f.work
      BY <1>4 DEF FrameShape, Fields
    <3> HIDE DEF g, h
    <3>4. FrameShape(g) /\ FrameShape(h)
      BY <1>4, <3>0, <3>2, <3>3 DEF FrameShape, ClausePhases
    <3>5. QED
      BY <3>1, <3>2, <3>3, <3>4, ProperMoves
  <2>3. CASE ~InClauses(f) /\ PastClauses(f)
    <3>0. f.phase # "branch"
      BY <2>3 DEF PastClauses, ClausePhases
    <3> DEFINE p == IF f.phase = "pre" THEN "guard" ELSE "return"
               c == Cheapest(f.defn, f.satisfied)
               n == Candidates[f.defn][c].body
               g == [f EXCEPT !.phase = p, !.at = 1]
               h == [f EXCEPT !.phase = "body", !.at = c, !.focus = n]
    <3>1. m = GoesOn(g) \/ m = GoesOn(h) \/ m = Fails(f, "Dispatch")
      BY <2>1, <2>3 DEF MoveOn
    <3>2. p # "branch"
      OBVIOUS
    <3> HIDE DEF p, n, c
    <3>3. DOMAIN g = Fields /\ g.given = NoValue /\ g.phase = p /\ g.work = f.work /\ g.focus = NoNode
      BY <1>4 DEF FrameShape, Fields
    <3>4. DOMAIN h = Fields /\ h.given = NoValue /\ h.phase = "body" /\ h.work = f.work
      BY <1>4 DEF FrameShape, Fields
    <3> HIDE DEF g, h
    <3>5. FrameShape(g) /\ FrameShape(h)
      BY <1>4, <3>3, <3>4 DEF FrameShape
    <3>6. QED
      BY <3>0, <3>1, <3>2, <3>3, <3>4, <3>5, ProperMoves
  <2>4. CASE ~InClauses(f) /\ ~PastClauses(f)
    <3>1. (f.phase = "return" /\ m = Returns(f)) \/ m = Waits(f)
      BY <2>1, <2>4 DEF MoveOn
    <3>2. QED
      BY <3>1, ProperMoves
  <2>5. QED
    BY <2>2, <2>3, <2>4
<1>5. QED
  BY <1>1, <1>2, <1>3, <1>4

-----------------------------------------------------------------------------
(***************************************************************************)
(* Interpreters, as the tree walker leaves them.                           *)
(***************************************************************************)
StackShape(s) ==
    /\ IsSeq(s)
    /\ \A i \in 1..Len(s) : FrameShape(s[i]) /\ (s[i].phase = "branch" => i = Len(s))
    /\ \A i \in 2..Len(s) : s[i].work # <<>>

TraceShape(trace) == trace = [e \in Effects |-> trace[e]] /\ \A e \in Effects : IsSeq(trace[e])

RunShape(interp) ==
    /\ DOMAIN interp = {"stack", "depth", "trace", "outcome"}
    /\ StackShape(interp.stack) /\ TraceShape(interp.trace)
    /\ interp.outcome = NoOutcome => interp.stack # <<>>

\* The empty sequence.
LEMMA EmptyShape == IsSeq(<<>>) /\ StackShape(<<>>)
<1>1. <<>> \in Seq(Nat) /\ Len(<<>>) = 0 /\ 1..Len(<<>>) = {} /\ 2..Len(<<>>) = {}
  OBVIOUS
<1>2. IsSeq(<<>>)
  BY <1>1, SeqIsSeq
<1>3. QED
  BY <1>1, <1>2 DEF StackShape

\* The innermost frame is another one.
LEMMA TopShape ==
    ASSUME NEW s, StackShape(s), s # <<>>, NEW g, FrameShape(g),
           g.phase = "branch" => Head(s).phase = "branch"
    PROVE  StackShape(<<g>> \o Tail(s)) /\ <<g>> \o Tail(s) # <<>>
<1> DEFINE u == <<g>> \o Tail(s)
<1>1. /\ IsSeq(u) /\ u # <<>> /\ Len(u) = Len(s) /\ Len(s) \in Nat \ {0} /\ u[1] = g
      /\ \A i \in 2..Len(s) : u[i] = s[i]
  BY Replaced DEF StackShape
<1>2. Head(s) = s[1] /\ 1 \in 1..Len(s)
  BY Popped DEF StackShape
<1> HIDE DEF u
<1>3. \A i \in 1..Len(u) : FrameShape(u[i]) /\ (u[i].phase = "branch" => i = Len(u))
  <2> SUFFICES ASSUME NEW i \in 1..Len(u)
               PROVE  FrameShape(u[i]) /\ (u[i].phase = "branch" => i = Len(u))
    OBVIOUS
  <2>1. CASE i = 1
    BY <2>1, <1>1, <1>2 DEF StackShape
  <2>2. CASE i # 1
    BY <2>2, <1>1 DEF StackShape
  <2>3. QED
    BY <2>1, <2>2
<1>4. StackShape(u)
  BY <1>1, <1>3 DEF StackShape
<1>5. QED
  BY <1>1, <1>4 DEF u

\* A call is made.
LEMMA PushShape ==
    ASSUME NEW s, StackShape(s), s # <<>>, Head(s).work # <<>>, NEW g, FrameShape(g), g.phase # "branch"
    PROVE  StackShape(<<g>> \o s) /\ <<g>> \o s # <<>>
<1> DEFINE u == <<g>> \o s
<1>1. /\ IsSeq(u) /\ u # <<>> /\ Len(s) \in Nat /\ Len(u) = Len(s) + 1 /\ u[1] = g
      /\ \A i \in 2..Len(u) : i - 1 \in 1..Len(s) /\ u[i] = s[i - 1]
  BY Pushed DEF StackShape
<1>2. Head(s) = s[1]
  BY Popped DEF StackShape
<1> HIDE DEF u
<1>3. ASSUME NEW i \in 1..Len(u)
      PROVE  /\ FrameShape(u[i]) /\ (u[i].phase = "branch" => i = Len(u))
             /\ i # 1 => u[i].work # <<>>
  <2>1. CASE i = 1
    BY <2>1, <1>1
  <2>2. CASE i # 1
    <3>1. i - 1 \in 1..Len(s) /\ u[i] = s[i - 1]
      BY <2>2, <1>1
    <3>2. FrameShape(s[i - 1]) /\ (s[i - 1].phase = "branch" => i - 1 = Len(s))
      BY <3>1 DEF StackShape
    <3>3. u[i].work # <<>>
      <4>1. CASE i - 1 = 1
        BY <4>1, <1>2, <3>1
      <4>2. CASE i - 1 # 1
        BY <4>2, <3>1, <1>1 DEF StackShape
      <4>3. QED
        BY <4>1, <4>2
    <3>4. QED
      BY <3>1, <3>2, <3>3, <1>1, <2>2
  <2>3. QED
    BY <2>1, <2>2
<1>4. StackShape(u)
  <2>1. \A i \in 2..Len(u) : i \in 1..Len(u) /\ i # 1
    BY <1>1
  <2>2. QED
    BY <1>1, <1>3, <2>1 DEF StackShape
<1>5. QED
  BY <1>1, <1>4 DEF u

\* A call returns.
LEMMA PopShape ==
    ASSUME NEW s, StackShape(s), s # <<>>
    PROVE  /\ FrameShape(Head(s)) /\ StackShape(Tail(s))
           /\ Tail(s) # <<>> => Head(Tail(s)).work # <<>> /\ FrameShape(Head(Tail(s)))
           /\ Tail(s) # <<>> => Head(s).phase # "branch"
<1> DEFINE r == Tail(s)
<1>1. /\ Len(s) \in Nat \ {0} /\ Head(s) = s[1] /\ IsSeq(r) /\ Len(r) = Len(s) - 1
      /\ \A i \in 1..Len(r) : i + 1 \in 1..Len(s) /\ r[i] = s[i + 1]
  BY Popped DEF StackShape
<1> HIDE DEF r
<1>2. FrameShape(Head(s))
  BY <1>1 DEF StackShape
<1>3. ASSUME NEW i \in 1..Len(r)
      PROVE  FrameShape(r[i]) /\ (r[i].phase = "branch" => i = Len(r)) /\ r[i].work # <<>>
  <2>1. i + 1 \in 1..Len(s) /\ i + 1 \in 2..Len(s) /\ r[i] = s[i + 1]
    BY <1>1
  <2>2. FrameShape(s[i + 1]) /\ (s[i + 1].phase = "branch" => i + 1 = Len(s)) /\ s[i + 1].work # <<>>
    BY <2>1 DEF StackShape
  <2>3. QED
    BY <2>1, <2>2, <1>1
<1>4. StackShape(r)
  <2>1. \A i \in 2..Len(r) : i \in 1..Len(r)
    BY <1>1
  <2>2. QED
    BY <1>1, <1>3, <2>1 DEF StackShape
<1>5. ASSUME r # <<>>
      PROVE  Head(r).work # <<>> /\ FrameShape(Head(r)) /\ Head(s).phase # "branch"
  <2>1. Len(r) \in Nat \ {0} /\ Head(r) = r[1]
    BY <1>1, <1>5, Popped
  <2>2. 1 \in 1..Len(r) /\ 1 # Len(s) /\ 1 \in 1..Len(s)
    BY <1>1, <2>1
  <2>3. QED
    BY <2>1, <2>2, <1>1, <1>3 DEF StackShape
<1>6. QED
  BY <1>2, <1>4, <1>5 DEF r

\* The tree walker keeps its shape.
LEMMA WalkKeeps ==
    ASSUME NEW I, RunShape(I)
    PROVE  RunShape(TreeWalk(I))
<1> DEFINE s == I.stack
           f == Head(s)
           m == Move(f, I.depth)
           rest == Tail(s)
<1>1. CASE I.outcome # NoOutcome
  BY <1>1 DEF TreeWalk
<1>2. CASE I.outcome = NoOutcome
  <2>1. TreeWalk(I) = Moved(I, m)
    BY <1>2 DEF TreeWalk
  <2>2. /\ DOMAIN I = {"stack", "depth", "trace", "outcome"} /\ StackShape(s) /\ s # <<>>
        /\ TraceShape(I.trace)
    BY <1>2 DEF RunShape
  <2>3. /\ FrameShape(f) /\ StackShape(rest)
        /\ rest # <<>> => Head(rest).work # <<>> /\ FrameShape(Head(rest)) /\ f.phase # "branch"
    BY <2>2, PopShape
  <2>4. Proper(f, m)
    BY <2>3, MoveShape
  <2> HIDE DEF m
  <2>5. CASE m.does = "goes on"
    <3> DEFINE u == <<m.frame>> \o rest
               J == [I EXCEPT !.stack = u]
    <3>1. TreeWalk(I) = J
      BY <2>1, <2>5 DEF Moved
    <3>2. StackShape(u) /\ u # <<>>
      BY <2>2, <2>4, <2>5, TopShape DEF Proper
    <3> HIDE DEF u
    <3>3. DOMAIN J = DOMAIN I /\ J.stack = u /\ J.trace = I.trace
      BY <2>2
    <3> HIDE DEF J
    <3>4. QED
      BY <3>1, <3>2, <3>3, <2>2 DEF RunShape
  <2>6. CASE m.does = "performs"
    <3> DEFINE u == <<m.frame>> \o rest
               tr == [x \in Effects |-> IF x \in m.effects THEN Append(I.trace[x], m.what) ELSE I.trace[x]]
               J == [I EXCEPT !.stack = u, !.trace = tr]
    <3>1. TreeWalk(I) = J
      BY <2>1, <2>6 DEF Moved
    <3>2. StackShape(u) /\ u # <<>>
      BY <2>2, <2>4, <2>6, TopShape DEF Proper
    <3>3. TraceShape(tr)
      BY <2>2, Appended DEF TraceShape
    <3> HIDE DEF u, tr
    <3>4. DOMAIN J = DOMAIN I /\ J.stack = u /\ J.trace = tr
      BY <2>2
    <3> HIDE DEF J
    <3>5. QED
      BY <3>1, <3>2, <3>3, <3>4, <2>2 DEF RunShape
  <2>7. CASE m.does = "invokes"
    <3> DEFINE u == <<m.frame>> \o s
               J == [I EXCEPT !.stack = u, !.depth = @ + 1]
    <3>1. TreeWalk(I) = J
      BY <2>1, <2>7 DEF Moved
    <3>2. StackShape(u) /\ u # <<>>
      BY <2>2, <2>4, <2>7, PushShape DEF Proper
    <3> HIDE DEF u
    <3>3. DOMAIN J = DOMAIN I /\ J.stack = u /\ J.trace = I.trace
      BY <2>2
    <3> HIDE DEF J
    <3>4. QED
      BY <3>1, <3>2, <3>3, <2>2 DEF RunShape
  <2>8. ASSUME NEW o, o # NoOutcome, TreeWalk(I) = Stopped(I, o)
        PROVE  RunShape(TreeWalk(I))
    <3> DEFINE J == Stopped(I, o)
    <3>1. DOMAIN J = DOMAIN I /\ J.stack = <<>> /\ J.trace = I.trace /\ J.outcome = o
      BY <2>2 DEF Stopped
    <3> HIDE DEF J
    <3>2. RunShape(J)
      BY <2>2, <2>8, <3>1, EmptyShape DEF RunShape
    <3>3. QED
      BY <2>8, <3>2 DEF J
  <2>9. CASE m.does \in {"fails", "ends"}
    <3>1. \E o : o # NoOutcome /\ TreeWalk(I) = Stopped(I, o)
      BY <2>1, <2>9 DEF Moved, Err, Ok, NoOutcome
    <3>2. QED
      BY <3>1, <2>8
  <2>10. CASE m.does = "returns" /\ rest = <<>>
    <3>1. \E o : o # NoOutcome /\ TreeWalk(I) = Stopped(I, o)
      BY <2>1, <2>10 DEF Moved, Err, Ok, NoOutcome
    <3>2. QED
      BY <3>1, <2>8
  <2>11. CASE m.does = "returns" /\ rest # <<>>
    <3> DEFINE g == Finish(Head(rest), m.what)
               u == <<g>> \o Tail(rest)
               J == [I EXCEPT !.stack = u, !.depth = @ - 1]
    <3>1. TreeWalk(I) = J
      BY <2>1, <2>11 DEF Moved
    <3>2. FrameShape(g) /\ g.phase = Head(rest).phase
      BY <2>3, <2>11, FinishShape
    <3> HIDE DEF g
    <3>3. StackShape(u) /\ u # <<>>
      BY <2>3, <2>11, <3>2, TopShape
    <3> HIDE DEF u
    <3>4. DOMAIN J = DOMAIN I /\ J.stack = u /\ J.trace = I.trace
      BY <2>2
    <3> HIDE DEF J
    <3>5. QED
      BY <3>1, <3>3, <3>4, <2>2 DEF RunShape
  <2>12. CASE m.does = "waits"
    BY <2>1, <2>12 DEF Moved
  <2>13. QED
    BY <2>4, <2>5, <2>6, <2>7, <2>9, <2>10, <2>11, <2>12 DEF Proper
<1>3. QED
  BY <1>1, <1>2

=============================================================================
