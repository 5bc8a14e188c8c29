------------------------- MODULE InterpreterProofs -------------------------
(***************************************************************************)
(* Proofs about the interpreter, for any program, any declaration of       *)
(* effects, any arguments and any limit of depth.                          *)
(***************************************************************************)
EXTENDS Interpreter, ProgramTextProofs, TLAPS

-----------------------------------------------------------------------------
(***************************************************************************)
(* Sequences used as stacks.                                               *)
(***************************************************************************)

\* What a push makes of a stack.
LEMMA PushedStack ==
    ASSUME NEW S, NEW s \in Seq(S), NEW x \in S
    PROVE  /\ <<x>> \o s \in Seq(S) /\ <<x>> \o s # <<>>
           /\ Len(<<x>> \o s) = Len(s) + 1
           /\ (<<x>> \o s)[1] = x
           /\ \A i \in 1..Len(s) : (<<x>> \o s)[i + 1] = s[i]
           /\ Head(<<x>> \o s) = x
  OBVIOUS

\* What a stack is made of.
LEMMA PoppedStack ==
    ASSUME NEW S, NEW s \in Seq(S), s # <<>>
    PROVE  /\ Len(s) \in Nat \ {0}
           /\ Head(s) \in S /\ Head(s) = s[1]
           /\ Tail(s) \in Seq(S)
           /\ Len(Tail(s)) = Len(s) - 1
           /\ \A i \in 1..Len(Tail(s)) : Tail(s)[i] = s[i + 1]
  OBVIOUS

-----------------------------------------------------------------------------
(***************************************************************************)
(* The inductive invariant.                                                *)
(***************************************************************************)

\* What every frame keeps, E being the declared effects: what it evaluates is its
\* own, and the primitives it has begun were allowed by its signature.
FrameOK(E, f) ==
    /\ f \in Frames
    /\ f.defn \in Local \union Imported
    /\ f.satisfied \subseteq 1..Len(Candidates[f.defn])
    /\ f.phase \in {"post", "return"} => f.result \in Values
    /\ f.focus # NoNode => Owner[f.focus] = f.defn
    /\ \A i \in 1..Len(f.work) :
          Owner[f.work[i].node] = f.defn /\ EffectsOf(f.work[i].node) \subseteq E[f.defn]

FramesOK == \A i \in 1..Len(stack) : FrameOK(declared, stack[i])

\* The frames below the innermost wait for the call they made.
Waiting == \A i \in 2..Len(stack) : stack[i].focus = NoNode /\ stack[i].work # <<>>

Loaded == (stack # <<>> => loaded) /\ (loaded => EffectsDeclared)

\* Effects only shrink from caller to callee.
EffectsShrink ==
    ImportsDeclare =>
        \A i, j \in 1..Len(stack) :
            i <= j => declared[stack[i].defn] \subseteq declared[stack[j].defn]

Inv == TypeOK /\ StackDiscipline /\ FramesOK /\ Waiting /\ Loaded /\ EffectsShrink

-----------------------------------------------------------------------------
(***************************************************************************)
(* Frames.                                                                 *)
(***************************************************************************)

\* A frame that is given a value stays well formed.
LEMMA GiveOK ==
    ASSUME NEW E, NEW f, FrameOK(E, f), NEW v \in Values
    PROVE  FrameOK(E, Give(f, v)) /\ Give(f, v).defn = f.defn
<1>1. CASE f.work = <<>>
  BY <1>1 DEF FrameOK, Frames, Give
<1>2. CASE f.work # <<>>
  <2> DEFINE w == [Head(f.work) EXCEPT !.done = Append(@, v)]
             ws == <<w>> \o Tail(f.work)
  <2>1. f.work \in Seq(Begun)
    BY DEF FrameOK, Frames
  <2>2. /\ Len(f.work) \in Nat \ {0}
        /\ Head(f.work) \in Begun /\ Head(f.work) = f.work[1]
        /\ Tail(f.work) \in Seq(Begun) /\ Len(Tail(f.work)) = Len(f.work) - 1
        /\ \A i \in 1..Len(Tail(f.work)) : Tail(f.work)[i] = f.work[i + 1]
    BY <1>2, <2>1, PoppedStack
  <2>3. w \in Begun /\ w.node = f.work[1].node
    <3>1. Append(Head(f.work).done, v) \in Seq(Values)
      BY <2>2 DEF Begun
    <3>2. QED
      BY <2>2, <3>1 DEF Begun
  <2>4. /\ ws \in Seq(Begun) /\ Len(ws) = Len(f.work)
        /\ ws[1] = w /\ \A i \in 1..Len(Tail(f.work)) : ws[i + 1] = Tail(f.work)[i]
    <3> HIDE DEF w
    <3>1. QED
      BY <2>2, <2>3, PushedStack
  <2>5. \A i \in 1..Len(ws) : ws[i].node = f.work[i].node
    <3> HIDE DEF w, ws
    <3> SUFFICES ASSUME NEW i \in 1..Len(ws)
                 PROVE  ws[i].node = f.work[i].node
      OBVIOUS
    <3>1. CASE i = 1
      BY <3>1, <2>3, <2>4
    <3>2. CASE i # 1
      <4>1. i - 1 \in 1..Len(Tail(f.work)) /\ (i - 1) + 1 = i
        BY <3>2, <2>2, <2>4
      <4>2. QED
        BY <4>1, <2>2, <2>4
    <3>3. QED
      BY <3>1, <3>2
  <2>6. Give(f, v) = [f EXCEPT !.focus = NoNode, !.work = ws]
    BY <1>2 DEF Give
  <2> HIDE DEF w, ws
  <2>7. QED
    BY <2>4, <2>5, <2>6 DEF FrameOK, Frames
<1>3. QED
  BY <1>1, <1>2

\* So does a frame whose innermost expression is finished.
LEMMA FinishOK ==
    ASSUME NEW E, NEW f, FrameOK(E, f), f.work # <<>>, NEW v \in Values
    PROVE  FrameOK(E, Finish(f, v)) /\ Finish(f, v).defn = f.defn
<1> DEFINE g == [f EXCEPT !.work = Tail(f.work), !.locals = Head(f.work).outer]
<1>1. f.work \in Seq(Begun)
  BY DEF FrameOK, Frames
<1>2. /\ Head(f.work) \in Begun
      /\ Tail(f.work) \in Seq(Begun) /\ Len(Tail(f.work)) = Len(f.work) - 1
      /\ \A i \in 1..Len(Tail(f.work)) : Tail(f.work)[i] = f.work[i + 1]
      /\ Len(f.work) \in Nat
  BY <1>1, PoppedStack
<1>3. Head(f.work).outer \in Locals
  BY <1>2 DEF Begun
<1>4. \A i \in 1..Len(Tail(f.work)) : i + 1 \in 1..Len(f.work)
  BY <1>2
<1>5. FrameOK(E, g) /\ g.defn = f.defn
  <2>1. g \in Frames
    BY <1>2, <1>3 DEF FrameOK, Frames
  <2>2. /\ g.defn = f.defn /\ g.satisfied = f.satisfied /\ g.phase = f.phase
        /\ g.result = f.result /\ g.focus = f.focus /\ g.work = Tail(f.work)
    BY DEF FrameOK, Frames
  <2> HIDE DEF g
  <2>3. \A i \in 1..Len(g.work) :
          Owner[g.work[i].node] = g.defn /\ EffectsOf(g.work[i].node) \subseteq E[g.defn]
    BY <1>2, <1>4, <2>2 DEF FrameOK
  <2>4. QED
    BY <2>1, <2>2, <2>3 DEF FrameOK
<1> HIDE DEF g
<1>6. Finish(f, v) = Give(g, v)
  BY DEF Finish, g
<1>7. QED
  BY <1>5, <1>6, GiveOK

-----------------------------------------------------------------------------
(***************************************************************************)
(* Steps inside one frame, and errors.                                     *)
(***************************************************************************)

\* The innermost frame, while there is one.
LEMMA TopOK ==
    ASSUME Inv, stack # <<>>
    PROVE  /\ stack \in Seq(Frames) /\ Len(stack) \in Nat \ {0}
           /\ Top = stack[1] /\ FrameOK(declared, Top)
           /\ Tail(stack) \in Seq(Frames) /\ Len(Tail(stack)) = Len(stack) - 1
           /\ \A i \in 1..Len(Tail(stack)) : Tail(stack)[i] = stack[i + 1]
<1>1. stack \in Seq(Frames)
  BY DEF Inv, TypeOK
<1>2. QED
  BY <1>1, PoppedStack DEF Top, Inv, FramesOK

\* A step that turns the innermost frame into a well-formed one keeps the invariant.
LEMMA BecomeOK ==
    ASSUME Inv, stack # <<>>, NEW g, FrameOK(declared, g), g.defn = Top.defn, Become(g)
    PROVE  Inv'
<1>1. /\ stack' = <<g>> \o Tail(stack)
      /\ UNCHANGED <<declared, loaded, depth, chain, memo, raised, outcome, computed>>
  BY DEF Become
<1>2. g \in Frames
  BY DEF FrameOK
<1>3. /\ stack' \in Seq(Frames) /\ stack' # <<>> /\ Len(stack') = Len(stack)
      /\ stack'[1] = g
      /\ \A i \in 1..Len(Tail(stack)) : stack'[i + 1] = Tail(stack)[i]
  BY <1>1, <1>2, TopOK, PushedStack
<1>4. \A i \in 2..Len(stack) : stack'[i] = stack[i]
  <2> SUFFICES ASSUME NEW i \in 2..Len(stack)
               PROVE  stack'[i] = stack[i]
    OBVIOUS
  <2>1. i - 1 \in 1..Len(Tail(stack)) /\ (i - 1) + 1 = i
    BY TopOK
  <2>2. QED
    BY <2>1, <1>3, TopOK
<1>5. \A i \in 1..Len(stack) : stack'[i].defn = stack[i].defn /\ FrameOK(declared, stack'[i])
  <2> SUFFICES ASSUME NEW i \in 1..Len(stack)
               PROVE  stack'[i].defn = stack[i].defn /\ FrameOK(declared, stack'[i])
    OBVIOUS
  <2>1. CASE i = 1
    BY <2>1, <1>3, TopOK
  <2>2. CASE i # 1
    BY <2>2, <1>4, TopOK DEF Inv, FramesOK
  <2>3. QED
    BY <2>1, <2>2
<1>6. TypeOK'
  BY <1>1, <1>3 DEF Inv, TypeOK
<1>7. StackDiscipline'
  BY <1>1, <1>3, <1>5 DEF Inv, StackDiscipline
<1>8. FramesOK' /\ Waiting'
  BY <1>1, <1>3, <1>4, <1>5 DEF Inv, FramesOK, Waiting
<1>9. Loaded' /\ EffectsShrink'
  BY <1>1, <1>3, <1>5 DEF Inv, Loaded, EffectsShrink, EffectsDeclared, ImportsDeclare
<1>10. QED
  BY <1>6, <1>7, <1>8, <1>9 DEF Inv

\* So does the beginning of an error.
LEMMA RaiseOK ==
    ASSUME Inv, NEW error \in Errors, Raise(error)
    PROVE  Inv'
  BY DEF Inv, TypeOK, StackDiscipline, FramesOK, Waiting, Loaded, EffectsShrink,
         EffectsDeclared, ImportsDeclare, Raise

-----------------------------------------------------------------------------
(***************************************************************************)
(* Parameters, clauses and dispatch.                                       *)
(***************************************************************************)

\* What a frame evaluates as a clause is a node of its definition.
LEMMA ClauseOK ==
    ASSUME NEW E, NEW f, FrameOK(E, f), InClauses(f)
    PROVE  /\ Clause(f) \in Nodes \union {NoNode}
           /\ Clause(f) # NoNode => Owner[Clause(f)] = f.defn
           /\ f.phase = "guard" \/ Clause(f) = NoNode => f.at \in 1..Len(Candidates[f.defn])
<1>1. f.defn \in Definitions /\ f.at \in Nat \ {0} /\ f.phase \in ClausePhases
  BY DEF FrameOK, Frames, InClauses
<1>2. CASE f.phase = "pre"
  <2>1. f.at \in 1..Len(Pre[f.defn]) /\ Pre[f.defn] \in Seq(Nodes)
    BY <1>1, <1>2, DefinitionAssumption DEF InClauses, ClauseCount
  <2>2. Clause(f) = Pre[f.defn][f.at]
    BY <1>2 DEF Clause
  <2>3. Clause(f) \in Nodes /\ Clause(f) \in Clauses(f.defn)
    BY <2>1, <2>2 DEF Clauses
  <2>4. QED
    BY <2>3, <1>1, <1>2, NodeAssumption
<1>3. CASE f.phase = "post"
  <2>1. f.at \in 1..Len(Post[f.defn]) /\ Post[f.defn] \in Seq(Nodes)
    BY <1>1, <1>3, DefinitionAssumption DEF InClauses, ClauseCount
  <2>2. Clause(f) = Post[f.defn][f.at]
    BY <1>3 DEF Clause
  <2>3. Clause(f) \in Nodes /\ Clause(f) \in Clauses(f.defn)
    BY <2>1, <2>2 DEF Clauses
  <2>4. QED
    BY <2>3, <1>1, <1>3, NodeAssumption
<1>4. CASE f.phase = "guard"
  <2>1. f.at \in 1..Len(Candidates[f.defn]) /\ Candidates[f.defn] \in Seq(CandidateRecords)
    BY <1>1, <1>4, DefinitionAssumption DEF InClauses, ClauseCount
  <2>2. Clause(f) = Candidates[f.defn][f.at].guard
    BY <1>4 DEF Clause
  <2>3. Candidates[f.defn][f.at] \in CandidateRecords
    BY <2>1
  <2>4. Clause(f) \in Nodes \union {NoNode}
    BY <2>2, <2>3 DEF CandidateRecords
  <2>5. Clause(f) # NoNode => Clause(f) \in Guards(f.defn)
    BY <2>1, <2>2 DEF Guards
  <2>6. QED
    BY <2>1, <2>4, <2>5, <1>1, NodeAssumption
<1>5. QED
  BY <1>1, <1>2, <1>3, <1>4 DEF ClausePhases

\* The body that dispatch chooses is a node of the definition.
LEMMA ChosenOK ==
    ASSUME NEW E, NEW f, FrameOK(E, f), f.satisfied # {}
    PROVE  /\ Chosen(f) \in Nat \ {0}
           /\ Candidates[f.defn][Chosen(f)].body \in Nodes
           /\ Owner[Candidates[f.defn][Chosen(f)].body] = f.defn
<1>1. f.defn \in Definitions /\ f.satisfied \in SUBSET (1..Len(Candidates[f.defn]))
  BY DEF FrameOK, Frames
<1>2. Chosen(f) \in 1..Len(Candidates[f.defn])
  BY <1>1, CheapestExists DEF Chosen
<1>3. Candidates[f.defn] \in Seq(CandidateRecords)
  BY <1>1, DefinitionAssumption
<1>4. Candidates[f.defn][Chosen(f)].body \in Nodes
  <2>1. Candidates[f.defn][Chosen(f)] \in CandidateRecords
    BY <1>2, <1>3
  <2>2. QED
    BY <2>1 DEF CandidateRecords
<1>5. Candidates[f.defn][Chosen(f)].body \in Bodies(f.defn)
  BY <1>2 DEF Bodies
<1>6. QED
  BY <1>1, <1>2, <1>3, <1>4, <1>5, NodeAssumption

\* What has to be looked at when a step leaves the begun expressions alone.
LEMMA SameWork ==
    ASSUME NEW E, NEW f, FrameOK(E, f),
           NEW g \in Frames, g.defn = f.defn, g.work = f.work,
           g.satisfied \subseteq 1..Len(Candidates[f.defn]),
           g.phase \in {"post", "return"} => g.result \in Values,
           g.focus # NoNode => Owner[g.focus] = f.defn
    PROVE  FrameOK(E, g)
  BY DEF FrameOK

\* Every step of the clauses keeps the invariant.
LEMMA ClausewiseOK ==
    ASSUME Inv, Clausewise
    PROVE  Inv'
<1> DEFINE f == Top
<1>0. stack # <<>>
  BY DEF Clausewise, Running, BindParameters, ArgumentRefused, BeginClause, ClauseHolds,
         ClauseFails, GuardFails, NoGuard, PreconditionsHold, Dispatch, DispatchFails,
         BodyEnds, PostconditionsHold
<1>f. FrameOK(declared, f) /\ f \in Frames /\ f.defn \in Definitions
  BY <1>0, TopOK DEF FrameOK, Frames
<1>p. f.at \in Nat \ {0} /\ NextClause(f) \in Nat \ {0} /\ 1 \in Nat \ {0} /\ f.at \in Nat
  BY <1>f DEF Frames, NextClause
<1>1. CASE BindParameters
  <2> DEFINE ps == Params[f.defn]
             env == [x \in Names |->
                       IF \E i \in 1..Len(ps) : ps[i] = x
                       THEN Argument(f, CHOOSE i \in 1..Len(ps) : ps[i] = x)
                       ELSE Unbound]
             g == [f EXCEPT !.phase = "pre", !.locals = env]
  <2>1. Become(g)
    BY <1>1 DEF BindParameters
  <2>2. ps \in Seq(Names) /\ f.args \in Seq(Values)
    BY <1>f, DefinitionAssumption DEF Frames
  <2>3. \A i \in 1..Len(ps) : Argument(f, i) \in Values
    BY <2>2, ValueAssumption DEF Argument, Values
  <2>4. env \in Locals
    <3> SUFFICES ASSUME NEW x \in Names
                 PROVE  env[x] \in Values \union {Unbound}
      BY DEF Locals
    <3>1. QED
      BY <2>3
  <2> HIDE DEF env, ps
  <2>5. FrameOK(declared, g) /\ g.defn = f.defn
    <3>1. g \in Frames
      BY <2>4, <1>f DEF Frames, Phases, ClausePhases
    <3>2. /\ g.defn = f.defn /\ g.work = f.work
          /\ g.satisfied \subseteq 1..Len(Candidates[f.defn])
          /\ g.phase \in {"post", "return"} => g.result \in Values
          /\ g.focus # NoNode => Owner[g.focus] = f.defn
      BY <2>4, <1>f DEF FrameOK, Frames, Phases, ClausePhases
    <3> HIDE DEF g
    <3>3. QED
      BY <1>f, <3>1, <3>2, SameWork
  <2>6. QED
    BY <2>1, <2>5, <1>0, BecomeOK
<1>2. CASE BeginClause
  <2> DEFINE env == IF f.phase = "post" THEN [f.locals EXCEPT !["result"] = f.result]
                                        ELSE f.locals
             g == [f EXCEPT !.focus = Clause(f), !.locals = env]
  <2>1. Become(g) /\ InClauses(f) /\ Clause(f) # NoNode
    BY <1>2 DEF BeginClause
  <2>2. Clause(f) \in Nodes /\ Owner[Clause(f)] = f.defn
    BY <2>1, <1>f, ClauseOK
  <2>3. f.locals \in Locals /\ (f.phase = "post" => f.result \in Values)
    BY <1>f DEF FrameOK, Frames
  <2>4. env \in Locals
    BY <2>3 DEF Locals
  <2> HIDE DEF env
  <2>5. FrameOK(declared, g) /\ g.defn = f.defn
    <3>1. g \in Frames
      BY <2>2, <2>4, <1>f DEF Frames
    <3>2. /\ g.defn = f.defn /\ g.work = f.work
          /\ g.satisfied \subseteq 1..Len(Candidates[f.defn])
          /\ g.phase \in {"post", "return"} => g.result \in Values
          /\ g.focus # NoNode => Owner[g.focus] = f.defn
      BY <2>2, <2>4, <1>f DEF FrameOK, Frames
    <3> HIDE DEF g
    <3>3. QED
      BY <1>f, <3>1, <3>2, SameWork
  <2>6. QED
    BY <2>1, <2>5, <1>0, BecomeOK
<1>3. CASE ClauseHolds
  <2> DEFINE g == [f EXCEPT
                     !.given = NoValue, !.at = NextClause(f), !.held = @ \union {Clause(f)},
                     !.satisfied = IF f.phase = "guard" THEN @ \union {f.at} ELSE @]
  <2>1. Become(g) /\ InClauses(f)
    BY <1>3 DEF ClauseHolds
  <2>2. /\ Clause(f) \in Nodes \union {NoNode}
        /\ f.phase = "guard" => f.at \in 1..Len(Candidates[f.defn])
    BY <2>1, <1>f, ClauseOK
  <2>3. FrameOK(declared, g) /\ g.defn = f.defn
    <3>1. g \in Frames
      BY <2>2, <1>f, <1>p DEF Frames
    <3>2. /\ g.defn = f.defn /\ g.work = f.work
          /\ g.satisfied \subseteq 1..Len(Candidates[f.defn])
          /\ g.phase \in {"post", "return"} => g.result \in Values
          /\ g.focus # NoNode => Owner[g.focus] = f.defn
      BY <2>2, <1>f DEF FrameOK, Frames
    <3> HIDE DEF g
    <3>3. QED
      BY <1>f, <3>1, <3>2, SameWork
  <2>4. QED
    BY <2>1, <2>3, <1>0, BecomeOK
<1>4. CASE GuardFails
  <2> DEFINE g == [f EXCEPT
                     !.given = NoValue, !.at = NextClause(f), !.failed = @ \union {Clause(f)}]
  <2>1. Become(g) /\ InClauses(f)
    BY <1>4 DEF GuardFails
  <2>2. Clause(f) \in Nodes \union {NoNode}
    BY <2>1, <1>f, ClauseOK
  <2>3. FrameOK(declared, g) /\ g.defn = f.defn
    <3>1. g \in Frames
      BY <2>2, <1>f, <1>p DEF Frames
    <3>2. /\ g.defn = f.defn /\ g.work = f.work
          /\ g.satisfied \subseteq 1..Len(Candidates[f.defn])
          /\ g.phase \in {"post", "return"} => g.result \in Values
          /\ g.focus # NoNode => Owner[g.focus] = f.defn
      BY <2>2, <1>f DEF FrameOK, Frames
    <3> HIDE DEF g
    <3>3. QED
      BY <1>f, <3>1, <3>2, SameWork
  <2>4. QED
    BY <2>1, <2>3, <1>0, BecomeOK
<1>5. CASE NoGuard
  <2> DEFINE g == [f EXCEPT !.at = NextClause(f), !.satisfied = @ \union {f.at}]
  <2>1. Become(g) /\ InClauses(f) /\ Clause(f) = NoNode
    BY <1>5 DEF NoGuard
  <2>2. f.at \in 1..Len(Candidates[f.defn])
    BY <2>1, <1>f, ClauseOK
  <2>3. FrameOK(declared, g) /\ g.defn = f.defn
    <3>1. g \in Frames
      BY <2>2, <1>f, <1>p DEF Frames
    <3>2. /\ g.defn = f.defn /\ g.work = f.work
          /\ g.satisfied \subseteq 1..Len(Candidates[f.defn])
          /\ g.phase \in {"post", "return"} => g.result \in Values
          /\ g.focus # NoNode => Owner[g.focus] = f.defn
      BY <2>2, <1>f DEF FrameOK, Frames
    <3> HIDE DEF g
    <3>3. QED
      BY <1>f, <3>1, <3>2, SameWork
  <2>4. QED
    BY <2>1, <2>3, <1>0, BecomeOK
<1>6. CASE PreconditionsHold
  <2> DEFINE g == [f EXCEPT !.phase = "guard", !.at = 1]
  <2>1. Become(g)
    BY <1>6 DEF PreconditionsHold
  <2>2. FrameOK(declared, g) /\ g.defn = f.defn
    <3>1. g \in Frames
      BY <1>f, <1>p DEF Frames, Phases, ClausePhases
    <3>2. /\ g.defn = f.defn /\ g.work = f.work
          /\ g.satisfied \subseteq 1..Len(Candidates[f.defn])
          /\ g.phase \in {"post", "return"} => g.result \in Values
          /\ g.focus # NoNode => Owner[g.focus] = f.defn
      BY <1>f DEF FrameOK, Frames, Phases, ClausePhases
    <3> HIDE DEF g
    <3>3. QED
      BY <1>f, <3>1, <3>2, SameWork
  <2>3. QED
    BY <2>1, <2>2, <1>0, BecomeOK
<1>7. CASE Dispatch
  <2> DEFINE g == [f EXCEPT !.phase = "body", !.at = Chosen(f),
                            !.focus = Candidates[f.defn][Chosen(f)].body]
  <2>1. Become(g) /\ f.satisfied # {}
    BY <1>7 DEF Dispatch
  <2>2. /\ Chosen(f) \in Nat \ {0}
        /\ Candidates[f.defn][Chosen(f)].body \in Nodes
        /\ Owner[Candidates[f.defn][Chosen(f)].body] = f.defn
    BY <2>1, <1>f, ChosenOK
  <2>3. FrameOK(declared, g) /\ g.defn = f.defn
    <3>1. g \in Frames
      BY <2>2, <1>f DEF Frames, Phases
    <3>2. /\ g.defn = f.defn /\ g.work = f.work
          /\ g.satisfied \subseteq 1..Len(Candidates[f.defn])
          /\ g.phase \in {"post", "return"} => g.result \in Values
          /\ g.focus # NoNode => Owner[g.focus] = f.defn
      BY <2>2, <1>f DEF FrameOK, Frames, Phases
    <3> HIDE DEF g
    <3>3. QED
      BY <1>f, <3>1, <3>2, SameWork
  <2>4. QED
    BY <2>1, <2>3, <1>0, BecomeOK
<1>8. CASE BodyEnds
  <2> DEFINE next == IF f.given = Bottom THEN "return" ELSE "post"
             g == [f EXCEPT !.phase = next, !.at = 1, !.given = NoValue, !.result = f.given]
  <2>1. Become(g) /\ f.given # NoValue
    BY <1>8 DEF BodyEnds, Settled
  <2>2. f.given \in Values /\ next \in Phases
    BY <2>1, <1>f DEF Frames, Phases, ClausePhases
  <2> HIDE DEF next
  <2>3. FrameOK(declared, g) /\ g.defn = f.defn
    <3>1. g \in Frames
      BY <2>2, <1>f, <1>p DEF Frames
    <3>2. /\ g.defn = f.defn /\ g.work = f.work
          /\ g.satisfied \subseteq 1..Len(Candidates[f.defn])
          /\ g.phase \in {"post", "return"} => g.result \in Values
          /\ g.focus # NoNode => Owner[g.focus] = f.defn
      BY <2>2, <1>f DEF FrameOK, Frames
    <3> HIDE DEF g
    <3>3. QED
      BY <1>f, <3>1, <3>2, SameWork
  <2>4. QED
    BY <2>1, <2>3, <1>0, BecomeOK
<1>9. CASE PostconditionsHold
  <2> DEFINE g == [f EXCEPT !.phase = "return", !.at = 1]
  <2>1. Become(g) /\ f.phase = "post"
    BY <1>9 DEF PostconditionsHold
  <2>2. FrameOK(declared, g) /\ g.defn = f.defn
    <3>1. g \in Frames
      BY <2>1, <1>f, <1>p DEF Frames, Phases
    <3>2. /\ g.defn = f.defn /\ g.work = f.work
          /\ g.satisfied \subseteq 1..Len(Candidates[f.defn])
          /\ g.phase \in {"post", "return"} => g.result \in Values
          /\ g.focus # NoNode => Owner[g.focus] = f.defn
      BY <2>1, <1>f DEF FrameOK, Frames, Phases
    <3> HIDE DEF g
    <3>3. QED
      BY <1>f, <3>1, <3>2, SameWork
  <2>3. QED
    BY <2>1, <2>2, <1>0, BecomeOK
<1>10. CASE ArgumentRefused \/ ClauseFails \/ DispatchFails
  BY <1>10, RaiseOK DEF ArgumentRefused, ClauseFails, DispatchFails, Errors
<1>11. QED
  BY <1>1, <1>2, <1>3, <1>4, <1>5, <1>6, <1>7, <1>8, <1>9, <1>10 DEF Clausewise

-----------------------------------------------------------------------------
(***************************************************************************)
(* Expressions.                                                            *)
(***************************************************************************)

\* The next part of a begun expression is a node of the same definition.
LEMMA NextPartOK ==
    ASSUME NEW w \in Begun, NextPart(w) # NoNode
    PROVE  NextPart(w) \in Nodes /\ Owner[NextPart(w)] = Owner[w.node]
<1> DEFINE parts == Node[w.node].parts
<1>1. w.node \in Nodes /\ w.done \in Seq(Values)
  BY DEF Begun
<1>2. parts \in Seq(Nodes) /\ (Node[w.node].kind = "conditional" => Len(parts) = 3)
  BY <1>1, NodeOK
<1>3. \E i \in 1..Len(parts) : NextPart(w) = parts[i]
  BY <1>1, <1>2 DEF NextPart
<1>4. QED
  BY <1>1, <1>2, <1>3, NodeAssumption

\* The innermost expression of a frame that has begun one.
LEMMA InnermostOK ==
    ASSUME NEW E, NEW f, FrameOK(E, f), f.work # <<>>
    PROVE  /\ Head(f.work) \in Begun /\ Head(f.work) = f.work[1]
           /\ Owner[Head(f.work).node] = f.defn
           /\ EffectsOf(Head(f.work).node) \subseteq E[f.defn]
           /\ Head(f.work).node \in Nodes /\ Done(f) \in Seq(Values)
<1>1. f.work \in Seq(Begun)
  BY DEF FrameOK, Frames
<1>2. Head(f.work) \in Begun /\ Head(f.work) = f.work[1] /\ 1 \in 1..Len(f.work)
  BY <1>1, PoppedStack
<1>3. QED
  BY <1>2 DEF FrameOK, Begun, Done

\* The last value of an expression that is finished.
LEMMA LastDoneOK ==
    ASSUME NEW E, NEW f, FrameOK(E, f), Ready(f),
           Inner(f).kind \in {"sequence", "conditional", "binding"}
    PROVE  Done(f)[Len(Done(f))] \in Values
<1> DEFINE w == Head(f.work)
<1>1. w \in Begun /\ w.node \in Nodes /\ w.done \in Seq(Values) /\ NextPart(w) = NoNode
  BY InnermostOK DEF Ready, Done
<1>2. /\ Node[w.node].parts \in Seq(Nodes)
      /\ Node[w.node].kind = "binding" => Len(Node[w.node].parts) = 2
      /\ Node[w.node].kind = "conditional" => Len(Node[w.node].parts) = 3
      /\ Node[w.node].kind = "sequence" => Len(Node[w.node].parts) > 0
  BY <1>1, NodeOK
<1>3. \A i \in 1..Len(Node[w.node].parts) : Node[w.node].parts[i] # NoNode
  BY <1>1, <1>2, NodeAssumption
<1>4. Node[w.node].kind \in {"sequence", "conditional", "binding"}
  BY DEF Inner
<1> HIDE DEF w
<1>5. Len(w.done) \in Nat /\ Len(w.done) > 0
  <2>1. CASE Node[w.node].kind = "conditional"
    BY <1>1, <1>2, <1>3, <2>1 DEF NextPart
  <2>2. CASE Node[w.node].kind # "conditional"
    BY <1>1, <1>2, <1>3, <1>4, <2>2 DEF NextPart
  <2>3. QED
    BY <2>1, <2>2
<1>6. w.done[Len(w.done)] \in Values
  BY <1>1, <1>5
<1>7. QED
  BY <1>6 DEF Done, w

\* Every step of an expression keeps the invariant.
LEMMA EvaluationOK ==
    ASSUME Inv, Evaluation
    PROVE  Inv'
<1> DEFINE f == Top
<1>0. stack # <<>>
  BY DEF Evaluation, Running, Evaluating, Finishing, EvalLiteral, EvalRefusal, EvalReference,
         ReferenceUnbound, Begin, CallableUnknown, EffectRefused, EvalPart, FinishLast,
         FinishWithData, FieldMissing
<1>f. FrameOK(declared, f) /\ f \in Frames /\ f.defn \in Definitions
  BY <1>0, TopOK DEF FrameOK, Frames
<1>1. CASE EvalLiteral
  <2>1. f.focus \in Nodes
    BY <1>1, <1>f DEF EvalLiteral, Evaluating, Frames
  <2>2. Node[f.focus].value \in Values
    BY <2>1, NodeOK DEF Values
  <2>3. QED
    BY <1>1, <2>2, <1>0, <1>f, GiveOK, BecomeOK DEF EvalLiteral
<1>2. CASE EvalRefusal
  BY <1>2, <1>0, <1>f, GiveOK, BecomeOK DEF EvalRefusal, Values
<1>3. CASE EvalReference
  <2> DEFINE v == f.locals[Node[f.focus].name]
  <2>1. f.focus \in Nodes /\ v # Unbound /\ Become(Give(f, v))
    BY <1>3, <1>f DEF EvalReference, Evaluating, Frames
  <2>2. Node[f.focus].name \in Names /\ f.locals \in Locals
    BY <2>1, <1>f, NodeOK DEF Frames
  <2>3. v \in Values
    BY <2>1, <2>2 DEF Locals
  <2> HIDE DEF v
  <2>4. QED
    BY <2>1, <2>3, <1>0, <1>f, GiveOK, BecomeOK
<1>4. CASE Begin
  <2> DEFINE n == f.focus
             w == [node |-> n, done |-> <<>>, outer |-> f.locals]
             ws == <<w>> \o f.work
             g == [f EXCEPT !.focus = NoNode, !.work = ws]
  <2>1. /\ Become(g) /\ n \in Nodes /\ Owner[n] = f.defn
        /\ EffectsOf(n) \subseteq declared[f.defn]
    BY <1>4, <1>f DEF Begin, Evaluating, FrameOK, Frames, Budget
  <2>2. w \in Begun /\ w.node = n
    BY <2>1, <1>f DEF Begun, Frames
  <2>3. f.work \in Seq(Begun)
    BY <1>f DEF Frames
  <2> HIDE DEF w
  <2>4. /\ ws \in Seq(Begun) /\ Len(ws) = Len(f.work) + 1 /\ ws[1] = w
        /\ \A i \in 1..Len(f.work) : ws[i + 1] = f.work[i]
    BY <2>2, <2>3, PushedStack
  <2>5. \A i \in 1..Len(ws) :
          Owner[ws[i].node] = f.defn /\ EffectsOf(ws[i].node) \subseteq declared[f.defn]
    <3> HIDE DEF ws, n
    <3> SUFFICES ASSUME NEW i \in 1..Len(ws)
                 PROVE  /\ Owner[ws[i].node] = f.defn
                        /\ EffectsOf(ws[i].node) \subseteq declared[f.defn]
      OBVIOUS
    <3>1. CASE i = 1
      BY <3>1, <2>1, <2>2, <2>4
    <3>2. CASE i # 1
      <4>1. i - 1 \in 1..Len(f.work) /\ (i - 1) + 1 = i
        BY <3>2, <2>3, <2>4
      <4>2. ws[i] = f.work[i - 1]
        BY <4>1, <2>4
      <4>3. QED
        BY <4>1, <4>2, <1>f DEF FrameOK
    <3>3. QED
      BY <3>1, <3>2
  <2> HIDE DEF ws
  <2>6. FrameOK(declared, g) /\ g.defn = f.defn
    <3>1. g \in Frames
      BY <2>4, <1>f DEF Frames
    <3>2. /\ g.defn = f.defn /\ g.work = ws /\ g.focus = NoNode
          /\ g.satisfied = f.satisfied /\ g.phase = f.phase /\ g.result = f.result
      BY <1>f DEF Frames
    <3> HIDE DEF g
    <3>3. QED
      BY <1>f, <2>5, <3>1, <3>2 DEF FrameOK
  <2>7. QED
    BY <2>1, <2>6, <1>0, BecomeOK
<1>5. CASE EvalPart
  <2> DEFINE w == Head(f.work)
             env == IF Node[w.node].kind = "binding" /\ Len(w.done) = 1
                    THEN [f.locals EXCEPT ![Node[w.node].name] = w.done[1]]
                    ELSE f.locals
             g == [f EXCEPT !.focus = NextPart(w), !.locals = env]
  <2>1. Become(g) /\ f.work # <<>> /\ NextPart(w) # NoNode
    BY <1>5 DEF EvalPart
  <2>2. /\ w \in Begun /\ Owner[w.node] = f.defn /\ w.node \in Nodes
        /\ w.done \in Seq(Values)
    BY <2>1, <1>f, InnermostOK DEF Done
  <2>3. NextPart(w) \in Nodes /\ Owner[NextPart(w)] = f.defn
    BY <2>1, <2>2, NextPartOK
  <2>4. env \in Locals
    <3>1. f.locals \in Locals /\ Node[w.node].name \in Names
      BY <2>2, <1>f, NodeOK DEF Frames
    <3>2. Len(w.done) = 1 => w.done[1] \in Values
      BY <2>2
    <3> HIDE DEF w
    <3>3. QED
      BY <3>1, <3>2 DEF Locals
  <2> HIDE DEF w, env
  <2>5. FrameOK(declared, g) /\ g.defn = f.defn
    <3>1. g \in Frames
      BY <2>3, <2>4, <1>f DEF Frames
    <3>2. /\ g.defn = f.defn /\ g.work = f.work /\ g.focus = NextPart(w)
          /\ g.satisfied = f.satisfied /\ g.phase = f.phase /\ g.result = f.result
      BY <1>f DEF Frames
    <3> HIDE DEF g
    <3>3. QED
      BY <1>f, <2>3, <3>1, <3>2 DEF FrameOK
  <2>6. QED
    BY <2>1, <2>5, <1>0, BecomeOK
<1>6. CASE FinishLast
  <2>1. /\ Ready(f) /\ Inner(f).kind \in {"sequence", "conditional", "binding"}
        /\ Become(Finish(f, Done(f)[Len(Done(f))])) /\ f.work # <<>>
    BY <1>6 DEF FinishLast, Finishing, Ready
  <2>2. Done(f)[Len(Done(f))] \in Values
    BY <2>1, <1>f, LastDoneOK
  <2>3. QED
    BY <2>1, <2>2, <1>0, <1>f, FinishOK, BecomeOK
<1>7. CASE FinishWithData
  <2>1. PICK v \in Scalars : Become(Finish(f, v)) /\ f.work # <<>>
    BY <1>7 DEF FinishWithData, Finishing, Ready
  <2>2. QED
    BY <2>1, <1>0, <1>f, FinishOK, BecomeOK DEF Values
<1>8. CASE ReferenceUnbound \/ CallableUnknown \/ EffectRefused \/ FieldMissing
  BY <1>8, RaiseOK DEF ReferenceUnbound, CallableUnknown, EffectRefused, FieldMissing, Errors
<1>9. QED
  BY <1>1, <1>2, <1>3, <1>4, <1>5, <1>6, <1>7, <1>8 DEF Evaluation

-----------------------------------------------------------------------------
(***************************************************************************)
(* Calls and returns.                                                      *)
(***************************************************************************)

\* The memo and the histories of the next state have their types.
RecordsOK ==
    /\ DOMAIN memo \subseteq Keys /\ \A k \in DOMAIN memo : memo[k] \in Values
    /\ raised \in Errors \union {NoError}
    /\ outcome \in Values \union Errors \union {NoError}
    /\ computed \subseteq Definitions \X Seq(Values) \X Values

\* A new frame on top of a frame that waits for it keeps the invariant.
LEMMA PushOK ==
    ASSUME Inv, loaded, NEW d \in Definitions, d \in Local \union Imported,
           NEW vs \in Seq(Values), depth < MaxDepth,
           stack # <<>> => Top.focus = NoNode /\ Top.work # <<>>,
           stack # <<>> /\ ImportsDeclare => declared[d] \subseteq declared[Top.defn],
           Push(d, vs, stack), UNCHANGED <<declared, loaded>>, RecordsOK'
    PROVE  Inv'
<1> DEFINE g == NewFrame(d, vs)
<1>1. FrameOK(declared, g) /\ g.defn = d
  <2>1. [x \in Names |-> Unbound] \in Locals
    BY DEF Locals
  <2>2. g \in Frames
    BY <2>1 DEF Frames, NewFrame, Phases, ClausePhases
  <2>3. QED
    BY <2>2 DEF FrameOK, NewFrame
<1>2. stack \in Seq(Frames) /\ g \in Frames
  BY <1>1 DEF Inv, TypeOK, FrameOK
<1>3. stack' = <<g>> \o stack /\ depth' = depth + 1 /\ chain' = <<NameOf[d]>> \o chain
  BY DEF Push
<1> HIDE DEF g
<1>4. /\ stack' \in Seq(Frames) /\ stack' # <<>> /\ Len(stack') = Len(stack) + 1
      /\ stack'[1] = g /\ \A i \in 1..Len(stack) : stack'[i + 1] = stack[i]
  BY <1>2, <1>3, PushedStack
<1>5. \A i \in 2..Len(stack') : i - 1 \in 1..Len(stack) /\ stack'[i] = stack[i - 1]
  <2> SUFFICES ASSUME NEW i \in 2..Len(stack')
               PROVE  i - 1 \in 1..Len(stack) /\ stack'[i] = stack[i - 1]
    OBVIOUS
  <2>1. i - 1 \in 1..Len(stack) /\ (i - 1) + 1 = i
    BY <1>2, <1>4
  <2>2. QED
    BY <2>1, <1>4
<1>6. chain \in Seq(Names) /\ NameOf[d] \in Names /\ Len(chain) = Len(stack)
  BY DefinitionAssumption DEF Inv, TypeOK, StackDiscipline
<1>7. /\ chain' \in Seq(Names) /\ Len(chain') = Len(chain) + 1
      /\ chain'[1] = NameOf[d] /\ \A i \in 1..Len(chain) : chain'[i + 1] = chain[i]
  BY <1>3, <1>6, PushedStack
<1>8. \A i \in 2..Len(stack') : chain'[i] = chain[i - 1]
  <2> SUFFICES ASSUME NEW i \in 2..Len(stack')
               PROVE  chain'[i] = chain[i - 1]
    OBVIOUS
  <2>1. i - 1 \in 1..Len(chain) /\ (i - 1) + 1 = i
    BY <1>5, <1>6
  <2>2. QED
    BY <2>1, <1>7
<1>9. TypeOK'
  BY <1>3, <1>4, <1>7 DEF Inv, TypeOK, RecordsOK
<1>10. StackDiscipline'
  <2>1. depth' = Len(stack') /\ depth' <= MaxDepth /\ Len(chain') = Len(stack')
    BY <1>2, <1>3, <1>4, <1>6, <1>7, InterpreterAssumption DEF Inv, StackDiscipline, TypeOK
  <2>2. ASSUME NEW i \in 1..Len(stack')
        PROVE  chain'[i] = NameOf[stack'[i].defn]
    <3>1. CASE i = 1
      BY <3>1, <1>1, <1>4, <1>7
    <3>2. CASE i # 1
      <4>1. i \in 2..Len(stack')
        BY <3>2, <1>4
      <4>2. QED
        BY <4>1, <1>5, <1>8 DEF Inv, StackDiscipline
    <3>3. QED
      BY <3>1, <3>2
  <2>3. QED
    BY <2>1, <2>2 DEF StackDiscipline
<1>11. FramesOK'
  <2> SUFFICES ASSUME NEW i \in 1..Len(stack')
               PROVE  FrameOK(declared', stack'[i])
    BY DEF FramesOK
  <2>1. CASE i = 1
    BY <2>1, <1>1, <1>4
  <2>2. CASE i # 1
    <3>1. i \in 2..Len(stack')
      BY <2>2, <1>4
    <3>2. QED
      BY <3>1, <1>5 DEF Inv, FramesOK
  <2>3. QED
    BY <2>1, <2>2
<1>12. Waiting'
  <2> SUFFICES ASSUME NEW i \in 2..Len(stack')
               PROVE  stack'[i].focus = NoNode /\ stack'[i].work # <<>>
    BY DEF Waiting
  <2>1. CASE i = 2
    <3>1. stack # <<>>
      BY <2>1, <1>2, <1>5
    <3>2. QED
      BY <2>1, <3>1, <1>5, TopOK
  <2>2. CASE i # 2
    BY <2>2, <1>2, <1>4, <1>5 DEF Inv, Waiting
  <2>3. QED
    BY <2>1, <2>2
<1>13. Loaded'
  BY DEF Inv, Loaded, EffectsDeclared
<1>14. EffectsShrink'
  <2> SUFFICES ASSUME ImportsDeclare, NEW i \in 1..Len(stack'), NEW j \in 1..Len(stack'), i <= j
               PROVE  declared[stack'[i].defn] \subseteq declared[stack'[j].defn]
    BY DEF EffectsShrink, ImportsDeclare
  <2>1. CASE j = 1
    BY <2>1
  <2>2. CASE j # 1 /\ i = 1
    <3>1. j \in 2..Len(stack') /\ stack # <<>>
      BY <2>2, <1>2, <1>4
    <3>2. stack'[j] = stack[j - 1] /\ j - 1 \in 1..Len(stack) /\ 1 \in 1..Len(stack)
      BY <3>1, <1>2, <1>5, TopOK
    <3>3. declared[stack[1].defn] \subseteq declared[stack[j - 1].defn]
      BY <3>2 DEF Inv, EffectsShrink
    <3>4. declared[d] \subseteq declared[stack[1].defn]
      BY <3>1, TopOK
    <3>5. QED
      BY <2>2, <3>2, <3>3, <3>4, <1>1, <1>4
  <2>3. CASE j # 1 /\ i # 1
    <3>1. i \in 2..Len(stack') /\ j \in 2..Len(stack') /\ i - 1 <= j - 1
      BY <2>3, <1>4
    <3>2. QED
      BY <3>1, <1>5 DEF Inv, EffectsShrink
  <2>4. QED
    BY <2>1, <2>2, <2>3
<1>15. QED
  BY <1>9, <1>10, <1>11, <1>12, <1>13, <1>14 DEF Inv

\* The end of the innermost call, whatever its caller becomes.
LEMMA PopOK ==
    ASSUME Inv, stack # <<>>, NEW below \in Seq(Frames), Len(below) = Len(stack) - 1,
           \A i \in 1..Len(below) :
               FrameOK(declared, below[i]) /\ below[i].defn = stack[i + 1].defn,
           \A i \in 2..Len(below) : below[i] = stack[i + 1],
           Pop(below), UNCHANGED <<declared, loaded>>, RecordsOK'
    PROVE  Inv'
<1>1. /\ stack' = below /\ depth' = depth - 1 /\ chain' = Tail(chain)
      /\ declared' = declared /\ loaded' = loaded
  BY DEF Pop
<1>2. /\ Len(stack) \in Nat \ {0} /\ Len(below) \in Nat
      /\ \A i \in 1..Len(below) : i + 1 \in 1..Len(stack)
      /\ \A i \in 2..Len(below) : i + 1 \in 2..Len(stack)
  BY TopOK
<1>3. chain \in Seq(Names) /\ Len(chain) = Len(stack) /\ chain # <<>>
  BY <1>2 DEF Inv, TypeOK, StackDiscipline
<1>4. /\ Tail(chain) \in Seq(Names) /\ Len(Tail(chain)) = Len(chain) - 1
      /\ \A i \in 1..Len(Tail(chain)) : Tail(chain)[i] = chain[i + 1]
  BY <1>3, PoppedStack
<1>5. depth' = Len(below) /\ depth' \in Nat /\ depth' <= MaxDepth
  BY <1>1, <1>2, InterpreterAssumption DEF Inv, StackDiscipline
<1>6. TypeOK'
  BY <1>1, <1>4, <1>5 DEF Inv, TypeOK, RecordsOK
<1>7. StackDiscipline'
  <2>1. \A i \in 1..Len(below) : Tail(chain)[i] = NameOf[below[i].defn]
    <3> SUFFICES ASSUME NEW i \in 1..Len(below)
                 PROVE  Tail(chain)[i] = NameOf[below[i].defn]
      OBVIOUS
    <3>1. Tail(chain)[i] = chain[i + 1]
      BY <1>3, <1>4
    <3>2. chain[i + 1] = NameOf[stack[i + 1].defn]
      BY <1>2 DEF Inv, StackDiscipline
    <3>3. QED
      BY <3>1, <3>2
  <2>2. QED
    BY <2>1, <1>1, <1>3, <1>4, <1>5 DEF StackDiscipline
<1>8. FramesOK'
  BY <1>1 DEF FramesOK
<1>9. Waiting'
  BY <1>1, <1>2 DEF Inv, Waiting
<1>10. Loaded'
  BY <1>1 DEF Inv, Loaded, EffectsDeclared
<1>11. EffectsShrink'
  <2> SUFFICES ASSUME ImportsDeclare, NEW i \in 1..Len(below), NEW j \in 1..Len(below), i <= j
               PROVE  declared[below[i].defn] \subseteq declared[below[j].defn]
    BY <1>1 DEF EffectsShrink, ImportsDeclare
  <2>1. i + 1 \in 1..Len(stack) /\ j + 1 \in 1..Len(stack) /\ i + 1 <= j + 1
    BY <1>2
  <2>2. QED
    BY <2>1 DEF Inv, EffectsShrink
<1>12. QED
  BY <1>6, <1>7, <1>8, <1>9, <1>10, <1>11 DEF Inv

\* The definition a call resolves to, and what the check before the run said of it.
LEMMA CalleeOK ==
    ASSUME Inv, FinishingDefinition
    PROVE  /\ Callee \in Definitions /\ Callee \in Local \union Imported
           /\ ImportsDeclare => declared[Callee] \subseteq declared[Top.defn]
<1> DEFINE n == Head(Top.work).node
<1>1. /\ stack # <<>> /\ Top.work # <<>> /\ Node[n].kind = "call" /\ IsDefinition(Node[n].name)
  BY DEF FinishingDefinition, Finishing, Running, Ready, Inner
<1>2. n \in Nodes /\ Owner[n] = Top.defn /\ Top.defn \in Local \union Imported
  BY <1>1, TopOK, InnermostOK DEF FrameOK
<1>3. Callee = Lookup(Node[n].name)
  BY DEF Callee, Inner
<1> HIDE DEF n
<1>4. Callee \in Definitions /\ Callee \in Local \union Imported
  BY <1>1, <1>3, NameAssumption DEF IsDefinition, Lookup, Local, Imported
<1>5. Callee \in Callees(Top.defn)
  BY <1>1, <1>2, <1>3 DEF Callees, AllExprsOf
<1>6. EffectsDeclared
  BY <1>1 DEF Inv, Loaded
<1>7. QED
  BY <1>2, <1>4, <1>5, <1>6 DEF EffectsDeclared, ImportsDeclare

\* A key of the memo is one.
LEMMA KeyOK ==
    ASSUME NEW d \in Definitions, NEW vs \in Seq(Values)
    PROVE  Key(d, vs) \in Keys
<1> DEFINE codes == {KeyOf[x] : x \in Scalars} \union {Bottom}
           code == [i \in 1..Len(vs) |-> IF vs[i] \in Scalars THEN KeyOf[vs[i]] ELSE Bottom]
<1>1. Len(vs) \in Nat
  OBVIOUS
<1>2. \A i \in 1..Len(vs) : code[i] \in codes
  OBVIOUS
<1> HIDE DEF codes
<1>3. code \in Seq(codes)
  BY <1>1, <1>2
<1>4. NameOf[d] \in Names
  BY DefinitionAssumption
<1> HIDE DEF code
<1>5. <<NameOf[d], code>> \in Names \X Seq(codes)
  BY <1>3, <1>4
<1>6. QED
  BY <1>5 DEF Key, Keys, code, codes

\* Every step of a primitive, and every call, keeps the invariant.
LEMMA CallingOK ==
    ASSUME Inv, Calling
    PROVE  Inv'
<1> DEFINE f == Top
<1>0. stack # <<>> /\ f.work # <<>> /\ f.focus = NoNode
  BY DEF Calling, FinishPrimitive, FinishIsBottom, BottomReachesPrimitive, PrimitiveFails,
         AnswerFromMemo, Call, RecursionLimit, FinishingPrimitive, FinishingDefinition,
         Finishing, Running, Ready
<1>f. FrameOK(declared, f) /\ f \in Frames /\ Done(f) \in Seq(Values)
  BY <1>0, TopOK, InnermostOK DEF FrameOK
<1>1. CASE FinishPrimitive
  <2>1. PICK v \in PrimitiveResults(Done(f)) : Become(Finish(f, v))
    BY <1>1 DEF FinishPrimitive
  <2>2. v \in Values
    BY DEF PrimitiveResults, Values
  <2>3. QED
    BY <2>1, <2>2, <1>0, <1>f, FinishOK, BecomeOK
<1>2. CASE FinishIsBottom
  <2>1. PICK v \in Scalars : Become(Finish(f, v))
    BY <1>2 DEF FinishIsBottom
  <2>2. QED
    BY <2>1, <1>0, <1>f, FinishOK, BecomeOK DEF Values
<1>3. CASE AnswerFromMemo
  <2>1. /\ Key(Callee, Done(f)) \in DOMAIN memo
        /\ Become(Finish(f, memo[Key(Callee, Done(f))]))
    BY <1>3 DEF AnswerFromMemo, Memoized
  <2>2. memo[Key(Callee, Done(f))] \in Values
    BY <2>1 DEF Inv, TypeOK
  <2>3. QED
    BY <2>1, <2>2, <1>0, <1>f, FinishOK, BecomeOK
<1>4. CASE Call
  <2>1. /\ FinishingDefinition /\ depth < MaxDepth /\ Push(Callee, Done(f), stack)
        /\ UNCHANGED <<declared, loaded, memo, raised, outcome, computed>>
    BY <1>4 DEF Call
  <2>2. RecordsOK'
    BY <2>1 DEF Inv, TypeOK, RecordsOK
  <2>3. loaded
    BY <1>0 DEF Inv, Loaded
  <2>4. QED
    BY <2>1, <2>2, <2>3, <1>0, <1>f, CalleeOK, PushOK
<1>5. CASE BottomReachesPrimitive \/ PrimitiveFails \/ RecursionLimit
  BY <1>5, RaiseOK DEF BottomReachesPrimitive, PrimitiveFails, RecursionLimit, Errors
<1>6. QED
  BY <1>1, <1>2, <1>3, <1>4, <1>5 DEF Calling

\* Every way out of a call keeps the invariant.
LEMMA LeavingOK ==
    ASSUME Inv, Leaving
    PROVE  Inv'
<1> DEFINE f == Top
           rest == Tail(stack)
<1>0. stack # <<>>
  BY DEF Leaving, Return, ReturnToHost, RefusalUnhandled, ResultRefused, Unwind, Running
<1>f. FrameOK(declared, f) /\ f \in Frames
  BY <1>0, TopOK DEF FrameOK
<1>r. /\ rest \in Seq(Frames) /\ Len(rest) = Len(stack) - 1 /\ Len(stack) \in Nat \ {0}
      /\ \A i \in 1..Len(rest) : rest[i] = stack[i + 1] /\ i + 1 \in 2..Len(stack)
  BY <1>0, TopOK
<1>w. \A i \in 1..Len(rest) : FrameOK(declared, rest[i]) /\ rest[i].work # <<>>
  BY <1>r DEF Inv, FramesOK, Waiting
<1>1. CASE Return
  <2> DEFINE g == Finish(Head(rest), f.result)
             below == <<g>> \o Tail(rest)
  <2>1. f.phase = "return" /\ rest # <<>> /\ Pop(below) /\ UNCHANGED <<declared, loaded>>
    BY <1>1 DEF Return
  <2>2. f.result \in Values /\ f.args \in Seq(Values) /\ f.defn \in Definitions
    BY <2>1, <1>f DEF FrameOK, Frames
  <2>3. /\ Head(rest) = rest[1] /\ Len(rest) \in Nat \ {0}
        /\ Tail(rest) \in Seq(Frames) /\ Len(Tail(rest)) = Len(rest) - 1
        /\ \A i \in 1..Len(Tail(rest)) : Tail(rest)[i] = rest[i + 1]
    BY <2>1, <1>r, PoppedStack
  <2>4. FrameOK(declared, g) /\ g.defn = rest[1].defn
    <3> HIDE DEF rest
    <3>1. 1 \in 1..Len(rest)
      BY <2>3
    <3>2. FrameOK(declared, rest[1]) /\ rest[1].work # <<>>
      BY <3>1, <1>w
    <3>3. FrameOK(declared, Head(rest)) /\ Head(rest).work # <<>>
      BY <2>3, <3>2
    <3>4. QED
      BY <3>3, <2>2, <2>3, FinishOK
  <2> HIDE DEF g
  <2>5. /\ below \in Seq(Frames) /\ Len(below) = Len(rest) /\ below[1] = g
        /\ \A i \in 1..Len(Tail(rest)) : below[i + 1] = Tail(rest)[i]
    BY <2>3, <2>4, PushedStack DEF FrameOK
  <2>6. \A i \in 2..Len(below) : below[i] = rest[i]
    <3> SUFFICES ASSUME NEW i \in 2..Len(below)
                 PROVE  below[i] = rest[i]
      OBVIOUS
    <3>1. i - 1 \in 1..Len(Tail(rest)) /\ (i - 1) + 1 = i
      BY <2>3, <2>5
    <3>2. QED
      BY <3>1, <2>3, <2>5
  <2> HIDE DEF below
  <2>7. \A i \in 1..Len(below) : FrameOK(declared, below[i]) /\ below[i].defn = rest[i].defn
    <3> SUFFICES ASSUME NEW i \in 1..Len(below)
                 PROVE  FrameOK(declared, below[i]) /\ below[i].defn = rest[i].defn
      OBVIOUS
    <3>1. CASE i = 1
      BY <3>1, <2>4, <2>5
    <3>2. CASE i # 1
      BY <3>2, <2>5, <2>6, <1>w
    <3>3. QED
      BY <3>1, <3>2
  <2>8. RecordsOK'
    <3> DEFINE key == Key(f.defn, f.args)
    <3>1. key \in Keys
      BY <2>2, KeyOK
    <3>2. /\ memo' = IF Pure(f.defn)
                     THEN [k \in DOMAIN memo \union {key} |->
                              IF k = key THEN f.result ELSE memo[k]]
                     ELSE memo
          /\ computed' = computed \union {<<f.defn, f.args, f.result>>}
          /\ UNCHANGED <<raised, outcome>>
      BY <1>1 DEF Return
    <3> HIDE DEF key
    <3>3. DOMAIN memo' \subseteq Keys /\ \A k \in DOMAIN memo' : memo'[k] \in Values
      BY <2>2, <3>1, <3>2 DEF Inv, TypeOK
    <3>4. computed' \subseteq Definitions \X Seq(Values) \X Values
      BY <2>2, <3>2 DEF Inv, TypeOK
    <3>5. QED
      BY <3>2, <3>3, <3>4 DEF Inv, TypeOK, RecordsOK
  <2>9. QED
    BY <2>1, <2>5, <2>6, <2>7, <2>8, <1>0, <1>r, PopOK
<1>2. CASE ReturnToHost
  <2>1. /\ f.phase = "return" /\ rest = <<>> /\ Pop(<<>>)
        /\ outcome' = IF f.result = Boxed THEN Bottom ELSE f.result
        /\ UNCHANGED <<declared, loaded, memo, raised, computed>>
    BY <1>2 DEF ReturnToHost
  <2>2. f.result \in Values
    BY <2>1, <1>f DEF FrameOK
  <2>3. RecordsOK'
    BY <2>1, <2>2 DEF Inv, TypeOK, RecordsOK, Values
  <2>4. Pop(rest) /\ UNCHANGED <<declared, loaded>>
    BY <2>1
  <2> HIDE DEF rest
  <2>5. Len(rest) = 0
    BY <2>1
  <2>6. /\ rest \in Seq(Frames) /\ Len(rest) = Len(stack) - 1
        /\ 1..Len(rest) = {} /\ 2..Len(rest) = {}
    BY <2>5, <1>r
  <2>7. QED
    BY <2>3, <2>4, <2>6, <1>0, PopOK
<1>3. CASE Unwind
  <2>1. Pop(rest) /\ UNCHANGED <<declared, loaded, memo, computed>>
    BY <1>3 DEF Unwind
  <2>2. RecordsOK'
    BY <1>3, <2>1 DEF Unwind, Inv, TypeOK, RecordsOK
  <2> HIDE DEF rest
  <2>3. \A i \in 1..Len(rest) : FrameOK(declared, rest[i]) /\ rest[i].defn = stack[i + 1].defn
    BY <1>r, <1>w
  <2>4. \A i \in 2..Len(rest) : rest[i] = stack[i + 1]
    <3> SUFFICES ASSUME NEW i \in 2..Len(rest)
                 PROVE  rest[i] = stack[i + 1]
      OBVIOUS
    <3>1. i \in 1..Len(rest)
      BY <1>r
    <3>2. QED
      BY <3>1, <1>r
  <2>5. Pop(rest) /\ UNCHANGED <<declared, loaded>>
    BY <2>1
  <2>6. rest \in Seq(Frames) /\ Len(rest) = Len(stack) - 1
    BY <1>r
  <2>7. QED
    BY <2>2, <2>3, <2>4, <2>5, <2>6, <1>0, PopOK
<1>4. CASE RefusalUnhandled \/ ResultRefused
  BY <1>4, RaiseOK DEF RefusalUnhandled, ResultRefused, Errors
<1>5. QED
  BY <1>1, <1>2, <1>3, <1>4 DEF Leaving

\* Loading, and every call of the host, keeps the invariant.
LEMMA HostOK ==
    ASSUME Inv, Host
    PROVE  Inv'
<1> USE DEF Inv, TypeOK, StackDiscipline, FramesOK, Waiting, Loaded, EffectsShrink,
            EffectsDeclared, ImportsDeclare
<1>1. CASE Load
  BY <1>1 DEF Load
<1>2. CASE LoadRefused
  BY <1>2 DEF LoadRefused, Errors
<1>3. ASSUME NEW name \in Names, NEW vs \in ArgLists, Invoke(name, vs)
      PROVE  Inv'
  <2>1. /\ stack = <<>> /\ loaded /\ name \in DOMAIN Symbols
        /\ Push(Symbols[name], vs, stack) /\ UNCHANGED <<declared, loaded, raised>>
        /\ memo' = <<>> /\ computed' = {} /\ outcome' = NoError
    BY <1>3 DEF Invoke, MemoAtInvoke
  <2>2. Symbols[name] \in Definitions /\ Symbols[name] \in Local
    BY <2>1, NameAssumption DEF Local
  <2>3. vs \in Seq(Values)
    BY InterpreterAssumption DEF Values
  <2>4. depth < MaxDepth
    BY <2>1, InterpreterAssumption
  <2>5. RecordsOK'
    BY <2>1 DEF RecordsOK
  <2>6. QED
    BY <2>1, <2>2, <2>3, <2>4, <2>5, PushOK
<1>4. ASSUME NEW name \in Names, NoSuchDefinition(name)
      PROVE  Inv'
  BY <1>4 DEF NoSuchDefinition, Errors
<1>5. QED
  BY <1>1, <1>2, <1>3, <1>4 DEF Host

-----------------------------------------------------------------------------
(***************************************************************************)
(* Theorems.                                                               *)
(***************************************************************************)

\* The invariant is one.
LEMMA Invariance == Spec => []Inv
<1>1. Init => Inv
  <2> SUFFICES ASSUME Init
               PROVE  Inv
    OBVIOUS
  <2>1. Len(stack) = 0 /\ Len(chain) = 0 /\ stack \in Seq(Frames) /\ chain \in Seq(Names)
    BY DEF Init
  <2>2. memo = <<>> /\ DOMAIN memo = {}
    BY DEF Init
  <2>3. /\ DOMAIN memo \subseteq Keys /\ \A k \in DOMAIN memo : memo[k] \in Values
        /\ computed \subseteq Definitions \X Seq(Values) \X Values
    BY <2>2 DEF Init
  <2>4. TypeOK
    BY <2>1, <2>3 DEF Init, TypeOK
  <2>5. StackDiscipline
    BY <2>1, InterpreterAssumption DEF Init, StackDiscipline
  <2>6. FramesOK /\ Waiting /\ EffectsShrink
    BY <2>1 DEF FramesOK, Waiting, EffectsShrink
  <2>7. Loaded
    BY DEF Init, Loaded
  <2>8. QED
    BY <2>4, <2>5, <2>6, <2>7 DEF Inv
<1>2. Inv /\ [Next]_vars => Inv'
  <2> SUFFICES ASSUME Inv, [Next]_vars
               PROVE  Inv'
    OBVIOUS
  <2>1. CASE UNCHANGED vars
    BY <2>1 DEF vars, Inv, TypeOK, StackDiscipline, FramesOK, Waiting, Loaded, EffectsShrink,
                EffectsDeclared, ImportsDeclare
  <2>2. QED
    BY <2>1, ClausewiseOK, EvaluationOK, CallingOK, LeavingOK, HostOK DEF Next, Step
<1>3. QED
  BY <1>1, <1>2, PTL DEF Spec

\* Every reachable state is well typed, for any program: frames hold nodes and values,
\* every way through an expression, a clause or a call included.
THEOREM TypeCorrect == Spec => []TypeOK
<1>1. Inv => TypeOK
  BY DEF Inv
<1>2. QED
  BY <1>1, Invariance, PTL

\* The depth and the intent chain are those of the open calls, within the limit, on
\* every way into and out of a call.
THEOREM StackRestored == Spec => []StackDiscipline
<1>1. Inv => StackDiscipline
  BY DEF Inv
<1>2. QED
  BY <1>1, Invariance, PTL

\* If imports declare what they call, the check of direct calls before a run makes
\* every effect that happens one that every definition on the stack declares.
THEOREM EffectsSound == Spec => []EffectsCovered
<1>1. Inv => EffectsCovered
  <2> SUFFICES ASSUME Inv, ImportsDeclare, NEW e \in Effects, AboutToPerform(e),
                      NEW i \in 1..Len(stack)
               PROVE  e \in declared[stack[i].defn]
    BY DEF EffectsCovered, EffectsCoveredAlways
  <2>1. stack # <<>> /\ Top.work # <<>> /\ e \in EffectsOf(Head(Top.work).node)
    BY DEF AboutToPerform, Running, Ready
  <2>2. EffectsOf(Head(Top.work).node) \subseteq declared[Top.defn] /\ Top = stack[1]
    BY <2>1, TopOK, InnermostOK
  <2>3. declared[stack[1].defn] \subseteq declared[stack[i].defn]
    BY <2>1, TopOK DEF Inv, EffectsShrink
  <2>4. QED
    BY <2>1, <2>2, <2>3
<1>2. QED
  BY <1>1, Invariance, PTL

-----------------------------------------------------------------------------
(***************************************************************************)
(* What a call of the interpreter promises, for any program: its contract, *)
(* the scope of its names, and the answers of the memo.                    *)
(***************************************************************************)

-----------------------------------------------------------------------------
(***************************************************************************)
(* The inductive invariant, on top of Inv.                                 *)
(***************************************************************************)

\* How far a frame got in its contract: what held so far, and what did not.
ContractOK(f) ==
    LET pre  == Pre[f.defn]
        post == Post[f.defn]
        c    == Candidates[f.defn]
    IN  /\ f.phase = "bind" => f.at = 1
        /\ f.phase \in {"bind", "pre"} => f.satisfied = {}
        /\ f.phase = "pre" => \A j \in 1..Len(pre) : j < f.at => pre[j] \in f.held
        /\ f.phase \in {"guard", "body"} => \A j \in 1..Len(pre) : pre[j] \in f.held
        /\ f.phase = "guard" =>
              /\ \A j \in f.satisfied : c[j].guard \in f.held \union {NoNode}
              /\ \A j \in 1..Len(c) :
                    j < f.at /\ j \notin f.satisfied => c[j].guard \in f.failed
        /\ f.phase = "post" => \A j \in 1..Len(post) : j < f.at => post[j] \in f.held
        /\ CallKeepsContract(f)

\* The names a definition knows between its clauses, and locals with no others.
Known(d) == {Params[d][j] : j \in 1..Len(Params[d])} \union {"result"}

Scoped(d, env) == \A x \in Names \ Known(d) : env[x] = Unbound

\* Names bound inside expressions go when the outermost of them is finished: what it
\* was begun with is what the frame then has again.
ScopeOK(f) ==
    IF f.work = <<>> THEN Scoped(f.defn, f.locals)
                     ELSE Scoped(f.defn, f.work[Len(f.work)].outer)

CallOK(f) == ContractOK(f) /\ ScopeOK(f)

CallsOK == \A i \in 1..Len(stack) : CallOK(stack[i])

\* What the memo answers was computed in this invocation.
MemoOK ==
    \A k \in DOMAIN memo : \E c \in computed : k = Key(c[1], c[2]) /\ memo[k] = c[3]

CallInv == CallsOK /\ MemoOK

-----------------------------------------------------------------------------
(***************************************************************************)
(* Frames.                                                                 *)
(***************************************************************************)

\* The outermost element of a stack, under a push and a pop.
LEMMA LastOfStack ==
    ASSUME NEW S, NEW s \in Seq(S), s # <<>>, NEW x \in S
    PROVE  /\ Len(s) = 1 => Tail(s) = <<>> /\ (<<x>> \o Tail(s))[Len(<<x>> \o Tail(s))] = x
           /\ Len(s) # 1 =>
                 /\ Tail(s) # <<>>
                 /\ Tail(s)[Len(Tail(s))] = s[Len(s)]
                 /\ (<<x>> \o Tail(s))[Len(<<x>> \o Tail(s))] = s[Len(s)]
           /\ (<<x>> \o s)[Len(<<x>> \o s)] = s[Len(s)]
<1> DEFINE n == Len(s)
           t == Tail(s)
<1>1. /\ n \in Nat /\ n # 0 /\ t \in Seq(S) /\ Len(t) = n - 1
      /\ \A i \in 1..(n - 1) : t[i] = s[i + 1]
  BY PoppedStack
<1>2. /\ <<x>> \o t \in Seq(S) /\ Len(<<x>> \o t) = n
      /\ \A i \in 1..(n - 1) : (<<x>> \o t)[i + 1] = t[i]
  OBVIOUS
<1>3. Len(<<x>> \o s) = n + 1 /\ (<<x>> \o s)[n + 1] = s[n]
  OBVIOUS
<1> HIDE DEF n, t
<1>4. CASE n = 1
  <2>1. t = <<>>
    BY <1>1, <1>4
  <2>2. (<<x>> \o t)[1] = x
    BY <1>1
  <2>3. QED
    BY <2>1, <2>2, <1>2, <1>3, <1>4 DEF n, t
<1>5. CASE n # 1
  <2>1. n - 1 \in 1..(n - 1) /\ (n - 1) + 1 = n
    BY <1>1, <1>5
  <2>2. t # <<>>
    BY <1>1, <1>5
  <2>3. t[n - 1] = s[n] /\ (<<x>> \o t)[n] = t[n - 1]
    BY <2>1, <1>1, <1>2
  <2>4. QED
    BY <2>2, <2>3, <1>1, <1>2, <1>3, <1>5 DEF n, t
<1>6. QED
  BY <1>4, <1>5

\* What its contract says of a frame depends on a few of its fields only.
LEMMA SameContract ==
    ASSUME NEW f, NEW g, ContractOK(f),
           g.defn = f.defn, g.phase = f.phase, g.at = f.at, g.satisfied = f.satisfied,
           g.held = f.held, g.failed = f.failed, g.result = f.result
    PROVE  ContractOK(g)
  BY DEF ContractOK, CallKeepsContract

\* A frame that is given a value keeps its contract and its scope.
LEMMA GiveKeeps ==
    ASSUME NEW E, NEW f, FrameOK(E, f), CallOK(f), NEW v \in Values
    PROVE  CallOK(Give(f, v))
<1>1. f \in Frames /\ f.work \in Seq(Begun)
  BY DEF FrameOK, Frames
<1>2. CASE f.work = <<>>
  <2> DEFINE g == [f EXCEPT !.focus = NoNode, !.given = v]
  <2>1. Give(f, v) = g
    BY <1>2 DEF Give
  <2>2. /\ g.defn = f.defn /\ g.phase = f.phase /\ g.at = f.at /\ g.satisfied = f.satisfied
        /\ g.held = f.held /\ g.failed = f.failed /\ g.result = f.result
        /\ g.work = f.work /\ g.locals = f.locals
    BY <1>1 DEF Frames
  <2> HIDE DEF g
  <2>3. ContractOK(g)
    BY <2>2, SameContract DEF CallOK
  <2>4. ScopeOK(g)
    BY <2>2 DEF CallOK, ScopeOK
  <2>5. QED
    BY <2>1, <2>3, <2>4 DEF CallOK
<1>3. CASE f.work # <<>>
  <2> DEFINE w == [Head(f.work) EXCEPT !.done = Append(@, v)]
             ws == <<w>> \o Tail(f.work)
             g == [f EXCEPT !.focus = NoNode, !.work = ws]
  <2>1. Give(f, v) = g
    BY <1>3 DEF Give
  <2>2. /\ g.defn = f.defn /\ g.phase = f.phase /\ g.at = f.at /\ g.satisfied = f.satisfied
        /\ g.held = f.held /\ g.failed = f.failed /\ g.result = f.result
        /\ g.work = ws
    BY <1>1 DEF Frames
  <2>3. /\ Len(f.work) \in Nat \ {0}
        /\ Head(f.work) \in Begun /\ Head(f.work) = f.work[1]
        /\ Tail(f.work) \in Seq(Begun) /\ Len(Tail(f.work)) = Len(f.work) - 1
        /\ \A i \in 1..Len(Tail(f.work)) : Tail(f.work)[i] = f.work[i + 1]
    BY <1>1, <1>3, PoppedStack
  <2>4. w \in Begun /\ w.outer = f.work[1].outer
    <3>1. Append(Head(f.work).done, v) \in Seq(Values)
      BY <2>3 DEF Begun
    <3>2. QED
      BY <2>3, <3>1 DEF Begun
  <2> HIDE DEF w
  <2>5. /\ ws # <<>> /\ Len(ws) = Len(f.work) /\ ws[1] = w
        /\ \A i \in 1..Len(Tail(f.work)) : ws[i + 1] = Tail(f.work)[i]
    BY <2>3, <2>4, PushedStack
  <2> HIDE DEF ws, g
  <2>6. ws[Len(ws)].outer = f.work[Len(f.work)].outer
    <3>1. /\ Len(f.work) = 1 => ws[Len(ws)] = w
          /\ Len(f.work) # 1 => ws[Len(ws)] = f.work[Len(f.work)]
      BY <1>1, <1>3, <2>4, LastOfStack DEF ws
    <3>2. QED
      BY <3>1, <2>4
  <2>7. ContractOK(g)
    BY <2>2, SameContract DEF CallOK
  <2>8. ScopeOK(g)
    BY <1>3, <2>2, <2>5, <2>6 DEF CallOK, ScopeOK
  <2>9. QED
    BY <2>1, <2>7, <2>8 DEF CallOK
<1>4. QED
  BY <1>2, <1>3

\* So does a frame whose innermost expression is finished: the outermost one leaves
\* the locals it was begun with.
LEMMA FinishKeeps ==
    ASSUME NEW E, NEW f, FrameOK(E, f), f.work # <<>>, CallOK(f), NEW v \in Values
    PROVE  CallOK(Finish(f, v))
<1> DEFINE g == [f EXCEPT !.work = Tail(f.work), !.locals = Head(f.work).outer]
<1>1. f \in Frames /\ f.work \in Seq(Begun)
  BY DEF FrameOK, Frames
<1>2. /\ Head(f.work) \in Begun /\ Head(f.work) = f.work[1] /\ Len(f.work) \in Nat \ {0}
      /\ Tail(f.work) \in Seq(Begun) /\ Len(Tail(f.work)) = Len(f.work) - 1
      /\ \A i \in 1..Len(Tail(f.work)) : Tail(f.work)[i] = f.work[i + 1]
  BY <1>1, PoppedStack
<1>3. /\ g.defn = f.defn /\ g.phase = f.phase /\ g.at = f.at /\ g.satisfied = f.satisfied
      /\ g.held = f.held /\ g.failed = f.failed /\ g.result = f.result
      /\ g.focus = f.focus /\ g.work = Tail(f.work) /\ g.locals = Head(f.work).outer
  BY <1>1 DEF Frames
<1>4. g \in Frames
  BY <1>1, <1>2 DEF Frames, Begun
<1> HIDE DEF g
<1>5. FrameOK(E, g)
  <2>1. \A i \in 1..Len(g.work) : i + 1 \in 1..Len(f.work) /\ g.work[i] = f.work[i + 1]
    BY <1>2, <1>3
  <2>2. QED
    BY <2>1, <1>3, <1>4 DEF FrameOK
<1>6. ContractOK(g)
  BY <1>3, SameContract DEF CallOK
<1>7. ScopeOK(g)
  <2>1. /\ Len(f.work) = 1 => g.work = <<>>
        /\ Len(f.work) # 1 =>
              g.work # <<>> /\ g.work[Len(g.work)] = f.work[Len(f.work)]
    BY <1>1, <1>2, <1>3, LastOfStack
  <2>2. Len(f.work) = 1 => g.locals = f.work[Len(f.work)].outer
    BY <1>2, <1>3
  <2>3. QED
    BY <2>1, <2>2, <1>3 DEF CallOK, ScopeOK
<1>8. Finish(f, v) = Give(g, v)
  BY DEF Finish, g
<1>9. QED
  BY <1>5, <1>6, <1>7, <1>8, GiveKeeps DEF CallOK

-----------------------------------------------------------------------------
(***************************************************************************)
(* Steps inside one frame: parameters, clauses and dispatch.               *)
(***************************************************************************)

\* What is known of the innermost frame, while there is one.
LEMMA TopKept ==
    ASSUME Inv, CallsOK, stack # <<>>
    PROVE  /\ FrameOK(declared, Top) /\ Top \in Frames /\ Top.defn \in Definitions
           /\ ContractOK(Top) /\ ScopeOK(Top)
<1>1. Len(stack) \in Nat \ {0} /\ Top = stack[1] /\ FrameOK(declared, Top)
  BY TopOK
<1>2. CallOK(stack[1])
  BY <1>1 DEF CallsOK
<1>3. QED
  BY <1>1, <1>2 DEF CallOK, FrameOK, Frames

\* A step of the innermost frame leaves the others alone.
LEMMA BecomeKeeps ==
    ASSUME Inv, CallsOK, stack # <<>>, NEW g, CallOK(g), Become(g)
    PROVE  CallsOK'
<1> DEFINE rest == Tail(stack)
<1>1. /\ rest \in Seq(Frames) /\ Len(stack) \in Nat \ {0} /\ Len(rest) = Len(stack) - 1
      /\ \A i \in 1..Len(rest) : rest[i] = stack[i + 1]
  BY TopOK
<1>2. stack' = <<g>> \o rest
  BY DEF Become
<1> HIDE DEF rest
<1>3. /\ Len(stack') = Len(stack) /\ stack'[1] = g
      /\ \A i \in 1..Len(rest) : stack'[i + 1] = rest[i]
  BY <1>1, <1>2
<1>4. ASSUME NEW i \in 1..Len(stack')
      PROVE  CallOK(stack'[i])
  <2>1. CASE i = 1
    BY <2>1, <1>3
  <2>2. CASE i # 1
    <3>1. i - 1 \in 1..Len(rest) /\ (i - 1) + 1 = i
      BY <2>2, <1>1, <1>3
    <3>2. stack'[i] = stack[i] /\ i \in 1..Len(stack)
      BY <3>1, <1>1, <1>3
    <3>3. QED
      BY <3>2 DEF CallsOK
  <2>3. QED
    BY <2>1, <2>2
<1>5. QED
  BY <1>4 DEF CallsOK

\* A choice of dispatch: its guard held, and every cheaper one failed.
LEMMA ChosenKeeps ==
    ASSUME NEW E, NEW f, FrameOK(E, f), ContractOK(f), f.phase = "guard",
           f.at > Len(Candidates[f.defn]), f.satisfied # {}
    PROVE  /\ Candidates[f.defn][Chosen(f)].guard \in f.held \union {NoNode}
           /\ \A j \in 1..Len(Candidates[f.defn]) :
                 Cheaper(f.defn, j, Chosen(f)) => Candidates[f.defn][j].guard \in f.failed
<1> DEFINE c == Candidates[f.defn]
           k == Chosen(f)
<1>1. /\ f.defn \in Definitions /\ f.at \in Nat /\ c \in Seq(CandidateRecords)
      /\ f.satisfied \in SUBSET (1..Len(c))
  BY DefinitionAssumption DEF FrameOK, Frames
<1>2. k \in f.satisfied /\ \A j \in f.satisfied \ {k} : Cheaper(f.defn, k, j)
  BY <1>1, CheapestExists DEF Chosen
<1>3. c[k].guard \in f.held \union {NoNode}
  BY <1>2 DEF ContractOK
<1>4. ASSUME NEW j \in 1..Len(c), Cheaper(f.defn, j, k)
      PROVE  c[j].guard \in f.failed
  <2>1. Cost(c[j]) \in Nat /\ Cost(c[k]) \in Nat /\ j \in Nat /\ k \in Nat
    <3>1. \A i \in 1..Len(c) : c[i].cost \in Nat \union {NoCost}
      <4> SUFFICES ASSUME NEW i \in 1..Len(c)
                   PROVE  c[i].cost \in Nat \union {NoCost}
        OBVIOUS
      <4>1. c[i] \in CandidateRecords
        BY <1>1
      <4>2. QED
        BY <4>1 DEF CandidateRecords
    <3>2. k \in 1..Len(c)
      BY <1>1, <1>2
    <3>3. QED
      BY <3>1, <3>2, DefinitionAssumption DEF Cost
  <2>2. ~Cheaper(f.defn, k, j)
    BY <1>4, <2>1 DEF Cheaper
  <2>3. j # k
    BY <1>4, <2>1 DEF Cheaper
  <2>4. j \notin f.satisfied
    BY <1>2, <2>2, <2>3
  <2>5. j < f.at
    BY <1>1
  <2>6. QED
    BY <2>4, <2>5 DEF ContractOK
<1>5. QED
  BY <1>3, <1>4

\* Every step of the clauses keeps contracts and scopes.
LEMMA ClausewiseKeeps ==
    ASSUME Inv, CallsOK, Clausewise
    PROVE  CallsOK'
<1> DEFINE f == Top
<1>0. stack # <<>>
  BY DEF Clausewise, Running, BindParameters, ArgumentRefused, BeginClause, ClauseHolds,
         ClauseFails, GuardFails, NoGuard, PreconditionsHold, Dispatch, DispatchFails,
         BodyEnds, PostconditionsHold
<1>f. FrameOK(declared, f) /\ f \in Frames /\ f.defn \in Definitions /\ ContractOK(f) /\ ScopeOK(f)
  BY <1>0, TopKept
<1>p. /\ f.at \in Nat \ {0} /\ NextClause(f) = f.at + 1
      /\ \A j \in Nat : j < NextClause(f) => j < f.at \/ j = f.at
  BY <1>f DEF Frames, NextClause
<1>s. /\ Pre[f.defn] \in Seq(Nodes) /\ Post[f.defn] \in Seq(Nodes)
      /\ Candidates[f.defn] \in Seq(CandidateRecords)
  BY <1>f, DefinitionAssumption
<1>1. CASE BindParameters
  <2> DEFINE ps == Params[f.defn]
             env == [x \in Names |->
                       IF \E i \in 1..Len(ps) : ps[i] = x
                       THEN Argument(f, CHOOSE i \in 1..Len(ps) : ps[i] = x)
                       ELSE Unbound]
             g == [f EXCEPT !.phase = "pre", !.locals = env]
  <2>1. Become(g) /\ f.phase = "bind"
    BY <1>1 DEF BindParameters
  <2>2. Scoped(f.defn, env)
    BY DEF Scoped, Known
  <2> HIDE DEF env, ps
  <2>3. /\ g.defn = f.defn /\ g.work = f.work /\ g.locals = env /\ g.phase = "pre"
        /\ g.at = f.at /\ g.satisfied = f.satisfied
    BY <1>f DEF Frames
  <2>4. g.at = 1
    BY <2>1, <2>3, <1>f DEF ContractOK
  <2> HIDE DEF g
  <2>5. ContractOK(g)
    BY <2>1, <2>3, <2>4, <1>f DEF ContractOK, CallKeepsContract
  <2>6. ScopeOK(g)
    BY <2>2, <2>3, <1>f DEF ScopeOK
  <2>7. QED
    BY <2>1, <2>5, <2>6, <1>0, BecomeKeeps DEF CallOK

<1>2. CASE BeginClause
  <2> DEFINE env == IF f.phase = "post" THEN [f.locals EXCEPT !["result"] = f.result]
                                        ELSE f.locals
             g == [f EXCEPT !.focus = Clause(f), !.locals = env]
  <2>1. Become(g) /\ f.work = <<>>
    BY <1>2 DEF BeginClause, Idle
  <2>2. Scoped(f.defn, env)
    BY <2>1, <1>f DEF ScopeOK, Scoped, Known, Frames, Locals
  <2> HIDE DEF env
  <2>3. /\ g.defn = f.defn /\ g.phase = f.phase /\ g.at = f.at /\ g.satisfied = f.satisfied
        /\ g.held = f.held /\ g.failed = f.failed /\ g.result = f.result
        /\ g.work = f.work /\ g.locals = env
    BY <1>f DEF Frames
  <2> HIDE DEF g
  <2>4. ContractOK(g) /\ ScopeOK(g)
    BY <2>1, <2>2, <2>3, <1>f, SameContract DEF ScopeOK
  <2>5. QED
    BY <2>1, <2>4, <1>0, BecomeKeeps DEF CallOK
<1>3. CASE ClauseHolds
  <2> DEFINE held == f.held \union {Clause(f)}
             satisfied == IF f.phase = "guard" THEN f.satisfied \union {f.at} ELSE f.satisfied
             g == [f EXCEPT
                     !.given = NoValue, !.at = NextClause(f), !.held = @ \union {Clause(f)},
                     !.satisfied = IF f.phase = "guard" THEN @ \union {f.at} ELSE @]
  <2>1. Become(g) /\ f.phase \in ClausePhases
    BY <1>3 DEF ClauseHolds, InClauses
  <2>2. /\ g.defn = f.defn /\ g.phase = f.phase /\ g.at = NextClause(f)
        /\ g.satisfied = satisfied /\ g.held = held /\ g.failed = f.failed
        /\ g.work = f.work /\ g.locals = f.locals
    BY <1>f DEF Frames
  <2> HIDE DEF g
  <2>3. ASSUME f.phase = "pre"
        PROVE  ContractOK(g)
    <3>1. Clause(f) = Pre[f.defn][f.at] /\ satisfied = {}
      BY <2>3, <1>f DEF Clause, ContractOK
    <3>2. \A j \in 1..Len(Pre[f.defn]) : j < f.at => Pre[f.defn][j] \in f.held
      BY <2>3, <1>f DEF ContractOK
    <3>3. \A j \in 1..Len(Pre[f.defn]) : j < g.at => Pre[f.defn][j] \in held
      BY <2>2, <3>1, <3>2, <1>p
    <3>4. QED
      BY <2>2, <2>3, <3>1, <3>3 DEF ContractOK, CallKeepsContract
  <2>4. ASSUME f.phase = "post"
        PROVE  ContractOK(g)
    <3>1. Clause(f) = Post[f.defn][f.at]
      BY <2>4 DEF Clause
    <3>2. \A j \in 1..Len(Post[f.defn]) : j < g.at => Post[f.defn][j] \in held
      BY <2>2, <2>4, <3>1, <1>f, <1>p, <1>s DEF ContractOK
    <3>3. QED
      BY <2>2, <2>4, <3>2 DEF ContractOK, CallKeepsContract
  <2>5. ASSUME f.phase = "guard"
        PROVE  ContractOK(g)
    <3>1. Clause(f) = Candidates[f.defn][f.at].guard /\ satisfied = f.satisfied \union {f.at}
      BY <2>5 DEF Clause
    <3>2. \A j \in satisfied : Candidates[f.defn][j].guard \in held \union {NoNode}
      BY <2>5, <3>1, <1>f DEF ContractOK
    <3>3. \A j \in 1..Len(Candidates[f.defn]) :
             j < g.at /\ j \notin satisfied => Candidates[f.defn][j].guard \in f.failed
      <4>1. \A j \in 1..Len(Candidates[f.defn]) :
               j < f.at /\ j \notin f.satisfied => Candidates[f.defn][j].guard \in f.failed
        BY <2>5, <1>f DEF ContractOK
      <4>2. QED
        BY <2>2, <3>1, <4>1, <1>p
    <3>4. \A j \in 1..Len(Pre[f.defn]) : Pre[f.defn][j] \in held
      BY <2>5, <1>f DEF ContractOK
    <3>5. QED
      BY <2>2, <2>5, <3>2, <3>3, <3>4 DEF ContractOK, CallKeepsContract
  <2>6. ContractOK(g)
    BY <2>1, <2>3, <2>4, <2>5 DEF ClausePhases
  <2>7. ScopeOK(g)
    BY <2>2, <1>f DEF ScopeOK
  <2>8. QED
    BY <2>1, <2>6, <2>7, <1>0, BecomeKeeps DEF CallOK
<1>4. CASE GuardFails
  <2> DEFINE failed == f.failed \union {Clause(f)}
             g == [f EXCEPT
                     !.given = NoValue, !.at = NextClause(f), !.failed = @ \union {Clause(f)}]
  <2>1. Become(g) /\ f.phase = "guard" /\ Clause(f) = Candidates[f.defn][f.at].guard
    BY <1>4 DEF GuardFails, Clause
  <2>2. /\ g.defn = f.defn /\ g.phase = f.phase /\ g.at = NextClause(f)
        /\ g.satisfied = f.satisfied /\ g.held = f.held /\ g.failed = failed
        /\ g.work = f.work /\ g.locals = f.locals
    BY <1>f DEF Frames
  <2> HIDE DEF g
  <2>3. \A j \in 1..Len(Candidates[f.defn]) :
           j < g.at /\ j \notin f.satisfied => Candidates[f.defn][j].guard \in failed
    BY <2>1, <2>2, <1>f, <1>p, <1>s DEF ContractOK
  <2>4. ContractOK(g)
    BY <2>1, <2>2, <2>3, <1>f DEF ContractOK, CallKeepsContract
  <2>5. ScopeOK(g)
    BY <2>2, <1>f DEF ScopeOK
  <2>6. QED
    BY <2>1, <2>4, <2>5, <1>0, BecomeKeeps DEF CallOK
<1>5. CASE NoGuard
  <2> DEFINE satisfied == f.satisfied \union {f.at}
             g == [f EXCEPT !.at = NextClause(f), !.satisfied = @ \union {f.at}]
  <2>1. Become(g) /\ InClauses(f) /\ Clause(f) = NoNode
    BY <1>5 DEF NoGuard
  <2>2. f.phase = "guard"
    <3>1. /\ f.phase = "pre" => Clause(f) \in Nodes
          /\ f.phase = "post" => Clause(f) \in Nodes
      <4>1. f.phase = "pre" => f.at \in 1..Len(Pre[f.defn]) /\ Clause(f) = Pre[f.defn][f.at]
        BY <2>1, <1>p, <1>s DEF InClauses, ClauseCount, Clause
      <4>2. f.phase = "post" => f.at \in 1..Len(Post[f.defn]) /\ Clause(f) = Post[f.defn][f.at]
        BY <2>1, <1>p, <1>s DEF InClauses, ClauseCount, Clause
      <4>3. QED
        BY <4>1, <4>2, <1>s
    <3>2. QED
      BY <2>1, <3>1, NodeAssumption DEF InClauses, ClausePhases
  <2>3. Candidates[f.defn][f.at].guard = NoNode
    BY <2>1, <2>2 DEF Clause
  <2>4. /\ g.defn = f.defn /\ g.phase = f.phase /\ g.at = NextClause(f)
        /\ g.satisfied = satisfied /\ g.held = f.held /\ g.failed = f.failed
        /\ g.work = f.work /\ g.locals = f.locals
    BY <1>f DEF Frames
  <2> HIDE DEF g
  <2>5. \A j \in satisfied : Candidates[f.defn][j].guard \in f.held \union {NoNode}
    BY <2>2, <2>3, <1>f DEF ContractOK
  <2>6. \A j \in 1..Len(Candidates[f.defn]) :
           j < g.at /\ j \notin satisfied => Candidates[f.defn][j].guard \in f.failed
    BY <2>2, <2>4, <1>f, <1>p, <1>s DEF ContractOK
  <2>7. ContractOK(g)
    BY <2>2, <2>4, <2>5, <2>6, <1>f DEF ContractOK, CallKeepsContract
  <2>8. ScopeOK(g)
    BY <2>4, <1>f DEF ScopeOK
  <2>9. QED
    BY <2>1, <2>7, <2>8, <1>0, BecomeKeeps DEF CallOK

<1>6. CASE PreconditionsHold
  <2> DEFINE g == [f EXCEPT !.phase = "guard", !.at = 1]
  <2>1. Become(g) /\ f.phase = "pre" /\ f.at > Len(Pre[f.defn])
    BY <1>6 DEF PreconditionsHold, PastClauses, ClauseCount
  <2>2. /\ g.defn = f.defn /\ g.phase = "guard" /\ g.at = 1
        /\ g.satisfied = f.satisfied /\ g.held = f.held /\ g.failed = f.failed
        /\ g.work = f.work /\ g.locals = f.locals
    BY <1>f DEF Frames
  <2> HIDE DEF g
  <2>3. \A j \in 1..Len(Pre[f.defn]) : Pre[f.defn][j] \in f.held
    BY <2>1, <1>f, <1>p, <1>s DEF ContractOK
  <2>4. f.satisfied = {}
    BY <2>1, <1>f DEF ContractOK
  <2>5. ContractOK(g)
    BY <2>2, <2>3, <2>4, <1>s DEF ContractOK, CallKeepsContract
  <2>6. ScopeOK(g)
    BY <2>2, <1>f DEF ScopeOK
  <2>7. QED
    BY <2>1, <2>5, <2>6, <1>0, BecomeKeeps DEF CallOK
<1>7. CASE Dispatch
  <2> DEFINE k == Chosen(f)
             body == Candidates[f.defn][k].body
             g == [f EXCEPT !.phase = "body", !.at = k, !.focus = body]
  <2>1. /\ Become(g) /\ f.phase = "guard" /\ f.at > Len(Candidates[f.defn])
        /\ f.satisfied # {}
    BY <1>7 DEF Dispatch, PastClauses, ClauseCount
  <2>2. /\ Candidates[f.defn][k].guard \in f.held \union {NoNode}
        /\ \A j \in 1..Len(Candidates[f.defn]) :
              Cheaper(f.defn, j, k) => Candidates[f.defn][j].guard \in f.failed
    BY <2>1, <1>f, ChosenKeeps
  <2> HIDE DEF k, body
  <2>3. /\ g.defn = f.defn /\ g.phase = "body" /\ g.at = k
        /\ g.held = f.held /\ g.failed = f.failed
        /\ g.work = f.work /\ g.locals = f.locals
    BY <1>f DEF Frames
  <2> HIDE DEF g
  <2>4. \A j \in 1..Len(Pre[f.defn]) : Pre[f.defn][j] \in f.held
    BY <2>1, <1>f DEF ContractOK
  <2>5. ContractOK(g)
    BY <2>2, <2>3, <2>4 DEF ContractOK, CallKeepsContract
  <2>6. ScopeOK(g)
    BY <2>3, <1>f DEF ScopeOK
  <2>7. QED
    BY <2>1, <2>5, <2>6, <1>0, BecomeKeeps DEF CallOK
<1>8. CASE BodyEnds
  <2> DEFINE next == IF f.given = Bottom THEN "return" ELSE "post"
             g == [f EXCEPT !.phase = next, !.at = 1, !.given = NoValue, !.result = f.given]
  <2>1. Become(g)
    BY <1>8 DEF BodyEnds
  <2>2. next = "post" \/ (next = "return" /\ f.given = Bottom)
    OBVIOUS
  <2> HIDE DEF next
  <2>3. /\ g.defn = f.defn /\ g.phase = next /\ g.at = 1 /\ g.result = f.given
        /\ g.work = f.work /\ g.locals = f.locals
    BY <1>f DEF Frames
  <2> HIDE DEF g
  <2>4. ContractOK(g)
    BY <2>2, <2>3, <1>s DEF ContractOK, CallKeepsContract
  <2>5. ScopeOK(g)
    BY <2>3, <1>f DEF ScopeOK
  <2>6. QED
    BY <2>1, <2>4, <2>5, <1>0, BecomeKeeps DEF CallOK
<1>9. CASE PostconditionsHold
  <2> DEFINE g == [f EXCEPT !.phase = "return", !.at = 1]
  <2>1. Become(g) /\ f.phase = "post" /\ f.at > Len(Post[f.defn])
    BY <1>9 DEF PostconditionsHold, PastClauses, ClauseCount
  <2>2. /\ g.defn = f.defn /\ g.phase = "return" /\ g.held = f.held
        /\ g.work = f.work /\ g.locals = f.locals
    BY <1>f DEF Frames
  <2> HIDE DEF g
  <2>3. \A j \in 1..Len(Post[f.defn]) : Post[f.defn][j] \in f.held
    BY <2>1, <1>f, <1>p, <1>s DEF ContractOK
  <2>4. ContractOK(g)
    BY <2>2, <2>3 DEF ContractOK, CallKeepsContract
  <2>5. ScopeOK(g)
    BY <2>2, <1>f DEF ScopeOK
  <2>6. QED
    BY <2>1, <2>4, <2>5, <1>0, BecomeKeeps DEF CallOK
<1>10. CASE ArgumentRefused \/ ClauseFails \/ DispatchFails
  BY <1>10 DEF ArgumentRefused, ClauseFails, DispatchFails, Raise, CallsOK
<1>11. QED
  BY <1>1, <1>2, <1>3, <1>4, <1>5, <1>6, <1>7, <1>8, <1>9, <1>10 DEF Clausewise

-----------------------------------------------------------------------------
(***************************************************************************)
(* Expressions, calls and returns.                                         *)
(***************************************************************************)

\* A value for the innermost frame keeps contracts and scopes.
LEMMA GivenKept ==
    ASSUME Inv, CallsOK, stack # <<>>, NEW v \in Values, Become(Give(Top, v))
    PROVE  CallsOK'
  BY TopKept, GiveKeeps, BecomeKeeps DEF CallOK

\* So does the end of its innermost expression.
LEMMA FinishedKept ==
    ASSUME Inv, CallsOK, stack # <<>>, Top.work # <<>>, NEW v \in Values,
           Become(Finish(Top, v))
    PROVE  CallsOK'
  BY TopKept, FinishKeeps, BecomeKeeps DEF CallOK

\* Every step of an expression keeps contracts and scopes: a name that is bound inside
\* is bound while the outermost expression, which will take it back, is open.
LEMMA EvaluationKeeps ==
    ASSUME Inv, CallsOK, Evaluation
    PROVE  CallsOK'
<1> DEFINE f == Top
<1>0. stack # <<>>
  BY DEF Evaluation, Running, Evaluating, Finishing, EvalLiteral, EvalRefusal, EvalReference,
         ReferenceUnbound, Begin, CallableUnknown, EffectRefused, EvalPart, FinishLast,
         FinishWithData, FieldMissing
<1>f. FrameOK(declared, f) /\ f \in Frames /\ ContractOK(f) /\ ScopeOK(f)
  BY <1>0, TopKept
<1>1. CASE EvalLiteral
  <2>1. f.focus \in Nodes
    BY <1>1, <1>f DEF EvalLiteral, Evaluating, Frames
  <2>2. Node[f.focus].value \in Values
    BY <2>1, NodeOK DEF Values
  <2>3. QED
    BY <1>1, <2>2, <1>0, GivenKept DEF EvalLiteral
<1>2. CASE EvalRefusal
  BY <1>2, <1>0, GivenKept DEF EvalRefusal, Values
<1>3. CASE EvalReference
  <2> DEFINE v == f.locals[Node[f.focus].name]
  <2>1. f.focus \in Nodes /\ v # Unbound /\ Become(Give(f, v))
    BY <1>3, <1>f DEF EvalReference, Evaluating, Frames
  <2>2. Node[f.focus].name \in Names /\ f.locals \in Locals
    BY <2>1, <1>f, NodeOK DEF Frames
  <2>3. v \in Values
    BY <2>1, <2>2 DEF Locals
  <2> HIDE DEF v
  <2>4. QED
    BY <2>1, <2>3, <1>0, GivenKept
<1>4. CASE Begin
  <2> DEFINE w == [node |-> f.focus, done |-> <<>>, outer |-> f.locals]
             ws == <<w>> \o f.work
             g == [f EXCEPT !.focus = NoNode, !.work = ws]
  <2>1. Become(g) /\ f.focus \in Nodes
    BY <1>4, <1>f DEF Begin, Evaluating, Frames
  <2>2. w \in Begun /\ w.outer = f.locals /\ f.work \in Seq(Begun)
    BY <2>1, <1>f DEF Begun, Frames
  <2> HIDE DEF w
  <2>3. ws # <<>> /\ (f.work = <<>> => ws[Len(ws)] = w)
    BY <2>2, PushedStack
  <2>4. f.work # <<>> => ws[Len(ws)] = f.work[Len(f.work)]
    BY <2>2, LastOfStack
  <2>5. /\ g.defn = f.defn /\ g.phase = f.phase /\ g.at = f.at /\ g.satisfied = f.satisfied
        /\ g.held = f.held /\ g.failed = f.failed /\ g.result = f.result /\ g.work = ws
    BY <1>f DEF Frames
  <2> HIDE DEF ws, g
  <2>6. ContractOK(g)
    BY <2>5, <1>f, SameContract
  <2>7. ScopeOK(g)
    BY <2>2, <2>3, <2>4, <2>5, <1>f DEF ScopeOK
  <2>8. QED
    BY <2>1, <2>6, <2>7, <1>0, BecomeKeeps DEF CallOK
<1>5. CASE EvalPart
  <2> DEFINE w == Head(f.work)
             part == NextPart(w)
             env == IF Node[w.node].kind = "binding" /\ Len(w.done) = 1
                    THEN [f.locals EXCEPT ![Node[w.node].name] = w.done[1]]
                    ELSE f.locals
             g == [f EXCEPT !.focus = part, !.locals = env]
  <2>1. Become(g) /\ f.work # <<>>
    BY <1>5 DEF EvalPart
  <2> HIDE DEF env, part
  <2>2. /\ g.defn = f.defn /\ g.phase = f.phase /\ g.at = f.at /\ g.satisfied = f.satisfied
        /\ g.held = f.held /\ g.failed = f.failed /\ g.result = f.result /\ g.work = f.work
    BY <1>f DEF Frames
  <2> HIDE DEF g
  <2>3. ContractOK(g) /\ ScopeOK(g)
    BY <2>1, <2>2, <1>f, SameContract DEF ScopeOK
  <2>4. QED
    BY <2>1, <2>3, <1>0, BecomeKeeps DEF CallOK
<1>6. CASE FinishLast
  <2>1. /\ Ready(f) /\ Inner(f).kind \in {"sequence", "conditional", "binding"}
        /\ Become(Finish(f, Done(f)[Len(Done(f))])) /\ f.work # <<>>
    BY <1>6 DEF FinishLast, Finishing, Ready
  <2>2. Done(f)[Len(Done(f))] \in Values
    BY <2>1, <1>f, LastDoneOK
  <2>3. QED
    BY <2>1, <2>2, <1>0, FinishedKept
<1>7. CASE FinishWithData
  <2>1. PICK v \in Scalars : Become(Finish(f, v)) /\ f.work # <<>>
    BY <1>7 DEF FinishWithData, Finishing, Ready
  <2>2. QED
    BY <2>1, <1>0, FinishedKept DEF Values
<1>8. CASE ReferenceUnbound \/ CallableUnknown \/ EffectRefused \/ FieldMissing
  BY <1>8 DEF ReferenceUnbound, CallableUnknown, EffectRefused, FieldMissing, Raise, CallsOK
<1>9. QED
  BY <1>1, <1>2, <1>3, <1>4, <1>5, <1>6, <1>7, <1>8 DEF Evaluation

\* A new frame has promised nothing yet, and knows no name.
LEMMA PushKeeps ==
    ASSUME Inv, CallsOK, NEW d \in Definitions, NEW vs, Push(d, vs, stack)
    PROVE  CallsOK'
<1> DEFINE g == NewFrame(d, vs)
<1>1. CallOK(g)
  BY DEF NewFrame, CallOK, ContractOK, CallKeepsContract, ScopeOK, Scoped
<1>2. stack \in Seq(Frames) /\ stack' = <<g>> \o stack
  BY DEF Inv, TypeOK, Push
<1> HIDE DEF g
<1>3. /\ Len(stack) \in Nat /\ Len(stack') = Len(stack) + 1 /\ stack'[1] = g
      /\ \A i \in 1..Len(stack) : stack'[i + 1] = stack[i]
  BY <1>2
<1>4. ASSUME NEW i \in 1..Len(stack')
      PROVE  CallOK(stack'[i])
  <2>1. CASE i = 1
    BY <2>1, <1>1, <1>3
  <2>2. CASE i # 1
    <3>1. i - 1 \in 1..Len(stack) /\ (i - 1) + 1 = i
      BY <2>2, <1>3
    <3>2. QED
      BY <3>1, <1>3 DEF CallsOK
  <2>3. QED
    BY <2>1, <2>2
<1>5. QED
  BY <1>4 DEF CallsOK

\* Every step of a primitive, and every call, keeps contracts and scopes.
LEMMA CallingKeeps ==
    ASSUME Inv, CallsOK, Calling
    PROVE  CallsOK'
<1> DEFINE f == Top
<1>0. stack # <<>> /\ f.work # <<>>
  BY DEF Calling, FinishPrimitive, FinishIsBottom, BottomReachesPrimitive, PrimitiveFails,
         AnswerFromMemo, Call, RecursionLimit, FinishingPrimitive, FinishingDefinition,
         Finishing, Running, Ready
<1>1. CASE FinishPrimitive
  <2>1. PICK v \in PrimitiveResults(Done(f)) : Become(Finish(f, v))
    BY <1>1 DEF FinishPrimitive
  <2>2. v \in Values
    BY DEF PrimitiveResults, Values
  <2>3. QED
    BY <2>1, <2>2, <1>0, FinishedKept
<1>2. CASE FinishIsBottom
  <2>1. PICK v \in Scalars : Become(Finish(f, v))
    BY <1>2 DEF FinishIsBottom
  <2>2. QED
    BY <2>1, <1>0, FinishedKept DEF Values
<1>3. CASE AnswerFromMemo
  <2>1. /\ Key(Callee, Done(f)) \in DOMAIN memo
        /\ Become(Finish(f, memo[Key(Callee, Done(f))]))
    BY <1>3 DEF AnswerFromMemo, Memoized
  <2>2. memo[Key(Callee, Done(f))] \in Values
    BY <2>1 DEF Inv, TypeOK
  <2>3. QED
    BY <2>1, <2>2, <1>0, FinishedKept
<1>4. CASE Call
  <2>1. FinishingDefinition /\ Push(Callee, Done(f), stack)
    BY <1>4 DEF Call
  <2>2. QED
    BY <2>1, CalleeOK, PushKeeps
<1>5. CASE BottomReachesPrimitive \/ PrimitiveFails \/ RecursionLimit
  BY <1>5 DEF BottomReachesPrimitive, PrimitiveFails, RecursionLimit, Raise, CallsOK
<1>6. QED
  BY <1>1, <1>2, <1>3, <1>4, <1>5 DEF Calling

\* Every way out of a call keeps contracts and scopes.
LEMMA LeavingKeeps ==
    ASSUME Inv, CallsOK, Leaving
    PROVE  CallsOK'
<1> DEFINE f == Top
           rest == Tail(stack)
<1>0. stack # <<>>
  BY DEF Leaving, Return, ReturnToHost, RefusalUnhandled, ResultRefused, Unwind, Running
<1>f. FrameOK(declared, f)
  BY <1>0, TopKept
<1>r. /\ rest \in Seq(Frames) /\ Len(rest) = Len(stack) - 1 /\ Len(stack) \in Nat \ {0}
      /\ \A i \in 1..Len(rest) : rest[i] = stack[i + 1] /\ i + 1 \in 2..Len(stack)
  BY <1>0, TopOK
<1>w. \A i \in 1..Len(rest) :
         FrameOK(declared, rest[i]) /\ rest[i].work # <<>> /\ CallOK(rest[i])
  BY <1>r DEF Inv, FramesOK, Waiting, CallsOK
<1>1. CASE Return
  <2> DEFINE g == Finish(Head(rest), f.result)
             below == <<g>> \o Tail(rest)
  <2>1. f.phase = "return" /\ rest # <<>> /\ Pop(below)
    BY <1>1 DEF Return
  <2>2. f.result \in Values
    BY <2>1, <1>f DEF FrameOK
  <2>3. /\ Head(rest) = rest[1] /\ 1 \in 1..Len(rest)
        /\ Tail(rest) \in Seq(Frames) /\ Len(Tail(rest)) = Len(rest) - 1
        /\ \A i \in 1..Len(Tail(rest)) : Tail(rest)[i] = rest[i + 1]
    <3> HIDE DEF rest
    <3>1. QED
      BY <2>1, <1>r, PoppedStack
  <2>4. CallOK(g)
    <3> HIDE DEF rest
    <3>1. FrameOK(declared, Head(rest)) /\ Head(rest).work # <<>> /\ CallOK(Head(rest))
      BY <2>3, <1>w
    <3>2. QED
      BY <3>1, <2>2, FinishKeeps
  <2> HIDE DEF g, rest
  <2>5. /\ Len(below) = Len(rest) /\ below[1] = g
        /\ \A i \in 1..Len(Tail(rest)) : below[i + 1] = Tail(rest)[i]
    BY <2>3, <1>r
  <2> HIDE DEF below
  <2>6. ASSUME NEW i \in 1..Len(below)
        PROVE  CallOK(below[i])
    <3>1. CASE i = 1
      BY <3>1, <2>4, <2>5
    <3>2. CASE i # 1
      <4>1. i - 1 \in 1..Len(Tail(rest)) /\ (i - 1) + 1 = i /\ i \in 1..Len(rest)
        BY <3>2, <2>3, <2>5, <1>r
      <4>2. below[i] = rest[i]
        BY <4>1, <2>3, <2>5
      <4>3. QED
        BY <4>1, <4>2, <1>w
    <3>3. QED
      BY <3>1, <3>2
  <2>7. stack' = below
    BY <2>1 DEF Pop
  <2>8. QED
    BY <2>6, <2>7 DEF CallsOK
<1>2. CASE ReturnToHost
  <2>1. stack' = <<>>
    BY <1>2 DEF ReturnToHost, Pop
  <2>2. 1..Len(stack') = {}
    BY <2>1
  <2>3. QED
    BY <2>2 DEF CallsOK
<1>3. CASE Unwind
  <2>1. stack' = rest
    BY <1>3 DEF Unwind, Pop
  <2>2. QED
    BY <2>1, <1>w DEF CallsOK
<1>4. CASE RefusalUnhandled \/ ResultRefused
  BY <1>4 DEF RefusalUnhandled, ResultRefused, Raise, CallsOK
<1>5. QED
  BY <1>1, <1>2, <1>3, <1>4 DEF Leaving

\* Loading, and every call of the host, keeps contracts and scopes.
LEMMA HostKeeps ==
    ASSUME Inv, CallsOK, Host
    PROVE  CallsOK'
<1>1. CASE Load \/ LoadRefused
  BY <1>1 DEF Load, LoadRefused, CallsOK
<1>2. ASSUME NEW name \in Names, NEW vs \in ArgLists, Invoke(name, vs)
      PROVE  CallsOK'
  <2>1. stack = <<>> /\ name \in DOMAIN Symbols /\ Push(Symbols[name], vs, <<>>)
    BY <1>2 DEF Invoke
  <2>2. Symbols[name] \in Definitions /\ Push(Symbols[name], vs, stack)
    BY <2>1, NameAssumption
  <2>3. QED
    BY <2>2, PushKeeps
<1>3. ASSUME NEW name \in Names, NoSuchDefinition(name)
      PROVE  CallsOK'
  BY <1>3 DEF NoSuchDefinition, CallsOK
<1>4. QED
  BY <1>1, <1>2, <1>3 DEF Host

-----------------------------------------------------------------------------
(***************************************************************************)
(* The memo.                                                               *)
(***************************************************************************)

\* The memo and the calls it remembers change when a call returns, together, and
\* when the host begins an invocation: both are then forgotten.
LEMMA MemoSteps ==
    ASSUME Next
    PROVE  \/ UNCHANGED <<memo, computed>>
           \/ Return
           \/ memo' = <<>> /\ computed' = {}
<1>1. CASE Clausewise
  BY <1>1 DEF Clausewise, BindParameters, ArgumentRefused, BeginClause, ClauseHolds,
     ClauseFails, GuardFails, NoGuard, PreconditionsHold, Dispatch, DispatchFails,
     BodyEnds, PostconditionsHold, Become, Raise
<1>2. CASE Evaluation
  BY <1>2 DEF Evaluation, EvalLiteral, EvalRefusal, EvalReference, ReferenceUnbound, Begin,
     CallableUnknown, EffectRefused, EvalPart, FinishLast, FinishWithData, FieldMissing,
     Become, Raise
<1>3. CASE Calling
  BY <1>3 DEF Calling, FinishPrimitive, FinishIsBottom, BottomReachesPrimitive,
     PrimitiveFails, AnswerFromMemo, Call, RecursionLimit, Become, Raise
<1>4. CASE Leaving
  BY <1>4 DEF Leaving, ReturnToHost, RefusalUnhandled, ResultRefused, Unwind, Raise
<1>5. CASE Host
  BY <1>5 DEF Host, Load, LoadRefused, Invoke, NoSuchDefinition, MemoAtInvoke
<1>6. QED
  BY <1>1, <1>2, <1>3, <1>4, <1>5 DEF Next, Step

\* What the memo answers stays what was computed.
LEMMA MemoKeeps ==
    ASSUME Inv, MemoOK, Next
    PROVE  MemoOK'
<1>1. CASE UNCHANGED <<memo, computed>>
  BY <1>1 DEF MemoOK, Key
<1>2. CASE memo' = <<>> /\ computed' = {}
  BY <1>2 DEF MemoOK
<1>3. CASE Return
  <2> DEFINE f == Top
             key == Key(f.defn, f.args)
             call == <<f.defn, f.args, f.result>>
  <2>1. /\ memo' = IF Pure(f.defn)
                   THEN [k \in DOMAIN memo \union {key} |->
                            IF k = key THEN f.result ELSE memo[k]]
                   ELSE memo
        /\ computed' = computed \union {call}
    BY <1>3 DEF Return
  <2>2. call \in computed' /\ computed \subseteq computed'
    BY <2>1
  <2>3. call[1] = f.defn /\ call[2] = f.args /\ call[3] = f.result
    OBVIOUS
  <2> HIDE DEF call, f
  <2>4. SUFFICES ASSUME NEW k \in DOMAIN memo'
                 PROVE  \E c \in computed' : k = Key(c[1], c[2]) /\ memo'[k] = c[3]
    BY DEF MemoOK, Key
  <2>5. CASE k = key /\ Pure(f.defn)
    <3>1. memo'[k] = f.result
      BY <2>1, <2>5
    <3>2. k = Key(call[1], call[2]) /\ memo'[k] = call[3]
      BY <2>3, <2>5, <3>1
    <3>3. QED
      BY <2>2, <3>2
  <2>6. CASE ~(k = key /\ Pure(f.defn))
    <3> HIDE DEF key
    <3>1. k \in DOMAIN memo /\ memo'[k] = memo[k]
      BY <2>1, <2>6
    <3>2. PICK c \in computed : k = Key(c[1], c[2]) /\ memo[k] = c[3]
      BY <3>1 DEF MemoOK
    <3>3. QED
      BY <2>2, <3>1, <3>2
  <2>7. QED
    BY <2>5, <2>6
<1>4. QED
  BY <1>1, <1>2, <1>3, MemoSteps

\* The same arguments, a refusal in a box and one out of it being the same.
SameArguments(vs, ws) ==
    /\ Len(vs) = Len(ws)
    /\ \A i \in 1..Len(ws) : vs[i] = ws[i] \/ {vs[i], ws[i]} = {Bottom, Boxed}

\* Keys that tell scalars and definitions apart tell calls apart, but for refusals in
\* a box and out of it.
LEMMA KeyTells ==
    ASSUME KeysDistinguish, NEW d \in Definitions, NEW e \in Definitions,
           NEW vs \in Seq(Values), NEW ws \in Seq(Values), Key(d, vs) = Key(e, ws)
    PROVE  d = e /\ SameArguments(vs, ws)
<1> DEFINE code(s) == [i \in 1..Len(s) |-> IF s[i] \in Scalars THEN KeyOf[s[i]] ELSE Bottom]
<1>1. NameOf[d] = NameOf[e] /\ code(vs) = code(ws)
  <2>1. Key(d, vs) = <<NameOf[d], code(vs)>> /\ Key(e, ws) = <<NameOf[e], code(ws)>>
    BY DEF Key
  <2>2. <<NameOf[d], code(vs)>> = <<NameOf[e], code(ws)>>
    BY <2>1
  <2> HIDE DEF code
  <2>3. QED
    BY <2>2
<1>2. d = e
  BY <1>1 DEF KeysDistinguish
<1>3. Len(vs) \in Nat /\ Len(ws) \in Nat /\ Len(vs) = Len(ws)
  <2>1. Len(vs) \in Nat /\ Len(ws) \in Nat /\ DOMAIN code(vs) = DOMAIN code(ws)
    BY <1>1
  <2>2. 1..Len(vs) = 1..Len(ws)
    BY <2>1
  <2>3. QED
    BY <2>1, <2>2
<1>4. ASSUME NEW i \in 1..Len(ws)
      PROVE  vs[i] = ws[i] \/ {vs[i], ws[i]} = {Bottom, Boxed}
  <2>1. code(vs)[i] = code(ws)[i]
    BY <1>1
  <2>2. (IF vs[i] \in Scalars THEN KeyOf[vs[i]] ELSE Bottom)
          = (IF ws[i] \in Scalars THEN KeyOf[ws[i]] ELSE Bottom)
    BY <2>1, <1>3
  <2>3. vs[i] \in Values /\ ws[i] \in Values
    BY <1>3
  <2> HIDE DEF code
  <2>4. CASE vs[i] \in Scalars \/ ws[i] \in Scalars
    BY <2>2, <2>4 DEF KeysDistinguish
  <2>5. CASE vs[i] \notin Scalars /\ ws[i] \notin Scalars
    BY <2>3, <2>5 DEF Values
  <2>6. QED
    BY <2>4, <2>5
<1>5. QED
  BY <1>2, <1>3, <1>4 DEF SameArguments

-----------------------------------------------------------------------------
(***************************************************************************)
(* Theorems.                                                               *)
(***************************************************************************)

\* The invariant is one.
LEMMA CallInvariance == Spec => [](Inv /\ CallInv)
<1>1. Init => CallInv
  <2> SUFFICES ASSUME Init
               PROVE  CallInv
    OBVIOUS
  <2>1. 1..Len(stack) = {} /\ DOMAIN memo = {}
    BY DEF Init
  <2>2. QED
    BY <2>1 DEF CallInv, CallsOK, MemoOK
<1>2. Inv /\ CallInv /\ [Next]_vars => CallInv'
  <2> SUFFICES ASSUME Inv, CallInv, [Next]_vars
               PROVE  CallInv'
    OBVIOUS
  <2>1. CASE UNCHANGED vars
    BY <2>1 DEF vars, CallInv, CallsOK, MemoOK, Key
  <2>2. CASE Next
    <3>1. MemoOK'
      BY <2>2, MemoKeeps DEF CallInv
    <3>2. CallsOK'
      BY <2>2, ClausewiseKeeps, EvaluationKeeps, CallingKeeps, LeavingKeeps, HostKeeps
         DEF CallInv, Next, Step
    <3>3. QED
      BY <3>1, <3>2 DEF CallInv
  <2>3. QED
    BY <2>1, <2>2
<1>3. QED
  BY <1>1, <1>2, Invariance, PTL DEF Spec

\* The body that runs is of a candidate whose guard held, after every precondition held
\* and every cheaper guard failed, and a result that is no refusal met every
\* postcondition: whatever the clauses call, recursion and the memo included.
THEOREM ContractsHeld == Spec => []ContractsKept
<1>1. CallInv => ContractsKept
  BY DEF CallInv, CallsOK, CallOK, ContractOK, ContractsKept
<1>2. QED
  BY <1>1, CallInvariance, PTL

\* A clause sees the parameters and the result, and no name that was bound inside an
\* expression, however deep the bindings were and wherever a call came between.
THEOREM NamesScoped == Spec => []BindingsScoped
<1>1. CallInv => BindingsScoped
  BY DEF CallInv, CallsOK, CallOK, ScopeOK, Scoped, Known, BindingsScoped
<1>2. QED
  BY <1>1, CallInvariance, PTL

\* The memo answers with the result of an earlier call of the same definition with the
\* same arguments in the same invocation, if its keys tell them apart.
THEOREM MemoIsFaithful == Spec => []MemoFaithful
<1>1. Inv /\ CallInv => MemoFaithful
  <2> SUFFICES ASSUME Inv, CallInv, KeysDistinguish, Running, Ready(Top),
                      Inner(Top).kind = "call", IsDefinition(Inner(Top).name),
                      Memoized(Callee, Done(Top))
               PROVE  \E c \in computed :
                         /\ c[1] = Callee /\ c[3] = memo[Key(Callee, Done(Top))]
                         /\ Len(c[2]) = Len(Done(Top))
                         /\ \A i \in 1..Len(Done(Top)) :
                               \/ c[2][i] = Done(Top)[i]
                               \/ {c[2][i], Done(Top)[i]} = {Bottom, Boxed}
    BY DEF MemoFaithful, AnswersAreComputed
  <2>1. FinishingDefinition /\ stack # <<>> /\ Top.work # <<>>
    BY DEF FinishingDefinition, Finishing, Running, Ready
  <2>2. Callee \in Definitions /\ Done(Top) \in Seq(Values)
    BY <2>1, CalleeOK, TopOK, InnermostOK
  <2>3. PICK c \in computed : /\ Key(Callee, Done(Top)) = Key(c[1], c[2])
                              /\ memo[Key(Callee, Done(Top))] = c[3]
    BY DEF CallInv, MemoOK, Memoized
  <2>4. c[1] \in Definitions /\ c[2] \in Seq(Values)
    BY DEF Inv, TypeOK
  <2> DEFINE d == Callee
             vs == Done(Top)
             e == c[1]
             ws == c[2]
  <2>5. Key(e, ws) = Key(d, vs)
    BY <2>3
  <2>6. d \in Definitions /\ e \in Definitions /\ vs \in Seq(Values) /\ ws \in Seq(Values)
    BY <2>2, <2>4
  <2> HIDE DEF d, e, vs, ws
  <2>7. e = d /\ SameArguments(ws, vs)
    BY <2>5, <2>6, KeyTells
  <2>8. QED
    BY <2>3, <2>7 DEF d, e, vs, ws, SameArguments
<1>2. QED
  BY <1>1, CallInvariance, PTL

=============================================================================
