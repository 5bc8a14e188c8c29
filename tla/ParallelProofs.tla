--------------------------- MODULE ParallelProofs ---------------------------
(***************************************************************************)
(* Proofs about the parallel evaluator, for any program, any declaration   *)
(* of effects, any entry and any order in which the branches run.          *)
(***************************************************************************)
EXTENDS ParallelEvaluator, ProgramTextProofs, FiniteSetTheorems, TLAPS

-----------------------------------------------------------------------------
(***************************************************************************)
(* Expressions and their effects.                                          *)
(***************************************************************************)

\* What can be reached from node n through parts: the smallest set with n in it and
\* the parts of every node in it.
Closed(S) == \A n \in S : \A i \in 1..Len(Node[n].parts) : Node[n].parts[i] \in S

Reached(n) == {m \in Nodes : \A S \in SUBSET Nodes : n \in S /\ Closed(S) => m \in S}

\* The parts of a node are nodes.
LEMMA PartsAreNodes ==
    ASSUME NEW n \in Nodes
    PROVE  /\ Node[n].parts \in Seq(Nodes) /\ Len(Node[n].parts) \in Nat
           /\ \A i \in 1..Len(Node[n].parts) : Node[n].parts[i] \in Nodes
<1>1. Node[n] \in NodeRecords
  BY NodeAssumption
<1>2. Node[n].parts \in Seq(Nodes)
  BY <1>1 DEF NodeRecords
<1>3. QED
  BY <1>2

\* Subtree, which is defined by recursion, satisfies its definition: what can be
\* reached does.
LEMMA SubtreeOf ==
    \A n \in Nodes :
        Subtree[n] = {n} \union UNION {Subtree[Node[n].parts[i]] : i \in 1..Len(Node[n].parts)}
<1> DEFINE Rec(f) == [n \in Nodes |->
                        {n} \union UNION {f[Node[n].parts[i]] : i \in 1..Len(Node[n].parts)}]
           r == [n \in Nodes |-> Reached(n)]
<1>1. ASSUME NEW n \in Nodes
      PROVE  Reached(n) = {n} \union UNION {Reached(Node[n].parts[i]) : i \in 1..Len(Node[n].parts)}
  <2> DEFINE T == {n} \union UNION {Reached(Node[n].parts[i]) : i \in 1..Len(Node[n].parts)}
  <2>1. T \in SUBSET Nodes /\ n \in T
    BY DEF Reached
  <2>2. Closed(Nodes)
    BY PartsAreNodes DEF Closed
  <2>3. \A m \in Nodes : m \in Reached(m)
    BY DEF Reached
  <2>4. \A m \in Nodes : Closed(Reached(m))
    <3> SUFFICES ASSUME NEW m \in Nodes, NEW k \in Reached(m), NEW i \in 1..Len(Node[k].parts)
                 PROVE  Node[k].parts[i] \in Reached(m)
      BY DEF Closed
    <3>1. k \in Nodes /\ Node[k].parts[i] \in Nodes
      BY PartsAreNodes DEF Reached
    <3>2. ASSUME NEW S \in SUBSET Nodes, m \in S, Closed(S)
          PROVE  Node[k].parts[i] \in S
      BY <3>2 DEF Closed, Reached
    <3>3. QED
      BY <3>1, <3>2 DEF Reached
  <2>5. \A i \in 1..Len(Node[n].parts) : Reached(Node[n].parts[i]) \subseteq Reached(n)
    <3> SUFFICES ASSUME NEW i \in 1..Len(Node[n].parts), NEW m \in Reached(Node[n].parts[i]),
                        NEW S \in SUBSET Nodes, n \in S, Closed(S)
                 PROVE  m \in S
      BY DEF Reached
    <3>1. Node[n].parts[i] \in S
      BY DEF Closed
    <3>2. QED
      BY <3>1 DEF Reached
  <2>6. T \subseteq Reached(n)
    BY <2>3, <2>5
  <2>7. Closed(T)
    <3> SUFFICES ASSUME NEW k \in T, NEW j \in 1..Len(Node[k].parts)
                 PROVE  Node[k].parts[j] \in T
      BY DEF Closed
    <3>1. CASE k = n
      BY <3>1, <2>3, PartsAreNodes
    <3>2. CASE k # n
      <4>1. PICK i \in 1..Len(Node[n].parts) : k \in Reached(Node[n].parts[i])
        BY <3>2
      <4>2. Node[n].parts[i] \in Nodes
        BY PartsAreNodes
      <4>3. Node[k].parts[j] \in Reached(Node[n].parts[i])
        BY <4>1, <4>2, <2>4 DEF Closed
      <4>4. QED
        BY <4>3
    <3>3. QED
      BY <3>1, <3>2
  <2>8. Reached(n) \subseteq T
    <3> HIDE DEF T
    <3>1. QED
      BY <2>1, <2>7 DEF Reached
  <2>9. QED
    BY <2>6, <2>8
<1>2. r = Rec(r)
  <2> SUFFICES ASSUME NEW n \in Nodes
               PROVE  r[n] = Rec(r)[n]
    OBVIOUS
  <2>1. \A i \in 1..Len(Node[n].parts) : r[Node[n].parts[i]] = Reached(Node[n].parts[i])
    BY PartsAreNodes
  <2>2. {r[Node[n].parts[i]] : i \in 1..Len(Node[n].parts)}
          = {Reached(Node[n].parts[i]) : i \in 1..Len(Node[n].parts)}
    BY <2>1
  <2>3. r[n] = Reached(n)
    OBVIOUS
  <2> HIDE DEF r
  <2>4. QED
    BY <1>1, <2>2, <2>3
<1>3. Subtree = CHOOSE f : f = Rec(f)
  BY DEF Subtree
<1>4. Subtree = Rec(Subtree)
  <2> HIDE DEF r, Rec
  <2>1. \E f : f = Rec(f)
    BY <1>2
  <2>2. QED
    BY <1>3, <2>1
<1>5. QED
  BY <1>4

\* The effects of a part are effects of the whole, and those of a callee effects of
\* the call.
LEMMA EffectsOfParts ==
    ASSUME NEW n \in Nodes
    PROVE  /\ \A i \in 1..Len(Node[n].parts) : ExprEffects(Node[n].parts[i]) \subseteq ExprEffects(n)
           /\ IsUserCall(n) => declared[Lookup(Node[n].name)] \subseteq ExprEffects(n)
<1>1. Subtree[n] = {n} \union UNION {Subtree[Node[n].parts[i]] : i \in 1..Len(Node[n].parts)}
  BY SubtreeOf
<1>2. n \in Subtree[n] /\ \A i \in 1..Len(Node[n].parts) : Subtree[Node[n].parts[i]] \subseteq Subtree[n]
  BY <1>1
<1>3. ASSUME NEW i \in 1..Len(Node[n].parts)
      PROVE  ExprEffects(Node[n].parts[i]) \subseteq ExprEffects(n)
  BY <1>2 DEF ExprEffects
<1>4. ASSUME IsUserCall(n)
      PROVE  declared[Lookup(Node[n].name)] \subseteq ExprEffects(n)
  BY <1>2, <1>4 DEF ExprEffects
<1>5. QED
  BY <1>3, <1>4

-----------------------------------------------------------------------------
(***************************************************************************)
(* Sequences, whatever their elements are.                                 *)
(***************************************************************************)
IsSeq(s) == s \in Seq({s[i] : i \in 1..Len(s)})

\* A sequence over some set is one over its elements.
LEMMA SeqIsSeq ==
    ASSUME NEW S, NEW s \in Seq(S)
    PROVE  IsSeq(s) /\ Len(s) \in Nat
<1>1. Len(s) \in Nat /\ DOMAIN s = 1..Len(s) /\ s = [i \in 1..Len(s) |-> s[i]]
  OBVIOUS
<1> DEFINE T == {s[i] : i \in 1..Len(s)}
<1>2. \A i \in 1..Len(s) : s[i] \in T
  OBVIOUS
<1> HIDE DEF T
<1>3. [i \in 1..Len(s) |-> s[i]] \in Seq(T)
  BY <1>1, <1>2
<1>4. QED
  BY <1>1, <1>3 DEF IsSeq, T

\* A sequence, and what a push makes of it.
LEMMA Pushed ==
    ASSUME NEW s, IsSeq(s), NEW x
    PROVE  /\ IsSeq(<<x>> \o s) /\ <<x>> \o s # <<>> /\ Len(s) \in Nat
           /\ Len(<<x>> \o s) = Len(s) + 1 /\ Head(<<x>> \o s) = x
           /\ (<<x>> \o s)[1] = x
           /\ \A i \in 2..Len(<<x>> \o s) : i - 1 \in 1..Len(s) /\ (<<x>> \o s)[i] = s[i - 1]
<1> DEFINE T == {s[i] : i \in 1..Len(s)} \union {x}
<1>1. s \in Seq(T) /\ x \in T
  <2> DEFINE U == {s[i] : i \in 1..Len(s)}
  <2>1. s \in Seq(U) /\ U \subseteq T
    BY DEF IsSeq
  <2> HIDE DEF U, T
  <2>2. s \in Seq(T)
    BY <2>1
  <2>3. QED
    BY <2>2 DEF T
<1> HIDE DEF T
<1>2. /\ <<x>> \o s \in Seq(T) /\ <<x>> \o s # <<>> /\ Len(s) \in Nat
      /\ Len(<<x>> \o s) = Len(s) + 1 /\ Head(<<x>> \o s) = x
      /\ (<<x>> \o s)[1] = x
      /\ \A i \in 1..Len(s) : (<<x>> \o s)[i + 1] = s[i]
  BY <1>1
<1>3. ASSUME NEW i \in 2..Len(<<x>> \o s)
      PROVE  i - 1 \in 1..Len(s) /\ (<<x>> \o s)[i] = s[i - 1]
  <2>1. i - 1 \in 1..Len(s) /\ (i - 1) + 1 = i
    BY <1>2
  <2>2. QED
    BY <2>1, <1>2
<1>4. IsSeq(<<x>> \o s)
  BY <1>2, SeqIsSeq
<1>5. QED
  BY <1>2, <1>3, <1>4

\* What it is made of.
LEMMA Popped ==
    ASSUME NEW s, IsSeq(s), s # <<>>
    PROVE  /\ Len(s) \in Nat \ {0} /\ Head(s) = s[1]
           /\ IsSeq(Tail(s)) /\ Len(Tail(s)) = Len(s) - 1
           /\ \A i \in 1..Len(Tail(s)) : i + 1 \in 1..Len(s) /\ Tail(s)[i] = s[i + 1]
<1> DEFINE T == {s[i] : i \in 1..Len(s)}
<1>1. s \in Seq(T)
  BY DEF IsSeq
<1> HIDE DEF T
<1>2. /\ Len(s) \in Nat \ {0} /\ Head(s) = s[1]
      /\ Tail(s) \in Seq(T) /\ Len(Tail(s)) = Len(s) - 1
      /\ \A i \in 1..Len(Tail(s)) : Tail(s)[i] = s[i + 1]
  BY <1>1
<1>3. \A i \in 1..Len(Tail(s)) : i + 1 \in 1..Len(s)
  BY <1>2
<1>4. IsSeq(Tail(s))
  BY <1>2, SeqIsSeq
<1>5. QED
  BY <1>2, <1>3, <1>4

\* A new first element.
LEMMA Replaced ==
    ASSUME NEW s, IsSeq(s), s # <<>>, NEW x
    PROVE  /\ IsSeq(<<x>> \o Tail(s)) /\ <<x>> \o Tail(s) # <<>>
           /\ Len(<<x>> \o Tail(s)) = Len(s) /\ Len(s) \in Nat \ {0}
           /\ (<<x>> \o Tail(s))[1] = x /\ Head(<<x>> \o Tail(s)) = x
           /\ \A i \in 2..Len(s) : (<<x>> \o Tail(s))[i] = s[i]
<1> DEFINE t == Tail(s)
           u == <<x>> \o t
<1>1. /\ IsSeq(t) /\ Len(s) \in Nat \ {0} /\ Len(t) = Len(s) - 1
      /\ \A i \in 1..Len(t) : t[i] = s[i + 1]
  BY Popped
<1> HIDE DEF t
<1>2. /\ IsSeq(u) /\ u # <<>> /\ Len(u) = Len(t) + 1 /\ Head(u) = x /\ u[1] = x
      /\ \A i \in 2..Len(u) : i - 1 \in 1..Len(t) /\ u[i] = t[i - 1]
  BY <1>1, Pushed
<1> HIDE DEF u
<1>3. Len(u) = Len(s)
  BY <1>1, <1>2
<1>4. ASSUME NEW i \in 2..Len(s)
      PROVE  u[i] = s[i]
  <2>1. i - 1 \in 1..Len(t) /\ u[i] = t[i - 1] /\ (i - 1) + 1 = i
    BY <1>2, <1>3
  <2>2. QED
    BY <1>1, <2>1
<1>5. QED
  BY <1>1, <1>2, <1>3, <1>4 DEF t, u

\* What is appended to a sequence leaves one.
LEMMA Appended ==
    ASSUME NEW s, IsSeq(s), NEW x
    PROVE  IsSeq(Append(s, x)) /\ Len(s) \in Nat
<1> DEFINE U == {s[i] : i \in 1..Len(s)}
           T == U \union {x}
<1>1. s \in Seq(U) /\ U \subseteq T /\ x \in T
  BY DEF IsSeq
<1> HIDE DEF U, T
<1>2. s \in Seq(T) /\ Len(s) \in Nat
  BY <1>1
<1>3. Append(s, x) \in Seq(T)
  BY <1>1, <1>2
<1>4. QED
  BY <1>2, <1>3, SeqIsSeq

-----------------------------------------------------------------------------
(***************************************************************************)
(* The inductive invariant.  What a value may be does not matter to it:    *)
(* frames are known by their fields and by the nodes in them.              *)
(***************************************************************************)
Working == mode \in {"tree walker", "parallel"}

BegunOK(E, d, w) ==
    /\ DOMAIN w = {"node", "done", "outer"}
    /\ w.node \in Nodes /\ Owner[w.node] = d /\ EffectsOf(w.node) \subseteq E[d]
    /\ IsSeq(w.done)

\* What a frame evaluates is its definition's, and the primitives it has begun were
\* allowed by the signature; a branch keeps the budget of the frame it copies.
FrameOK(E, f) ==
    /\ DOMAIN f = {"defn", "phase", "at", "allowed", "satisfied", "focus", "work", "given",
                   "result", "locals"}
    /\ f.defn \in Local \union Imported
    /\ f.at \in Nat \ {0} /\ f.satisfied \subseteq 1..Len(Candidates[f.defn])
    /\ f.phase = "branch" => f.allowed \subseteq E[f.defn]
    /\ f.focus # NoNode => f.focus \in Nodes /\ Owner[f.focus] = f.defn
    /\ IsSeq(f.work) /\ \A i \in 1..Len(f.work) : BegunOK(E, f.defn, f.work[i])

\* Below the innermost frame is the call it evaluates.
InterpOK(E, interp) ==
    /\ DOMAIN interp = {"stack", "depth", "trace", "outcome"}
    /\ IsSeq(interp.stack) /\ \A i \in 1..Len(interp.stack) : FrameOK(E, interp.stack[i])
    /\ \A i \in 2..Len(interp.stack) : interp.stack[i].work # <<>>

\* The nodes a frame is at work on.
NodesOf(f) == ({f.focus} \ {NoNode}) \union {f.work[i].node : i \in 1..Len(f.work)}

\* Whatever the frame still calls declares effects of S only: because its definition
\* does, or, for a branch, because the part it evaluates does.
Within(f, S) ==
    \/ declared[f.defn] \subseteq S
    \/ f.phase = "branch" /\ \A n \in NodesOf(f) : ExprEffects(n) \subseteq S

\* The task above t at level k, and the part of its concatenation that leads to t.
Above(t, k)  == SubSeq(t, 1, k)
PartAt(t, k) == Node[Top(Above(t, k - 1)).focus].parts[t[k]]

\* The tasks above a task wait for it, at a concatenation that may run in parallel.
WaitingAt(p, i) ==
    /\ p \in Tasks /\ ~Ended(p)
    /\ \A n \in {Top(p).focus} :
          n \in Nodes /\ i \in 1..Len(Node[n].parts) /\ AllDisjoint(Node[n].parts)

Paths ==
    /\ Tasks \subseteq Seq(Nat) /\ <<>> \in Tasks
    /\ \A t \in Tasks : t # <<>> => mode = "parallel"
    /\ \A t \in Tasks : \A k \in 1..Len(t) : WaitingAt(Above(t, k - 1), t[k])

\* What a task does stays within the declared effects of each part that led to it.
ConfinedTo(stack, S) == \A i \in 1..Len(stack) : Within(stack[i], S)

Confined ==
    ImportsDeclare =>
        \A t \in Tasks : \A k \in 1..Len(t) :
            \A n \in {PartAt(t, k)} : ConfinedTo(task[t].stack, ExprEffects(n))

Inv ==
    /\ declared \in [Definitions -> SUBSET Effects] /\ entry \in Entries
    /\ Working => EffectsDeclared
    /\ \A t \in Tasks : InterpOK(declared, task[t]) /\ (Working /\ ~Ended(t) => task[t].stack # <<>>)
    /\ Paths
    /\ Confined

-----------------------------------------------------------------------------
(***************************************************************************)
(* Frames.                                                                 *)
(***************************************************************************)

\* Frame g comes after f in the same call or branch.
Follows(f, g) ==
    /\ g.defn = f.defn /\ (g.phase = "branch" <=> f.phase = "branch")
    /\ f.phase = "branch" =>
          \A n \in NodesOf(g) : \E m \in NodesOf(f) : ExprEffects(n) \subseteq ExprEffects(m)

\* What f stays within, g does.
LEMMA FollowsWithin ==
    ASSUME NEW f, NEW g, Follows(f, g), NEW S, Within(f, S)
    PROVE  Within(g, S)
<1>1. CASE declared[f.defn] \subseteq S
  BY <1>1 DEF Follows, Within
<1>2. CASE f.phase = "branch" /\ \A n \in NodesOf(f) : ExprEffects(n) \subseteq S
  <2>1. g.phase = "branch"
    BY <1>2 DEF Follows
  <2>2. ASSUME NEW n \in NodesOf(g)
        PROVE  ExprEffects(n) \subseteq S
    <3>1. PICK m \in NodesOf(f) : ExprEffects(n) \subseteq ExprEffects(m)
      BY <1>2 DEF Follows
    <3>2. QED
      BY <1>2, <3>1
  <2>3. QED
    BY <2>1, <2>2 DEF Within
<1>3. QED
  BY <1>1, <1>2 DEF Within

\* A frame that is given a value.
LEMMA GiveOK ==
    ASSUME NEW E, NEW f, FrameOK(E, f), NEW v
    PROVE  FrameOK(E, Give(f, v)) /\ Follows(f, Give(f, v))
<1>1. CASE f.work = <<>>
  <2> DEFINE g == [f EXCEPT !.focus = NoNode, !.given = v]
  <2>1. Give(f, v) = g
    BY <1>1 DEF Give
  <2>2. /\ DOMAIN g = DOMAIN f /\ g.defn = f.defn /\ g.phase = f.phase /\ g.at = f.at
        /\ g.allowed = f.allowed /\ g.satisfied = f.satisfied
        /\ g.focus = NoNode /\ g.work = f.work
    BY DEF FrameOK
  <2> HIDE DEF g
  <2>3. FrameOK(E, g)
    BY <2>2 DEF FrameOK
  <2>4. Follows(f, g)
    BY <2>2 DEF Follows, NodesOf
  <2>5. QED
    BY <2>1, <2>3, <2>4
<1>2. CASE f.work # <<>>
  <2> DEFINE h == Head(f.work)
             w == [h EXCEPT !.done = Append(@, v)]
             ws == <<w>> \o Tail(f.work)
             g == [f EXCEPT !.focus = NoNode, !.work = ws]
  <2>1. Give(f, v) = g
    BY <1>2 DEF Give
  <2>2. /\ DOMAIN g = DOMAIN f /\ g.defn = f.defn /\ g.phase = f.phase /\ g.at = f.at
        /\ g.allowed = f.allowed /\ g.satisfied = f.satisfied
        /\ g.focus = NoNode /\ g.work = ws
    BY DEF FrameOK
  <2>3. Len(f.work) \in Nat \ {0} /\ h = f.work[1]
    BY <1>2, Popped DEF FrameOK
  <2>4. BegunOK(E, f.defn, h)
    BY <2>3 DEF FrameOK
  <2> HIDE DEF h
  <2>5. BegunOK(E, f.defn, w) /\ w.node = f.work[1].node
    <3>1. IsSeq(Append(h.done, v))
      BY <2>4, Appended DEF BegunOK
    <3>2. DOMAIN w = DOMAIN h /\ w.node = h.node /\ w.done = Append(h.done, v)
      BY <2>4 DEF BegunOK
    <3> HIDE DEF w
    <3>3. QED
      BY <2>3, <2>4, <3>1, <3>2 DEF BegunOK
  <2> HIDE DEF w
  <2>6. /\ IsSeq(ws) /\ Len(ws) = Len(f.work) /\ ws[1] = w
        /\ \A i \in 2..Len(f.work) : ws[i] = f.work[i]
    BY <1>2, Replaced DEF FrameOK
  <2> HIDE DEF ws, g
  <2>7. \A i \in 1..Len(ws) :
           i \in 1..Len(f.work) /\ BegunOK(E, f.defn, ws[i]) /\ ws[i].node = f.work[i].node
    <3> SUFFICES ASSUME NEW i \in 1..Len(ws)
                 PROVE  /\ i \in 1..Len(f.work) /\ BegunOK(E, f.defn, ws[i])
                        /\ ws[i].node = f.work[i].node
      OBVIOUS
    <3>1. CASE i = 1
      BY <3>1, <2>3, <2>5, <2>6
    <3>2. CASE i # 1
      <4>1. ws[i] = f.work[i] /\ i \in 1..Len(f.work)
        BY <3>2, <2>3, <2>6
      <4>2. QED
        BY <4>1 DEF FrameOK
    <3>3. QED
      BY <3>1, <3>2
  <2>8. FrameOK(E, g)
    BY <2>2, <2>6, <2>7 DEF FrameOK
  <2>9. NodesOf(g) \subseteq NodesOf(f)
    BY <2>2, <2>7 DEF NodesOf
  <2>10. Follows(f, g)
    BY <2>2, <2>9 DEF Follows
  <2>11. QED
    BY <2>1, <2>8, <2>10
<1>3. QED
  BY <1>1, <1>2

\* One frame after another.
LEMMA FollowsTwice ==
    ASSUME NEW f, NEW g, NEW h, Follows(f, g), Follows(g, h)
    PROVE  Follows(f, h)
<1>1. ASSUME f.phase = "branch", NEW n \in NodesOf(h)
      PROVE  \E m \in NodesOf(f) : ExprEffects(n) \subseteq ExprEffects(m)
  <2>1. PICK k \in NodesOf(g) : ExprEffects(n) \subseteq ExprEffects(k)
    BY <1>1 DEF Follows
  <2>2. PICK m \in NodesOf(f) : ExprEffects(k) \subseteq ExprEffects(m)
    BY <1>1 DEF Follows
  <2>3. QED
    BY <2>1, <2>2
<1>2. QED
  BY <1>1 DEF Follows

\* A frame whose innermost expression is finished.
LEMMA FinishOK ==
    ASSUME NEW E, NEW f, FrameOK(E, f), f.work # <<>>, NEW v
    PROVE  FrameOK(E, Finish(f, v)) /\ Follows(f, Finish(f, v))
<1> DEFINE env == Head(f.work).outer
           g == [f EXCEPT !.work = Tail(f.work), !.locals = env]
<1> HIDE DEF env
<1>1. /\ DOMAIN g = DOMAIN f /\ g.defn = f.defn /\ g.phase = f.phase /\ g.at = f.at
      /\ g.allowed = f.allowed /\ g.satisfied = f.satisfied
      /\ g.focus = f.focus /\ g.work = Tail(f.work)
  BY DEF FrameOK
<1>2. Finish(f, v) = Give(g, v)
  BY DEF Finish, env
<1> HIDE DEF g
<1>3. /\ IsSeq(g.work)
      /\ \A i \in 1..Len(g.work) : i + 1 \in 1..Len(f.work) /\ g.work[i] = f.work[i + 1]
  BY <1>1, Popped DEF FrameOK
<1>4. FrameOK(E, g)
  BY <1>1, <1>3 DEF FrameOK
<1>5. NodesOf(g) \subseteq NodesOf(f)
  BY <1>1, <1>3 DEF NodesOf
<1>6. Follows(f, g)
  BY <1>1, <1>5 DEF Follows
<1>7. QED
  BY <1>2, <1>4, <1>6, GiveOK, FollowsTwice

-----------------------------------------------------------------------------
(***************************************************************************)
(* Tasks and their paths.                                                  *)
(***************************************************************************)

\* The path above a path.
LEMMA AbovePath ==
    ASSUME NEW t \in Seq(Nat), NEW k \in 0..Len(t)
    PROVE  /\ Above(t, k) \in Seq(Nat) /\ Len(Above(t, k)) = k
           /\ \A i \in 1..k : Above(t, k)[i] = t[i]
           /\ \A j \in 0..k : Above(Above(t, k), j) = Above(t, j)
           /\ Above(t, Len(t)) = t
<1>1. /\ SubSeq(t, 1, k) \in Seq(Nat) /\ Len(SubSeq(t, 1, k)) = k
      /\ \A i \in 1..k : SubSeq(t, 1, k)[i] = t[i]
  OBVIOUS
<1>2. ASSUME NEW j \in 0..k
      PROVE  SubSeq(SubSeq(t, 1, k), 1, j) = SubSeq(t, 1, j)
  OBVIOUS
<1>3. SubSeq(t, 1, Len(t)) = t
  OBVIOUS
<1>4. QED
  BY <1>1, <1>2, <1>3 DEF Above

\* A task without branches has no task below it.
LEMMA NoneBelow ==
    ASSUME Paths, NEW t \in Tasks, Kids(t) = {}, NEW u \in Tasks, NEW k \in 1..Len(u)
    PROVE  Above(u, k - 1) # t
<1> SUFFICES ASSUME Above(u, k - 1) = t
             PROVE  FALSE
  OBVIOUS
<1>1. u \in Seq(Nat) /\ t \in Seq(Nat) /\ Len(u) \in Nat
  BY DEF Paths
<1>2. k \in 0..Len(u) /\ k - 1 \in 0..k /\ k - 1 \in 0..Len(u)
  BY <1>1
<1>3. Above(u, k) \in Tasks
  <2>1. CASE k = Len(u)
    BY <2>1, <1>1, <1>2, AbovePath
  <2>2. CASE k # Len(u)
    <3>1. k + 1 \in 1..Len(u) /\ (k + 1) - 1 = k
      BY <2>2, <1>1
    <3>2. QED
      BY <3>1 DEF Paths, WaitingAt
  <2>3. QED
    BY <2>1, <2>2
<1>4. Len(Above(u, k)) = k /\ Len(t) = k - 1 /\ Above(Above(u, k), k - 1) = t
  BY <1>1, <1>2, AbovePath
<1>5. Len(Above(u, k)) = Len(t) + 1 /\ SubSeq(Above(u, k), 1, Len(t)) = t
  BY <1>4 DEF Above
<1>6. QED
  BY <1>3, <1>5 DEF Kids

\* A task that is at work, and its innermost frame.
LEMMA ActiveOK ==
    ASSUME Inv, NEW t \in Tasks, Active(t)
    PROVE  /\ Working /\ ~Ended(t) /\ Kids(t) = {} /\ InterpOK(declared, task[t])
           /\ task[t].stack # <<>> /\ IsSeq(task[t].stack)
           /\ Top(t) = task[t].stack[1] /\ 1 \in 1..Len(task[t].stack)
           /\ FrameOK(declared, Top(t))
<1>1. Working /\ ~Ended(t) /\ Kids(t) = {}
  BY DEF Active, Working
<1>2. InterpOK(declared, task[t]) /\ task[t].stack # <<>> /\ IsSeq(task[t].stack)
  BY <1>1 DEF Inv, InterpOK
<1>3. Top(t) = task[t].stack[1] /\ 1 \in 1..Len(task[t].stack)
  BY <1>2, Popped DEF Top
<1>4. QED
  BY <1>1, <1>2, <1>3 DEF InterpOK

\* Declared effects do not change, nor what follows from them.
LEMMA SameDeclared ==
    ASSUME UNCHANGED declared
    PROVE  /\ \A n : ExprEffects(n)' = ExprEffects(n)
           /\ \A ns : AllDisjoint(ns)' = AllDisjoint(ns)
           /\ ImportsDeclare' = ImportsDeclare /\ EffectsDeclared' = EffectsDeclared
  BY DEF ExprEffects, AllDisjoint, ImportsDeclare, EffectsDeclared

\* A step of one task that keeps its frames well formed and within what they were
\* within keeps the invariant, if it leaves the tasks above others alone.
LEMMA ChangeOK ==
    ASSUME Inv, NEW t \in Tasks, NEW interp, InterpOK(declared, interp),
           interp.outcome = NoOutcome => interp.stack # <<>>,
           ASSUME NEW S, ImportsDeclare, ConfinedTo(task[t].stack, S)
           PROVE  ConfinedTo(interp.stack, S),
           NEW T \in SUBSET Tasks, t \in T, <<>> \in T,
           \A u \in T : \A k \in 1..Len(u) : Above(u, k - 1) \in T \ {t},
           task' = [u \in T |-> IF u = t THEN interp ELSE task[u]],
           UNCHANGED <<declared, entry, mode, expected>>
    PROVE  Inv'
<1>1. Tasks' = T /\ task'[t] = interp /\ \A u \in T \ {t} : task'[u] = task[u]
  BY DEF Tasks
<1>2. /\ \A u \in T \ {t} : Top(u)' = Top(u) /\ Ended(u)' = Ended(u)
      /\ Working' = Working
  BY <1>1 DEF Top, Ended, Working
<1>3. \A u \in T : InterpOK(declared, task'[u]) /\ (Working /\ ~Ended(u)' => task'[u].stack # <<>>)
  <2> SUFFICES ASSUME NEW u \in T
               PROVE  /\ InterpOK(declared, task'[u])
                      /\ Working /\ ~Ended(u)' => task'[u].stack # <<>>
    OBVIOUS
  <2>1. CASE u = t
    BY <2>1, <1>1 DEF Ended
  <2>2. CASE u # t
    BY <2>2, <1>1, <1>2 DEF Inv
  <2>3. QED
    BY <2>1, <2>2
<1>4. Paths'
  <2> SUFFICES ASSUME NEW u \in T, NEW k \in 1..Len(u)
               PROVE  WaitingAt(Above(u, k - 1), u[k])'
    BY <1>1 DEF Inv, Paths
  <2> DEFINE p == Above(u, k - 1)
  <2>1. WaitingAt(p, u[k]) /\ p \in T \ {t}
    BY DEF Inv, Paths
  <2>2. Top(p)' = Top(p) /\ Ended(p)' = Ended(p) /\ p \in Tasks'
    BY <2>1, <1>1, <1>2
  <2> HIDE DEF p
  <2>3. WaitingAt(p, u[k])'
    BY <2>1, <2>2, SameDeclared DEF WaitingAt
  <2>4. QED
    BY <2>3 DEF p
<1>5. Confined'
  <2> SUFFICES ASSUME ImportsDeclare, NEW u \in T, NEW k \in 1..Len(u),
                      NEW n, n = PartAt(u, k)'
               PROVE  ConfinedTo(task[u].stack, ExprEffects(n))'
    BY <1>1, SameDeclared DEF Confined
  <2>1. PartAt(u, k)' = PartAt(u, k)
    BY <1>2 DEF PartAt
  <2>2. ConfinedTo(task[u].stack, ExprEffects(n))
    BY <2>1 DEF Inv, Confined
  <2>3. ConfinedTo(task'[u].stack, ExprEffects(n))
    BY <2>2, <1>1
  <2>4. QED
    BY <2>3, SameDeclared DEF ConfinedTo, Within
<1>6. QED
  BY <1>1, <1>2, <1>3, <1>4, <1>5, SameDeclared DEF Inv

\* A task at work has no others below it, so that its own step is one of these.
LEMMA UpdateOK ==
    ASSUME Inv, NEW t \in Tasks, Active(t), NEW interp, InterpOK(declared, interp),
           interp.outcome = NoOutcome => interp.stack # <<>>,
           ASSUME NEW S, ImportsDeclare, ConfinedTo(task[t].stack, S)
           PROVE  ConfinedTo(interp.stack, S),
           Update(t, interp)
    PROVE  Inv'
<1>1. UNCHANGED <<declared, entry, mode, expected>>
  BY DEF Update
<1>2. task' = [u \in Tasks |-> IF u = t THEN interp ELSE task[u]]
  BY DEF Update, Tasks
<1>3. \A u \in Tasks : \A k \in 1..Len(u) : Above(u, k - 1) \in Tasks \ {t}
  BY ActiveOK, NoneBelow DEF Inv, Paths, WaitingAt
<1>4. <<>> \in Tasks
  BY DEF Inv, Paths
<1>5. QED
  BY <1>1, <1>2, <1>3, <1>4, ChangeOK

\* A step of the innermost frame: it may follow in the call or branch, or belong to
\* anything that stays within the same effects.
LEMMA TopOK ==
    ASSUME Inv, NEW t \in Tasks, Active(t), NEW g, FrameOK(declared, g),
           ASSUME NEW S, ImportsDeclare, Within(Top(t), S)
           PROVE  Within(g, S),
           NEW interp, DOMAIN interp = DOMAIN task[t], interp.outcome = NoOutcome,
           interp.stack = <<g>> \o Tail(task[t].stack), Update(t, interp)
    PROVE  Inv'
<1> DEFINE s == task[t].stack
           u == <<g>> \o Tail(s)
<1>1. /\ InterpOK(declared, task[t]) /\ s # <<>> /\ IsSeq(s) /\ ~Ended(t)
      /\ Top(t) = s[1] /\ 1 \in 1..Len(s)
  BY ActiveOK
<1>2. interp.stack = u
  OBVIOUS
<1> HIDE DEF s
<1>4. /\ IsSeq(u) /\ u # <<>> /\ Len(u) = Len(s) /\ u[1] = g
      /\ \A i \in 2..Len(s) : u[i] = s[i]
  BY <1>1, Replaced
<1> HIDE DEF u
<1>5. \A i \in 1..Len(u) : i \in 1..Len(s) /\ (i = 1 \/ u[i] = s[i])
  BY <1>1, <1>4
<1>6. InterpOK(declared, interp)
  <2>1. \A i \in 1..Len(u) : FrameOK(declared, u[i])
    BY <1>1, <1>4, <1>5 DEF InterpOK, s
  <2>2. \A i \in 2..Len(u) : u[i].work # <<>>
    BY <1>1, <1>4 DEF InterpOK, s
  <2>3. QED
    BY <2>1, <2>2, <1>1, <1>2, <1>4 DEF InterpOK
<1>7. ASSUME NEW S, ImportsDeclare, ConfinedTo(s, S)
      PROVE  ConfinedTo(u, S)
  <2>1. Within(Top(t), S)
    BY <1>1, <1>7 DEF ConfinedTo
  <2>2. Within(g, S)
    BY <2>1, <1>7
  <2>3. QED
    BY <2>2, <1>4, <1>5, <1>7 DEF ConfinedTo
<1>8. QED
  BY <1>2, <1>4, <1>6, <1>7, UpdateOK DEF s

\* The same for a step that changes nothing else.
LEMMA BecomeOK ==
    ASSUME Inv, NEW t \in Tasks, Active(t), NEW g, FrameOK(declared, g),
           ASSUME NEW S, ImportsDeclare, Within(Top(t), S)
           PROVE  Within(g, S),
           Become(t, g)
    PROVE  Inv'
<1> DEFINE interp == [task[t] EXCEPT !.stack = <<g>> \o Tail(@)]
<1>1. DOMAIN interp = DOMAIN task[t] /\ interp.outcome = NoOutcome
  BY ActiveOK DEF InterpOK, Ended
<1>2. interp.stack = <<g>> \o Tail(task[t].stack)
  BY ActiveOK DEF InterpOK
<1>3. Update(t, interp)
  BY DEF Become
<1> HIDE DEF interp
<1>4. QED
  BY <1>1, <1>2, <1>3, TopOK

\* A step that follows in the call or branch.
LEMMA FollowOK ==
    ASSUME Inv, NEW t \in Tasks, Active(t), NEW g, FrameOK(declared, g), Follows(Top(t), g),
           Become(t, g)
    PROVE  Inv'
<1>1. ASSUME NEW S, ImportsDeclare, Within(Top(t), S)
      PROVE  Within(g, S)
  BY <1>1, FollowsWithin
<1>2. QED
  BY <1>1, BecomeOK

\* An interpreter that has ended holds no frames.
LEMMA EndOK ==
    ASSUME Inv, NEW t \in Tasks, Active(t), NEW interp,
           DOMAIN interp = {"stack", "depth", "trace", "outcome"},
           interp.stack = <<>>, interp.outcome # NoOutcome, Update(t, interp)
    PROVE  Inv'
<1>1. IsSeq(interp.stack) /\ 1..Len(interp.stack) = {} /\ 2..Len(interp.stack) = {}
  <2>1. <<>> \in Seq(Nat) /\ Len(<<>>) = 0
    OBVIOUS
  <2>2. IsSeq(<<>>)
    BY <2>1, SeqIsSeq
  <2>3. QED
    BY <2>1, <2>2
<1>2. InterpOK(declared, interp)
  BY <1>1 DEF InterpOK
<1>3. ASSUME NEW S, ImportsDeclare, ConfinedTo(task[t].stack, S)
      PROVE  ConfinedTo(interp.stack, S)
  BY <1>1 DEF ConfinedTo
<1>4. QED
  BY <1>2, <1>3, UpdateOK

\* An error ends a task.
LEMMA RaiseOK ==
    ASSUME Inv, NEW t \in Tasks, Active(t), NEW e, Raise(t, e)
    PROVE  Inv'
<1> DEFINE interp == [task[t] EXCEPT !.stack = <<>>, !.outcome = Err(e),
                                     !.depth = @ - Calls(task[t].stack)]
<1>1. Update(t, interp) /\ Err(e) # NoOutcome
  BY DEF Raise, Err, NoOutcome
<1>2. /\ DOMAIN interp = {"stack", "depth", "trace", "outcome"}
      /\ interp.stack = <<>> /\ interp.outcome = Err(e)
  BY ActiveOK DEF InterpOK
<1> HIDE DEF interp
<1>3. QED
  BY <1>1, <1>2, EndOK

-----------------------------------------------------------------------------
(***************************************************************************)
(* Clauses and dispatch.                                                   *)
(***************************************************************************)

\* What a frame evaluates as a clause is a node of its definition.
LEMMA ClauseOK ==
    ASSUME NEW E, NEW f, FrameOK(E, f), InClauses(f)
    PROVE  /\ f.phase # "branch"
           /\ Clause(f) # NoNode => Clause(f) \in Nodes /\ Owner[Clause(f)] = f.defn
           /\ f.phase = "guard" \/ Clause(f) = NoNode => f.at \in 1..Len(Candidates[f.defn])
<1>1. f.defn \in Definitions /\ f.at \in Nat \ {0} /\ f.phase \in ClausePhases
  BY NameAssumption DEF FrameOK, InClauses, Local, Imported
<1>2. CASE f.phase = "pre"
  <2>1. f.at \in 1..Len(Pre[f.defn]) /\ Pre[f.defn] \in Seq(Nodes)
    BY <1>1, <1>2, DefinitionAssumption DEF InClauses, ClauseCount
  <2>2. Clause(f) = Pre[f.defn][f.at]
    BY <1>2 DEF Clause
  <2>3. Clause(f) \in Nodes /\ Clause(f) \in Clauses(f.defn)
    BY <2>1, <2>2 DEF Clauses
  <2>4. QED
    BY <2>3, <1>1, <1>2, NodeAssumption
<1>3. CASE f.phase = "post"
  <2>1. f.at \in 1..Len(Post[f.defn]) /\ Post[f.defn] \in Seq(Nodes)
    BY <1>1, <1>3, DefinitionAssumption DEF InClauses, ClauseCount
  <2>2. Clause(f) = Post[f.defn][f.at]
    BY <1>3 DEF Clause
  <2>3. Clause(f) \in Nodes /\ Clause(f) \in Clauses(f.defn)
    BY <2>1, <2>2 DEF Clauses
  <2>4. QED
    BY <2>3, <1>1, <1>3, NodeAssumption
<1>4. CASE f.phase = "guard"
  <2>1. f.at \in 1..Len(Candidates[f.defn]) /\ Candidates[f.defn] \in Seq(CandidateRecords)
    BY <1>1, <1>4, DefinitionAssumption DEF InClauses, ClauseCount
  <2>2. Clause(f) = Candidates[f.defn][f.at].guard
    BY <1>4 DEF Clause
  <2>3. Candidates[f.defn][f.at] \in CandidateRecords
    BY <2>1
  <2>4. Clause(f) \in Nodes \union {NoNode}
    BY <2>2, <2>3 DEF CandidateRecords
  <2>5. Clause(f) # NoNode => Clause(f) \in Guards(f.defn)
    BY <2>1, <2>2 DEF Guards
  <2>6. QED
    BY <2>1, <2>4, <2>5, <1>1, <1>4, NodeAssumption
<1>5. QED
  BY <1>1, <1>2, <1>3, <1>4 DEF ClausePhases

\* The body that dispatch chooses is a node of the definition.
LEMMA ChosenOK ==
    ASSUME NEW E, NEW f, FrameOK(E, f), f.satisfied # {}, NEW k, k = Cheapest(f.defn, f.satisfied)
    PROVE  /\ k \in Nat \ {0}
           /\ Candidates[f.defn][k].body \in Nodes /\ Owner[Candidates[f.defn][k].body] = f.defn
<1>1. f.defn \in Definitions /\ f.satisfied \in SUBSET (1..Len(Candidates[f.defn]))
  BY NameAssumption DEF FrameOK, Local, Imported
<1>2. k \in 1..Len(Candidates[f.defn])
  BY <1>1, CheapestExists
<1>3. Candidates[f.defn] \in Seq(CandidateRecords)
  BY <1>1, DefinitionAssumption
<1>4. Candidates[f.defn][k].body \in Nodes
  <2>1. Candidates[f.defn][k] \in CandidateRecords
    BY <1>2, <1>3
  <2>2. QED
    BY <2>1 DEF CandidateRecords
<1>5. Candidates[f.defn][k].body \in Bodies(f.defn)
  BY <1>2 DEF Bodies
<1>6. QED
  BY <1>1, <1>2, <1>3, <1>4, <1>5, NodeAssumption

\* A call goes on with another clause, its body or its result.
LEMMA CallGoesOn ==
    ASSUME Inv, NEW t \in Tasks, Active(t), Top(t).phase # "branch",
           NEW g, Become(t, g), DOMAIN g = DOMAIN Top(t),
           g.defn = Top(t).defn, g.work = Top(t).work, g.phase # "branch", g.at \in Nat \ {0},
           g.satisfied \subseteq 1..Len(Candidates[g.defn]),
           g.focus # NoNode => g.focus \in Nodes /\ Owner[g.focus] = g.defn
    PROVE  Inv'
<1>1. FrameOK(declared, Top(t))
  BY ActiveOK
<1>2. FrameOK(declared, g)
  BY <1>1 DEF FrameOK
<1>3. Follows(Top(t), g)
  BY DEF Follows
<1>4. QED
  BY <1>2, <1>3, FollowOK

\* Every step of the clauses keeps the invariant.
LEMMA ClausewiseOK ==
    ASSUME Inv, NEW t \in Tasks,
           \/ BeginClause(t) \/ NoGuard(t) \/ ClauseDecided(t) \/ ClauseFails(t)
           \/ ClausesPassed(t) \/ Dispatch(t) \/ DispatchFails(t) \/ BodyEnds(t)
    PROVE  Inv'
<1> DEFINE f == Top(t)
<1>0. Active(t)
  BY DEF BeginClause, NoGuard, ClauseDecided, ClauseFails, ClausesPassed, Dispatch,
         DispatchFails, BodyEnds
<1>f. FrameOK(declared, f)
  BY <1>0, ActiveOK
<1>p. /\ f.at \in Nat \ {0} /\ NextClause(f) \in Nat \ {0} /\ 1 \in Nat \ {0}
      /\ f.satisfied \subseteq 1..Len(Candidates[f.defn])
      /\ f.focus # NoNode => f.focus \in Nodes /\ Owner[f.focus] = f.defn
  BY <1>f DEF FrameOK, NextClause
<1>1. CASE BeginClause(t)
  <2> DEFINE env == IF f.phase = "post" THEN [f.locals EXCEPT !["result"] = f.result]
                                        ELSE f.locals
             c == Clause(f)
             g == [f EXCEPT !.focus = c, !.locals = env]
  <2>1. Become(t, g) /\ InClauses(f) /\ c # NoNode
    BY <1>1 DEF BeginClause
  <2>2. c \in Nodes /\ Owner[c] = f.defn /\ f.phase # "branch"
    BY <2>1, <1>f, ClauseOK
  <2> HIDE DEF env, c
  <2>3. /\ DOMAIN g = DOMAIN f /\ g.defn = f.defn /\ g.work = f.work /\ g.phase = f.phase
        /\ g.at = f.at /\ g.satisfied = f.satisfied /\ g.focus = c
    BY <1>f DEF FrameOK
  <2> HIDE DEF g
  <2>4. QED
    BY <2>1, <2>2, <2>3, <1>0, <1>p, CallGoesOn
<1>2. CASE NoGuard(t)
  <2> DEFINE g == [f EXCEPT !.at = NextClause(f), !.satisfied = @ \union {f.at}]
  <2>1. Become(t, g) /\ InClauses(f) /\ Clause(f) = NoNode
    BY <1>2 DEF NoGuard
  <2>2. f.at \in 1..Len(Candidates[f.defn]) /\ f.phase # "branch"
    BY <2>1, <1>f, ClauseOK
  <2>3. /\ DOMAIN g = DOMAIN f /\ g.defn = f.defn /\ g.work = f.work /\ g.phase = f.phase
        /\ g.at = NextClause(f) /\ g.satisfied = f.satisfied \union {f.at} /\ g.focus = f.focus
    BY <1>f DEF FrameOK
  <2> HIDE DEF g
  <2>4. g.satisfied \subseteq 1..Len(Candidates[g.defn])
    BY <2>2, <2>3, <1>p
  <2>5. QED
    BY <2>1, <2>2, <2>3, <2>4, <1>0, <1>p, CallGoesOn
<1>3. CASE ClauseDecided(t)
  <2> DEFINE sat == IF f.phase = "guard" /\ Truthy(f.given) THEN f.satisfied \union {f.at}
                                                            ELSE f.satisfied
             g == [f EXCEPT
                     !.given = NoValue, !.at = NextClause(f),
                     !.satisfied = IF f.phase = "guard" /\ Truthy(f.given) THEN @ \union {f.at} ELSE @]
  <2>1. Become(t, g) /\ InClauses(f)
    BY <1>3 DEF ClauseDecided
  <2>2. /\ f.phase = "guard" => f.at \in 1..Len(Candidates[f.defn])
        /\ f.phase # "branch"
    BY <2>1, <1>f, ClauseOK
  <2>3. /\ DOMAIN g = DOMAIN f /\ g.defn = f.defn /\ g.work = f.work /\ g.phase = f.phase
        /\ g.at = NextClause(f) /\ g.satisfied = sat /\ g.focus = f.focus
    BY <1>f DEF FrameOK
  <2> HIDE DEF g
  <2>4. g.satisfied \subseteq 1..Len(Candidates[g.defn])
    BY <2>2, <2>3, <1>p
  <2>5. QED
    BY <2>1, <2>2, <2>3, <2>4, <1>0, <1>p, CallGoesOn
<1>4. CASE ClausesPassed(t)
  <2> DEFINE next == IF f.phase = "pre" THEN "guard" ELSE "return"
             g == [f EXCEPT !.phase = next, !.at = 1]
  <2>1. Become(t, g) /\ f.phase \in ClausePhases
    BY <1>4 DEF ClausesPassed, PastClauses
  <2>2. next # "branch" /\ f.phase # "branch"
    BY <2>1 DEF ClausePhases
  <2> HIDE DEF next
  <2>3. /\ DOMAIN g = DOMAIN f /\ g.defn = f.defn /\ g.work = f.work /\ g.phase = next
        /\ g.at = 1 /\ g.satisfied = f.satisfied /\ g.focus = f.focus
    BY <1>f DEF FrameOK
  <2> HIDE DEF g
  <2>4. QED
    BY <2>1, <2>2, <2>3, <1>0, <1>p, CallGoesOn
<1>5. CASE Dispatch(t)
  <2> DEFINE k == Cheapest(f.defn, f.satisfied)
             body == Candidates[f.defn][k].body
             g == [f EXCEPT !.phase = "body", !.at = k, !.focus = body]
  <2>1. Become(t, g) /\ f.phase = "guard" /\ f.satisfied # {}
    BY <1>5 DEF Dispatch
  <2>2. k \in Nat \ {0} /\ body \in Nodes /\ Owner[body] = f.defn
    BY <2>1, <1>f, ChosenOK
  <2> HIDE DEF k, body
  <2>3. /\ DOMAIN g = DOMAIN f /\ g.defn = f.defn /\ g.work = f.work /\ g.phase = "body"
        /\ g.at = k /\ g.satisfied = f.satisfied /\ g.focus = body
    BY <1>f DEF FrameOK
  <2> HIDE DEF g
  <2>4. QED
    BY <2>1, <2>2, <2>3, <1>0, <1>p, CallGoesOn
<1>6. CASE BodyEnds(t)
  <2> DEFINE next == IF f.given = Bottom THEN "return" ELSE "post"
             g == [f EXCEPT !.phase = next, !.at = 1, !.given = NoValue, !.result = f.given]
  <2>1. Become(t, g) /\ f.phase = "body"
    BY <1>6 DEF BodyEnds
  <2>2. next # "branch" /\ f.phase # "branch"
    BY <2>1
  <2> HIDE DEF next
  <2>3. /\ DOMAIN g = DOMAIN f /\ g.defn = f.defn /\ g.work = f.work /\ g.phase = next
        /\ g.at = 1 /\ g.satisfied = f.satisfied /\ g.focus = f.focus
    BY <1>f DEF FrameOK
  <2> HIDE DEF g
  <2>4. QED
    BY <2>1, <2>2, <2>3, <1>0, <1>p, CallGoesOn
<1>7. CASE ClauseFails(t) \/ DispatchFails(t)
  BY <1>0, <1>7, RaiseOK DEF ClauseFails, DispatchFails
<1>8. QED
  BY <1>1, <1>2, <1>3, <1>4, <1>5, <1>6, <1>7

-----------------------------------------------------------------------------
(***************************************************************************)
(* Expressions.                                                            *)
(***************************************************************************)

\* The node a task is about to evaluate.
LEMMA FocusOK ==
    ASSUME Inv, NEW t \in Tasks, NEW kinds, Evaluating(t, kinds)
    PROVE  /\ Active(t) /\ FrameOK(declared, Top(t))
           /\ Top(t).focus \in Nodes /\ Owner[Top(t).focus] = Top(t).defn
           /\ Top(t).focus \in NodesOf(Top(t)) /\ Node[Top(t).focus].kind \in kinds
<1>1. Active(t) /\ Top(t).focus # NoNode /\ Node[Top(t).focus].kind \in kinds
  BY DEF Evaluating
<1>2. FrameOK(declared, Top(t))
  BY <1>1, ActiveOK
<1>3. QED
  BY <1>1, <1>2 DEF FrameOK, NodesOf

\* The innermost expression a frame has begun.
LEMMA InnerOK ==
    ASSUME NEW E, NEW f, FrameOK(E, f), f.work # <<>>
    PROVE  /\ BegunOK(E, f.defn, Head(f.work)) /\ Head(f.work).node \in NodesOf(f)
           /\ Len(f.work) \in Nat \ {0} /\ Head(f.work) = f.work[1]
<1>1. Len(f.work) \in Nat \ {0} /\ Head(f.work) = f.work[1] /\ 1 \in 1..Len(f.work)
  BY Popped DEF FrameOK
<1>2. QED
  BY <1>1 DEF FrameOK, NodesOf

\* Its next part.
LEMMA NextPartOK ==
    ASSUME NEW E, NEW f, FrameOK(E, f), f.work # <<>>, NextPart(Head(f.work)) # NoNode
    PROVE  \A n \in {NextPart(Head(f.work))} :
              /\ n \in Nodes /\ Owner[n] = f.defn
              /\ ExprEffects(n) \subseteq ExprEffects(Head(f.work).node)
<1> DEFINE w == Head(f.work)
           parts == Node[w.node].parts
           i == Len(w.done) + 1
<1>1. BegunOK(E, f.defn, w)
  BY InnerOK
<1> HIDE DEF w
<1>2. w.node \in Nodes /\ Owner[w.node] = f.defn /\ i \in Nat \ {0}
  <2>1. Len(w.done) \in Nat
    BY <1>1, Appended DEF BegunOK
  <2>2. QED
    BY <2>1, <1>1 DEF BegunOK
<1>3. Len(parts) \in Nat /\ (Node[w.node].kind = "conditional" => Len(parts) = 3)
  BY <1>2, NodeOK
<1>4. \E j \in 1..Len(parts) : NextPart(w) = parts[j]
  <2> HIDE DEF parts
  <2>1. NextPart(w) = IF Node[w.node].kind = "conditional" /\ i > 1
                      THEN IF i = 2 THEN (IF Truthy(w.done[1]) THEN parts[2] ELSE parts[3])
                                    ELSE NoNode
                      ELSE IF i <= Len(parts) THEN parts[i] ELSE NoNode
    BY DEF NextPart, parts
  <2>2. NextPart(w) # NoNode
    BY DEF w
  <2>3. CASE Node[w.node].kind = "conditional" /\ i > 1
    <3>0. Len(parts) = 3
      BY <2>3, <1>3
    <3>1. 2 \in 1..Len(parts) /\ 3 \in 1..Len(parts)
      BY <3>0
    <3>2. NextPart(w) = parts[2] \/ NextPart(w) = parts[3]
      BY <2>1, <2>2, <2>3
    <3>3. QED
      BY <3>1, <3>2
  <2>4. CASE ~(Node[w.node].kind = "conditional" /\ i > 1)
    <3>1. i \in 1..Len(parts) /\ NextPart(w) = parts[i]
      BY <2>1, <2>2, <2>4, <1>2, <1>3
    <3>2. QED
      BY <3>1
  <2>5. QED
    BY <2>3, <2>4
<1>5. PICK j \in 1..Len(parts) : NextPart(w) = parts[j]
  BY <1>4
<1>6. parts[j] \in Nodes /\ Owner[parts[j]] = f.defn
  BY <1>2, PartsAreNodes, NodeAssumption
<1>7. ExprEffects(parts[j]) \subseteq ExprEffects(w.node)
  BY <1>2, EffectsOfParts
<1>8. QED
  BY <1>5, <1>6, <1>7 DEF w

\* What a frame is allowed to do, the signature allows.
LEMMA AllowedOK ==
    ASSUME NEW f, FrameOK(declared, f)
    PROVE  Allowed(f) \subseteq declared[f.defn]
<1>1. CASE f.phase = "body"
  BY <1>1 DEF Allowed
<1>2. CASE f.phase = "branch"
  BY <1>2 DEF Allowed, FrameOK
<1>3. CASE f.phase # "body" /\ f.phase # "branch"
  BY <1>3 DEF Allowed
<1>4. QED
  BY <1>1, <1>2, <1>3

\* An expression with parts is begun.
LEMMA BeginOK ==
    ASSUME Inv, NEW t \in Tasks, Begin(t)
    PROVE  Inv'
<1> DEFINE f == Top(t)
           w == [node |-> f.focus, done |-> <<>>, outer |-> f.locals]
           ws == <<w>> \o f.work
           g == [f EXCEPT !.focus = NoNode, !.work = <<w>> \o @]
<1>1. /\ Evaluating(t, InnerKinds) /\ EffectsOf(f.focus) \subseteq Allowed(f)
      /\ Become(t, g)
  BY DEF Begin
<1>2. /\ Active(t) /\ FrameOK(declared, f) /\ f.focus \in Nodes /\ Owner[f.focus] = f.defn
      /\ f.focus \in NodesOf(f)
  BY <1>1, FocusOK
<1>3. BegunOK(declared, f.defn, w) /\ w.node = f.focus
  <2>1. EffectsOf(f.focus) \subseteq declared[f.defn]
    BY <1>1, <1>2, AllowedOK
  <2>2. <<>> \in Seq(Nat)
    OBVIOUS
  <2>3. IsSeq(<<>>)
    BY <2>2, SeqIsSeq
  <2>4. QED
    BY <2>1, <2>3, <1>2 DEF BegunOK
<1>4. /\ DOMAIN g = DOMAIN f /\ g.defn = f.defn /\ g.phase = f.phase /\ g.at = f.at
      /\ g.allowed = f.allowed /\ g.satisfied = f.satisfied
      /\ g.focus = NoNode /\ g.work = ws
  BY <1>2 DEF FrameOK
<1> HIDE DEF w, g
<1>5. /\ IsSeq(ws) /\ ws[1] = w
      /\ \A i \in 2..Len(ws) : i - 1 \in 1..Len(f.work) /\ ws[i] = f.work[i - 1]
  BY <1>2, Pushed DEF FrameOK
<1>6. \A i \in 1..Len(ws) : i = 1 \/ i \in 2..Len(ws)
  <2>1. Len(ws) \in Nat
    BY <1>2, Pushed DEF FrameOK
  <2>2. QED
    BY <2>1
<1> HIDE DEF ws, f
<1>7. \A i \in 1..Len(ws) : BegunOK(declared, f.defn, ws[i]) /\ ws[i].node \in NodesOf(f)
  <2> SUFFICES ASSUME NEW i \in 1..Len(ws)
               PROVE  BegunOK(declared, f.defn, ws[i]) /\ ws[i].node \in NodesOf(f)
    OBVIOUS
  <2>1. CASE i = 1
    BY <2>1, <1>2, <1>3, <1>5
  <2>2. CASE i \in 2..Len(ws)
    <3>1. i - 1 \in 1..Len(f.work) /\ ws[i] = f.work[i - 1]
      BY <2>2, <1>5
    <3>2. QED
      BY <3>1, <1>2 DEF FrameOK, NodesOf
  <2>3. QED
    BY <2>1, <2>2, <1>6
<1>8. FrameOK(declared, g)
  BY <1>2, <1>4, <1>5, <1>7 DEF FrameOK
<1>9. NodesOf(g) \subseteq NodesOf(f)
  BY <1>4, <1>7 DEF NodesOf
<1>10. Follows(f, g)
  BY <1>4, <1>9 DEF Follows
<1>11. QED
  BY <1>1, <1>2, <1>8, <1>10, FollowOK DEF f

\* The next part of an expression is looked at.
LEMMA EvalPartOK ==
    ASSUME Inv, NEW t \in Tasks, EvalPart(t)
    PROVE  Inv'
<1> DEFINE f == Top(t)
           w == Head(f.work)
           n == NextPart(w)
           env == IF Node[w.node].kind = "binding" /\ Len(w.done) = 1
                  THEN [f.locals EXCEPT ![Node[w.node].name] = w.done[1]] ELSE f.locals
           g == [f EXCEPT !.focus = n, !.locals = env]
<1>1. Active(t) /\ f.work # <<>> /\ n # NoNode /\ Become(t, g)
  BY DEF EvalPart
<1>2. FrameOK(declared, f)
  BY <1>1, ActiveOK
<1>3. /\ n \in Nodes /\ Owner[n] = f.defn /\ ExprEffects(n) \subseteq ExprEffects(w.node)
      /\ w.node \in NodesOf(f)
  BY <1>1, <1>2, NextPartOK, InnerOK
<1> HIDE DEF env, n
<1>4. /\ DOMAIN g = DOMAIN f /\ g.defn = f.defn /\ g.phase = f.phase /\ g.at = f.at
      /\ g.allowed = f.allowed /\ g.satisfied = f.satisfied
      /\ g.focus = n /\ g.work = f.work
  BY <1>2 DEF FrameOK
<1> HIDE DEF w, g, f
<1>5. FrameOK(declared, g)
  BY <1>2, <1>3, <1>4 DEF FrameOK
<1>6. NodesOf(g) \subseteq NodesOf(f) \union {n}
  BY <1>4 DEF NodesOf
<1>7. Follows(f, g)
  BY <1>3, <1>4, <1>6 DEF Follows
<1>8. QED
  BY <1>1, <1>5, <1>7, FollowOK DEF f

\* A task that finishes its innermost expression.
LEMMA ReadyOK ==
    ASSUME Inv, NEW t \in Tasks, Active(t), Ready(t)
    PROVE  /\ FrameOK(declared, Top(t)) /\ Top(t).work # <<>>
           /\ BegunOK(declared, Top(t).defn, Head(Top(t).work))
           /\ Head(Top(t).work).node \in NodesOf(Top(t))
<1>1. FrameOK(declared, Top(t)) /\ Top(t).work # <<>>
  BY ActiveOK DEF Ready
<1>2. QED
  BY <1>1, InnerOK

\* It goes on with the value.
LEMMA FinishingOK ==
    ASSUME Inv, NEW t \in Tasks, Active(t), Ready(t), NEW v, Become(t, Finish(Top(t), v))
    PROVE  Inv'
<1>1. FrameOK(declared, Top(t)) /\ Top(t).work # <<>>
  BY ReadyOK
<1>2. QED
  BY <1>1, FinishOK, FollowOK

\* A primitive that has run.
LEMMA CallPrimitiveOK ==
    ASSUME Inv, NEW t \in Tasks, CallPrimitive(t)
    PROVE  Inv'
<1> DEFINE v == Result(Inner(t).name, Done(t))
           e == EffectsOf(Head(Top(t).work).node)
           tr == [x \in Effects |-> IF x \in e THEN Append(task[t].trace[x], v) ELSE task[t].trace[x]]
           g == Finish(Top(t), v)
           interp == [task[t] EXCEPT
              !.stack = <<Finish(Top(t), v)>> \o Tail(@),
              !.trace = [x \in Effects |-> IF x \in e THEN Append(@[x], v) ELSE @[x]]]
<1>1. Active(t) /\ Ready(t) /\ Update(t, interp)
  BY DEF CallPrimitive, FinishingPrimitive, Finishing
<1>2. FrameOK(declared, g) /\ Follows(Top(t), g)
  BY <1>1, ReadyOK, FinishOK
<1> HIDE DEF v, e
<1>3. DOMAIN interp = DOMAIN task[t] /\ interp.outcome = NoOutcome
  BY <1>1, ActiveOK DEF InterpOK, Ended
<1>4. interp.stack = <<g>> \o Tail(task[t].stack)
  BY <1>1, ActiveOK DEF InterpOK
<1> HIDE DEF g, interp
<1>5. ASSUME NEW S, ImportsDeclare, Within(Top(t), S)
      PROVE  Within(g, S)
  BY <1>2, <1>5, FollowsWithin
<1>6. QED
  BY <1>1, <1>2, <1>3, <1>4, <1>5, TopOK

\* Every step of an expression but calls of definitions.
LEMMA ExpressionwiseOK ==
    ASSUME Inv, NEW t \in Tasks,
           \/ EvalLeaf(t) \/ Begin(t) \/ CallRefused(t) \/ EvalPart(t)
           \/ FinishLast(t) \/ FinishConcat(t) \/ FieldMissing(t)
           \/ CallPrimitive(t) \/ PrimitiveRaises(t) \/ RecursionLimit(t)
    PROVE  Inv'
<1>1. CASE EvalLeaf(t)
  <2>1. PICK v : \/ Raise(t, "General") \/ Become(t, Give(Top(t), v))
    BY <1>1 DEF EvalLeaf
  <2>2. Active(t) /\ FrameOK(declared, Top(t))
    BY <1>1, FocusOK DEF EvalLeaf
  <2>3. CASE Raise(t, "General")
    BY <2>2, <2>3, RaiseOK
  <2>4. CASE Become(t, Give(Top(t), v))
    BY <2>2, <2>4, GiveOK, FollowOK
  <2>5. QED
    BY <2>1, <2>3, <2>4
<1>2. CASE Begin(t)
  BY <1>2, BeginOK
<1>3. CASE CallRefused(t)
  <2>1. Active(t) /\ (Raise(t, "General") \/ Raise(t, "Effect"))
    BY <1>3 DEF CallRefused, Evaluating
  <2>2. QED
    BY <2>1, RaiseOK
<1>4. CASE EvalPart(t)
  BY <1>4, EvalPartOK
<1>5. CASE FinishLast(t) \/ FinishConcat(t)
  <2>1. Active(t) /\ Ready(t) /\ \E v : Become(t, Finish(Top(t), v))
    BY <1>5 DEF FinishLast, FinishConcat, Finishing
  <2>2. QED
    BY <2>1, FinishingOK
<1>6. CASE CallPrimitive(t)
  BY <1>6, CallPrimitiveOK
<1>7. CASE FieldMissing(t) \/ PrimitiveRaises(t) \/ RecursionLimit(t)
  <2>1. Active(t) /\ \E e : Raise(t, e)
    BY <1>7 DEF FieldMissing, PrimitiveRaises, RecursionLimit, FinishingPrimitive, Finishing
  <2>2. QED
    BY <2>1, RaiseOK
<1>8. QED
  BY <1>1, <1>2, <1>3, <1>4, <1>5, <1>6, <1>7

-----------------------------------------------------------------------------
(***************************************************************************)
(* Calls.                                                                  *)
(***************************************************************************)

\* The frame of a call before its first step.
LEMMA NewFrameOK ==
    ASSUME NEW E, NEW d \in Local \union Imported, NEW vs
    PROVE  \A f \in {NewFrame(d, vs)} : FrameOK(E, f) /\ f.defn = d /\ f.phase = "pre"
<1> DEFINE env == [x \in Names |->
              IF \E i \in 1..Len(Params[d]) : Params[d][i] = x
              THEN LET i == CHOOSE i \in 1..Len(Params[d]) : Params[d][i] = x
                   IN  IF i <= Len(vs) THEN vs[i] ELSE Bottom
              ELSE Unbound]
           f == [defn |-> d, phase |-> "pre", at |-> 1, allowed |-> {}, satisfied |-> {},
                 focus |-> NoNode, work |-> <<>>, given |-> NoValue, result |-> NoValue,
                 locals |-> env]
<1>1. NewFrame(d, vs) = f
  BY DEF NewFrame
<1> HIDE DEF env
<1>2. /\ DOMAIN f = {"defn", "phase", "at", "allowed", "satisfied", "focus", "work", "given",
                     "result", "locals"}
      /\ f.defn = d /\ f.phase = "pre" /\ f.at = 1 /\ f.satisfied = {}
      /\ f.focus = NoNode /\ f.work = <<>>
  OBVIOUS
<1> HIDE DEF f
<1>3. IsSeq(<<>>) /\ 1..Len(<<>>) = {}
  <2>1. <<>> \in Seq(Nat) /\ Len(<<>>) = 0
    OBVIOUS
  <2>2. IsSeq(<<>>)
    BY <2>1, SeqIsSeq
  <2>3. QED
    BY <2>1, <2>2
<1>4. FrameOK(E, f)
  BY <1>2, <1>3 DEF FrameOK
<1>5. QED
  BY <1>1, <1>2, <1>4

\* A callee declares no effect its caller is not confined to: local callers declare
\* what their local callees do, and the rest is for the imports to declare.
LEMMA CalleeOK ==
    ASSUME EffectsDeclared, ImportsDeclare, NEW f, FrameOK(declared, f), f.work # <<>>,
           NEW n, n = Head(f.work).node, Node[n].kind = "call", IsDefinition(Node[n].name)
    PROVE  \A d \in {Lookup(Node[n].name)} :
              /\ d \in Local \union Imported
              /\ \A S : Within(f, S) => declared[d] \subseteq S
<1> DEFINE d == Lookup(Node[n].name)
<1>1. d \in Local \union Imported
  BY DEF Lookup, IsDefinition, Local, Imported
<1>2. BegunOK(declared, f.defn, Head(f.work)) /\ n \in NodesOf(f)
  BY InnerOK
<1>3. n \in Nodes /\ Owner[n] = f.defn /\ f.defn \in Local \union Imported
  BY <1>2 DEF BegunOK, FrameOK
<1>4. d \in Callees(f.defn)
  BY <1>3 DEF Callees, AllExprsOf
<1>5. declared[d] \subseteq ExprEffects(n)
  BY <1>3, EffectsOfParts DEF IsUserCall
<1> HIDE DEF d
<1>6. declared[d] \subseteq declared[f.defn]
  <2>1. CASE {f.defn, d} \intersect Imported # {}
    BY <2>1, <1>3, <1>4 DEF ImportsDeclare
  <2>2. CASE {f.defn, d} \intersect Imported = {}
    <3>1. f.defn \in Local /\ d \in Callees(f.defn) \intersect Local
      BY <2>2, <1>1, <1>3, <1>4
    <3>2. QED
      BY <3>1 DEF EffectsDeclared
  <2>3. QED
    BY <2>1, <2>2
<1>7. ASSUME NEW S, Within(f, S)
      PROVE  declared[d] \subseteq S
  BY <1>2, <1>5, <1>6, <1>7 DEF Within
<1>8. QED
  BY <1>1, <1>7 DEF d

\* A call.
LEMMA CallDefinitionOK ==
    ASSUME Inv, NEW t \in Tasks, CallDefinition(t)
    PROVE  Inv'
<1> DEFINE s == task[t].stack
           n == Head(Top(t).work).node
           d == Lookup(Node[n].name)
           new == NewFrame(d, Done(t))
           u == <<new>> \o s
           interp == [task[t] EXCEPT
              !.stack = <<NewFrame(Lookup(Inner(t).name), Done(t))>> \o @,
              !.depth = @ + 1]
<1>1. /\ Active(t) /\ Ready(t) /\ Node[n].kind = "call" /\ IsDefinition(Node[n].name)
      /\ Update(t, interp)
  BY DEF CallDefinition, Finishing, Inner
<1>2. /\ InterpOK(declared, task[t]) /\ s # <<>> /\ IsSeq(s) /\ ~Ended(t) /\ Working
      /\ Top(t) = s[1] /\ 1 \in 1..Len(s) /\ FrameOK(declared, Top(t)) /\ Top(t).work # <<>>
  BY <1>1, ActiveOK, ReadyOK
<1>3. d \in Local \union Imported
  BY <1>1 DEF Lookup, IsDefinition, Local, Imported
<1>4. FrameOK(declared, new) /\ new.defn = d
  BY <1>3, NewFrameOK
<1>5. ASSUME NEW S, ImportsDeclare, ConfinedTo(s, S)
      PROVE  Within(new, S)
  <2>1. Within(Top(t), S)
    BY <1>2, <1>5 DEF ConfinedTo
  <2>2. declared[d] \subseteq S
    BY <2>1, <1>1, <1>2, <1>5, CalleeOK DEF Inv
  <2>3. QED
    BY <2>2, <1>4 DEF Within
<1>6. interp.stack = u /\ DOMAIN interp = DOMAIN task[t] /\ interp.outcome = NoOutcome
  BY <1>2 DEF InterpOK, Ended, Inner
<1> HIDE DEF new, d, n, interp, s
<1>7. /\ IsSeq(u) /\ u # <<>> /\ u[1] = new /\ Len(s) \in Nat /\ Len(u) = Len(s) + 1
      /\ \A i \in 2..Len(u) : i - 1 \in 1..Len(s) /\ u[i] = s[i - 1]
  BY <1>2, Pushed
<1> HIDE DEF u
<1>8. \A i \in 1..Len(u) : i = 1 \/ i \in 2..Len(u)
  BY <1>7
<1>9. InterpOK(declared, interp)
  <2>1. \A i \in 1..Len(s) : FrameOK(declared, s[i])
    BY <1>2 DEF InterpOK, s
  <2>2. \A i \in 1..Len(u) : FrameOK(declared, u[i])
    BY <2>1, <1>4, <1>7, <1>8
  <2>3. \A i \in 1..Len(s) : s[i].work # <<>>
    <3>1. \A i \in 2..Len(s) : s[i].work # <<>>
      BY <1>2 DEF InterpOK, s
    <3>2. QED
      BY <3>1, <1>2, <1>7
  <2>4. \A i \in 2..Len(u) : u[i].work # <<>>
    BY <2>3, <1>7
  <2>5. QED
    BY <2>2, <2>4, <1>2, <1>6, <1>7 DEF InterpOK
<1>10. ASSUME NEW S, ImportsDeclare, ConfinedTo(s, S)
       PROVE  ConfinedTo(u, S)
  BY <1>5, <1>7, <1>8, <1>10 DEF ConfinedTo
<1>11. QED
  BY <1>1, <1>6, <1>7, <1>9, <1>10, UpdateOK DEF s

\* A return.
LEMMA ReturnOK ==
    ASSUME Inv, NEW t \in Tasks, Return(t)
    PROVE  Inv'
<1> DEFINE s == task[t].stack
           rest == Tail(s)
           v == Top(t).result
           g == Finish(Head(rest), v)
           u == <<g>> \o Tail(rest)
           interp == [task[t] EXCEPT
              !.stack = <<Finish(Head(Tail(task[t].stack)), Top(t).result)>> \o Tail(Tail(task[t].stack)),
              !.depth = @ - 1]
<1>1. Active(t) /\ rest # <<>> /\ Update(t, interp)
  BY DEF Return
<1>2. InterpOK(declared, task[t]) /\ s # <<>> /\ IsSeq(s) /\ ~Ended(t)
  BY <1>1, ActiveOK
<1>3. interp.stack = u /\ DOMAIN interp = DOMAIN task[t] /\ interp.outcome = NoOutcome
  BY <1>2 DEF InterpOK, Ended
<1> HIDE DEF interp, v, s
<1>4. /\ Len(s) \in Nat \ {0} /\ IsSeq(rest) /\ Len(rest) = Len(s) - 1
      /\ \A i \in 1..Len(rest) : i + 1 \in 1..Len(s) /\ rest[i] = s[i + 1]
  BY <1>2, Popped
<1> HIDE DEF rest
<1>5. Len(rest) \in Nat \ {0} /\ Head(rest) = rest[1]
  BY <1>1, <1>4, Popped
<1>6. /\ \A i \in 1..Len(rest) : FrameOK(declared, rest[i]) /\ rest[i].work # <<>>
      /\ \A S : ConfinedTo(s, S) => \A i \in 1..Len(rest) : Within(rest[i], S)
  <2>1. ASSUME NEW i \in 1..Len(rest)
        PROVE  i + 1 \in 1..Len(s) /\ i + 1 \in 2..Len(s) /\ rest[i] = s[i + 1]
    BY <1>4
  <2>2. \A i \in 1..Len(rest) : FrameOK(declared, rest[i]) /\ rest[i].work # <<>>
    BY <2>1, <1>2 DEF InterpOK, s
  <2>3. QED
    BY <2>1, <2>2 DEF ConfinedTo
<1>7. FrameOK(declared, g) /\ Follows(rest[1], g)
  <2>1. 1 \in 1..Len(rest)
    BY <1>5
  <2>2. QED
    BY <2>1, <1>5, <1>6, FinishOK
<1> HIDE DEF g
<1>8. /\ IsSeq(u) /\ u # <<>> /\ Len(u) = Len(rest) /\ u[1] = g
      /\ \A i \in 2..Len(rest) : u[i] = rest[i]
  BY <1>1, <1>4, Replaced
<1> HIDE DEF u
<1>9. \A i \in 1..Len(u) : i \in 1..Len(rest) /\ (i = 1 \/ u[i] = rest[i])
  BY <1>5, <1>8
<1>10. InterpOK(declared, interp)
  <2>1. \A i \in 1..Len(u) : FrameOK(declared, u[i])
    BY <1>6, <1>7, <1>8, <1>9
  <2>2. \A i \in 2..Len(u) : u[i].work # <<>>
    BY <1>5, <1>6, <1>8
  <2>3. QED
    BY <2>1, <2>2, <1>2, <1>3, <1>8 DEF InterpOK
<1>11. ASSUME NEW S, ImportsDeclare, ConfinedTo(s, S)
       PROVE  ConfinedTo(u, S)
  <2>1. \A i \in 1..Len(rest) : Within(rest[i], S)
    BY <1>6, <1>11
  <2>2. Within(rest[1], S)
    BY <2>1, <1>5
  <2>3. Within(g, S)
    BY <2>2, <1>7, FollowsWithin
  <2>4. QED
    BY <2>1, <2>3, <1>8, <1>9 DEF ConfinedTo
<1>12. QED
  BY <1>1, <1>3, <1>8, <1>10, <1>11, UpdateOK DEF s

\* The last return of a task, and the end of a branch.
LEMMA LastOK ==
    ASSUME Inv, NEW t \in Tasks, ReturnToHost(t) \/ BranchEnds(t)
    PROVE  Inv'
<1>1. Active(t)
  BY DEF ReturnToHost, BranchEnds
<1>2. CASE ReturnToHost(t)
  <2> DEFINE v == Top(t).result
             o == IF v = Bottom THEN Err("Refusal") ELSE Ok(v)
             interp == [task[t] EXCEPT !.stack = <<>>, !.depth = @ - 1, !.outcome = o]
  <2>1. Update(t, interp)
    BY <1>2 DEF ReturnToHost
  <2>2. o # NoOutcome
    BY DEF Err, Ok, NoOutcome
  <2> HIDE DEF o
  <2>3. /\ DOMAIN interp = {"stack", "depth", "trace", "outcome"}
        /\ interp.stack = <<>> /\ interp.outcome = o
    BY <1>1, ActiveOK DEF InterpOK
  <2> HIDE DEF interp
  <2>4. QED
    BY <1>1, <2>1, <2>2, <2>3, EndOK
<1>3. CASE BranchEnds(t)
  <2> DEFINE o == Ok(Top(t).given)
             interp == [task[t] EXCEPT !.stack = <<>>, !.outcome = o]
  <2>1. Update(t, interp)
    BY <1>3 DEF BranchEnds
  <2>2. o # NoOutcome
    BY DEF Ok, NoOutcome
  <2> HIDE DEF o
  <2>3. /\ DOMAIN interp = {"stack", "depth", "trace", "outcome"}
        /\ interp.stack = <<>> /\ interp.outcome = o
    BY <1>1, ActiveOK DEF InterpOK
  <2> HIDE DEF interp
  <2>4. QED
    BY <1>1, <2>1, <2>2, <2>3, EndOK
<1>4. QED
  BY <1>2, <1>3

-----------------------------------------------------------------------------
(***************************************************************************)
(* Branches.                                                               *)
(***************************************************************************)

\* The path of a branch.
LEMMA BranchPath ==
    ASSUME NEW t \in Seq(Nat), NEW i \in Nat
    PROVE  \A u \in {Append(t, i)} :
              /\ u \in Seq(Nat) /\ Len(t) \in Nat /\ Len(u) = Len(t) + 1 /\ u[Len(u)] = i
              /\ \A k \in 1..Len(t) : u[k] = t[k]
              /\ \A k \in 0..Len(t) : Above(u, k) = Above(t, k)
              /\ Above(u, Len(t)) = t
<1> DEFINE u == Append(t, i)
<1>1. /\ u \in Seq(Nat) /\ Len(t) \in Nat /\ Len(u) = Len(t) + 1 /\ u[Len(u)] = i
      /\ \A k \in 1..Len(t) : u[k] = t[k]
  OBVIOUS
<1> HIDE DEF u
<1>2. ASSUME NEW k \in 0..Len(t)
      PROVE  SubSeq(u, 1, k) = SubSeq(t, 1, k)
  BY <1>1
<1>3. SubSeq(t, 1, Len(t)) = t
  OBVIOUS
<1>4. SubSeq(u, 1, Len(t)) = t
  BY <1>1, <1>2, <1>3
<1>5. QED
  BY <1>1, <1>2, <1>4 DEF Above, u

\* A stack of one frame.
LEMMA OneFrame ==
    ASSUME NEW f
    PROVE  /\ IsSeq(<<f>>) /\ <<f>> # <<>> /\ 1..Len(<<f>>) = {1} /\ 2..Len(<<f>>) = {}
           /\ <<f>>[1] = f
<1>1. <<f>> \in Seq({f}) /\ Len(<<f>>) = 1 /\ <<f>>[1] = f /\ <<f>> # <<>>
  OBVIOUS
<1>2. IsSeq(<<f>>)
  BY <1>1, SeqIsSeq
<1>3. QED
  BY <1>1, <1>2

\* An interpreter before its first step.
LEMMA InterpIsOK ==
    ASSUME NEW E, NEW f, FrameOK(E, f), NEW depth
    PROVE  \A i \in {Interp(<<f>>, depth)} :
              /\ InterpOK(E, i) /\ i.stack = <<f>> /\ i.stack # <<>> /\ i.outcome = NoOutcome
              /\ \A S : Within(f, S) => ConfinedTo(i.stack, S)
<1> DEFINE s == <<f>>
           i == Interp(s, depth)
<1>1. /\ IsSeq(s) /\ s # <<>> /\ 1..Len(s) = {1} /\ 2..Len(s) = {} /\ s[1] = f
  BY OneFrame
<1> HIDE DEF s
<1>2. DOMAIN i = {"stack", "depth", "trace", "outcome"} /\ i.stack = s /\ i.outcome = NoOutcome
  BY DEF Interp
<1> HIDE DEF i
<1>3. InterpOK(E, i)
  BY <1>1, <1>2 DEF InterpOK
<1>4. ASSUME NEW S, Within(f, S)
      PROVE  ConfinedTo(i.stack, S)
  BY <1>1, <1>2, <1>4 DEF ConfinedTo
<1>5. QED
  BY <1>1, <1>2, <1>3, <1>4 DEF i, s

\* The frame of a branch: what the frame it copies stays within, it does, and within
\* the declared effects of its part.
LEMMA BranchFrameOK ==
    ASSUME NEW f, FrameOK(declared, f), f.focus \in Nodes,
           NEW n, n \in Nodes, Owner[n] = f.defn, ExprEffects(n) \subseteq ExprEffects(f.focus)
    PROVE  \A g \in {BranchFrame(f, n)} :
              /\ FrameOK(declared, g) /\ Within(g, ExprEffects(n))
              /\ \A S : Within(f, S) => Within(g, S)
<1> DEFINE budget == Allowed(f)
           g == [f EXCEPT !.phase = "branch", !.allowed = budget, !.focus = n, !.work = <<>>]
<1>1. BranchFrame(f, n) = g
  BY DEF BranchFrame
<1>2. budget \subseteq declared[f.defn]
  BY AllowedOK
<1> HIDE DEF budget
<1>3. /\ DOMAIN g = DOMAIN f /\ g.defn = f.defn /\ g.phase = "branch" /\ g.at = f.at
      /\ g.allowed = budget /\ g.satisfied = f.satisfied /\ g.focus = n /\ g.work = <<>>
  BY DEF FrameOK
<1> HIDE DEF g
<1>4. IsSeq(<<>>) /\ 1..Len(<<>>) = {}
  <2>1. <<>> \in Seq(Nat) /\ Len(<<>>) = 0
    OBVIOUS
  <2>2. IsSeq(<<>>)
    BY <2>1, SeqIsSeq
  <2>3. QED
    BY <2>1, <2>2
<1>5. FrameOK(declared, g)
  BY <1>2, <1>3, <1>4 DEF FrameOK
<1>6. NodesOf(g) \subseteq {n} /\ f.focus \in NodesOf(f)
  BY <1>3, <1>4, NodeAssumption DEF NodesOf
<1>7. Within(g, ExprEffects(n))
  BY <1>3, <1>6 DEF Within
<1>8. ASSUME NEW S, Within(f, S)
      PROVE  Within(g, S)
  BY <1>3, <1>6, <1>8 DEF Within
<1>9. QED
  BY <1>1, <1>5, <1>7, <1>8

\* A task starts its branches.
LEMMA SpawnOK ==
    ASSUME Inv, NEW t \in Tasks, Spawn(t)
    PROVE  Inv'
<1> DEFINE f == Top(t)
           n == f.focus
           parts == Node[n].parts
           kids == {Append(t, i) : i \in 1..Len(parts)}
           new(p) == Interp(<<BranchFrame(f, p)>>, BranchDepth(t))
<1>1. /\ Evaluating(t, {"concat"}) /\ mode = "parallel" /\ AllDisjoint(parts)
      /\ task' = [u \in Tasks \union kids |->
                     IF u \in kids THEN new(parts[u[Len(u)]]) ELSE task[u]]
      /\ UNCHANGED <<declared, entry, mode, printed, expected>>
  BY DEF Spawn, RunsInParallel, ShouldParallelize
<1>2. /\ Active(t) /\ FrameOK(declared, f) /\ n \in Nodes /\ Owner[n] = f.defn
      /\ Kids(t) = {} /\ ~Ended(t) /\ Top(t) = task[t].stack[1] /\ 1 \in 1..Len(task[t].stack)
  BY <1>1, FocusOK, ActiveOK
<1>3. t \in Seq(Nat) /\ \A i \in 1..Len(parts) : i \in Nat
  BY DEF Inv, Paths
<1>4. ASSUME NEW i \in 1..Len(parts)
      PROVE  /\ parts[i] \in Nodes /\ InterpOK(declared, new(parts[i]))
             /\ new(parts[i]).stack # <<>>
             /\ ConfinedTo(new(parts[i]).stack, ExprEffects(parts[i]))
             /\ \A S : ConfinedTo(task[t].stack, S) => ConfinedTo(new(parts[i]).stack, S)
  <2>1. /\ parts[i] \in Nodes /\ Owner[parts[i]] = f.defn
        /\ ExprEffects(parts[i]) \subseteq ExprEffects(n)
    BY <1>2, PartsAreNodes, NodeAssumption, EffectsOfParts
  <2> DEFINE g == BranchFrame(f, parts[i])
  <2>2. /\ FrameOK(declared, g) /\ Within(g, ExprEffects(parts[i]))
        /\ \A S : Within(f, S) => Within(g, S)
    BY <2>1, <1>2, BranchFrameOK
  <2> HIDE DEF g, f, parts
  <2> DEFINE j == Interp(<<g>>, BranchDepth(t))
  <2>3. /\ InterpOK(declared, j) /\ j.stack # <<>>
        /\ \A S : Within(g, S) => ConfinedTo(j.stack, S)
    BY <2>2, InterpIsOK
  <2> HIDE DEF j
  <2>4. ASSUME NEW S, ConfinedTo(task[t].stack, S)
        PROVE  ConfinedTo(j.stack, S)
    <3>1. Within(f, S)
      BY <2>4, <1>2 DEF ConfinedTo, f
    <3>2. QED
      BY <3>1, <2>2, <2>3
  <2>5. QED
    BY <2>1, <2>2, <2>3, <2>4 DEF j, g
<1> HIDE DEF new
<1>5. ASSUME NEW u \in kids
      PROVE  /\ u \in Seq(Nat) /\ Len(t) \in Nat /\ Len(u) = Len(t) + 1 /\ u[Len(u)] \in 1..Len(parts)
             /\ \A k \in 1..Len(t) : u[k] = t[k]
             /\ \A k \in 0..Len(t) : Above(u, k) = Above(t, k)
             /\ Above(u, Len(t)) = t /\ u \notin Tasks
  <2>1. PICK i \in 1..Len(parts) : u = Append(t, i)
    OBVIOUS
  <2>2. /\ u \in Seq(Nat) /\ Len(t) \in Nat /\ Len(u) = Len(t) + 1 /\ u[Len(u)] = i
        /\ \A k \in 1..Len(t) : u[k] = t[k]
        /\ \A k \in 0..Len(t) : Above(u, k) = Above(t, k)
        /\ Above(u, Len(t)) = t
    BY <2>1, <1>3, BranchPath
  <2>3. u \notin Tasks
    BY <2>2, <1>2 DEF Kids, Above
  <2>4. QED
    BY <2>2, <2>3
<1> HIDE DEF kids, parts
<1>6. /\ Tasks' = Tasks \union kids
      /\ \A u \in Tasks : task'[u] = task[u]
      /\ \A u \in kids : task'[u] = new(parts[u[Len(u)]])
  <2>1. \A u \in Tasks : u \notin kids
    BY <1>5
  <2>2. QED
    BY <2>1, <1>1 DEF Tasks
<1>7. /\ \A u \in Tasks : Top(u)' = Top(u) /\ Ended(u)' = Ended(u)
      /\ Working' = Working
  BY <1>1, <1>6 DEF Top, Ended, Working
<1>8. \A u \in Tasks' : InterpOK(declared, task'[u]) /\ (Working /\ ~Ended(u)' => task'[u].stack # <<>>)
  <2> SUFFICES ASSUME NEW u \in Tasks'
               PROVE  /\ InterpOK(declared, task'[u])
                      /\ Working /\ ~Ended(u)' => task'[u].stack # <<>>
    OBVIOUS
  <2>1. CASE u \in Tasks
    BY <2>1, <1>6, <1>7 DEF Inv
  <2>2. CASE u \in kids
    BY <2>2, <1>4, <1>5, <1>6
  <2>3. QED
    BY <2>1, <2>2, <1>6
<1>9. ASSUME NEW p \in Tasks, NEW i, WaitingAt(p, i)
      PROVE  WaitingAt(p, i)'
  BY <1>1, <1>6, <1>7, <1>9, SameDeclared DEF WaitingAt
<1>10. ASSUME NEW u \in kids
       PROVE  WaitingAt(t, u[Len(u)])
  BY <1>1, <1>2, <1>5 DEF WaitingAt, parts
<1>11. ASSUME NEW u \in kids, NEW k \in 1..Len(u)
       PROVE  \/ k \in 1..Len(t) /\ u[k] = t[k] /\ Above(u, k - 1) = Above(t, k - 1)
              \/ k = Len(u) /\ Above(u, k - 1) = t
  <2>1. CASE k = Len(u)
    BY <2>1, <1>5
  <2>2. CASE k # Len(u)
    <3>1. k \in 1..Len(t) /\ k - 1 \in 0..Len(t)
      BY <2>2, <1>5
    <3>2. QED
      BY <3>1, <1>5
  <2>3. QED
    BY <2>1, <2>2
<1>12. Paths'
  <2>1. Tasks' \subseteq Seq(Nat) /\ <<>> \in Tasks' /\ mode' = "parallel"
    BY <1>1, <1>5, <1>6 DEF Inv, Paths
  <2>2. ASSUME NEW u \in Tasks, NEW k \in 1..Len(u)
        PROVE  WaitingAt(Above(u, k - 1), u[k])'
    <3>1. WaitingAt(Above(u, k - 1), u[k]) /\ Above(u, k - 1) \in Tasks
      BY DEF Inv, Paths, WaitingAt
    <3>2. \A p \in {Above(u, k - 1)} : \A i \in {u[k]} : WaitingAt(p, i)'
      BY <3>1, <1>9
    <3>3. QED
      BY <3>2
  <2>3. ASSUME NEW u \in kids, NEW k \in 1..Len(u)
        PROVE  WaitingAt(Above(u, k - 1), u[k])'
    <3>1. CASE k \in 1..Len(t) /\ u[k] = t[k] /\ Above(u, k - 1) = Above(t, k - 1)
      <4>1. WaitingAt(Above(t, k - 1), t[k])'
        BY <3>1, <2>2
      <4>2. QED
        BY <3>1, <4>1
    <3>2. CASE k = Len(u) /\ Above(u, k - 1) = t
      <4>1. \A i \in {u[Len(u)]} : WaitingAt(t, i)'
        BY <1>9, <1>10
      <4>2. QED
        BY <3>2, <4>1
    <3>3. QED
      BY <3>1, <3>2, <1>11
  <2>4. QED
    BY <2>1, <2>2, <2>3, <1>6 DEF Paths
<1>13. Confined'
  <2> SUFFICES ASSUME ImportsDeclare, NEW u \in Tasks', NEW k \in 1..Len(u),
                      NEW m, m = PartAt(u, k)'
               PROVE  ConfinedTo(task[u].stack, ExprEffects(m))'
    BY <1>1, SameDeclared DEF Confined
  <2>0. ASSUME ConfinedTo(task'[u].stack, ExprEffects(m))
        PROVE  ConfinedTo(task[u].stack, ExprEffects(m))'
    <3>1. UNCHANGED declared
      BY <1>1
    <3>2. QED
      BY <2>0, <3>1, SameDeclared DEF ConfinedTo, Within
  <2> SUFFICES ConfinedTo(task'[u].stack, ExprEffects(m))
    BY <2>0
  <2>1. ASSUME NEW v \in Tasks, NEW l \in 1..Len(v)
        PROVE  PartAt(v, l)' = PartAt(v, l)
    <3>1. Above(v, l - 1) \in Tasks
      BY DEF Inv, Paths, WaitingAt
    <3>2. QED
      BY <3>1, <1>7 DEF PartAt
  <2>2. CASE u \in Tasks
    BY <2>1, <2>2, <1>6 DEF Inv, Confined
  <2>3. CASE u \in kids
    <3>1. CASE k \in 1..Len(t) /\ u[k] = t[k] /\ Above(u, k - 1) = Above(t, k - 1)
      <4>1. PartAt(u, k)' = PartAt(t, k)'
        BY <3>1 DEF PartAt
      <4>2. m = PartAt(t, k)
        BY <3>1, <4>1, <2>1
      <4>3. ConfinedTo(task[t].stack, ExprEffects(m))
        BY <3>1, <4>2 DEF Inv, Confined
      <4>4. QED
        BY <4>3, <2>3, <1>4, <1>5, <1>6
    <3>2. CASE k = Len(u) /\ Above(u, k - 1) = t
      <4>1. m = parts[u[Len(u)]]
        BY <3>2, <1>7 DEF PartAt, parts
      <4>2. QED
        BY <4>1, <2>3, <1>4, <1>5, <1>6
    <3>3. QED
      BY <2>3, <3>1, <3>2, <1>11
  <2>4. QED
    BY <2>2, <2>3, <1>6
<1>14. QED
  BY <1>1, <1>7, <1>8, <1>12, <1>13, SameDeclared DEF Inv

\* When all branches of a task have ended, no task is below them, and none but them
\* below the task.
LEMMA RemainingOK ==
    ASSUME Inv, NEW t \in Tasks, AllEnded(t)
    PROVE  \A T \in {Tasks \ Kids(t)} :
              /\ T \in SUBSET Tasks /\ t \in T /\ <<>> \in T
              /\ \A k \in T : \A l \in 1..Len(k) : Above(k, l - 1) \in T \ {t}
              /\ \A k \in Kids(t) : k # <<>>
<1> DEFINE kids == Kids(t)
           T == Tasks \ kids
<1>1. t \in Seq(Nat) /\ Len(t) \in Nat /\ \A k \in kids : k # t /\ k # <<>> /\ k \in Tasks
  <2>1. t \in Seq(Nat) /\ Len(t) \in Nat
    BY DEF Inv, Paths
  <2>2. ASSUME NEW k \in kids
        PROVE  k # t /\ k # <<>> /\ k \in Tasks
    <3>1. Len(k) = Len(t) + 1 /\ k \in Tasks
      BY DEF Kids
    <3>2. QED
      BY <2>1, <3>1
  <2>3. QED
    BY <2>1, <2>2
<1>2. T \in SUBSET Tasks /\ t \in T /\ <<>> \in T
  BY <1>1 DEF Inv, Paths
<1>3. ASSUME NEW k \in T, NEW l \in 1..Len(k)
      PROVE  Above(k, l - 1) \in T \ {t}
  <2>1. k \in Seq(Nat) /\ Len(k) \in Nat /\ l \in 0..Len(k) /\ l - 1 \in 0..l /\ l - 1 \in 0..Len(k)
    BY DEF Inv, Paths
  <2>2. \A m \in 1..Len(k) : Above(k, m - 1) \in Tasks /\ ~Ended(Above(k, m - 1))
    BY DEF Inv, Paths, WaitingAt
  <2>3. Above(k, l - 1) \in T
    BY <2>2 DEF AllEnded
  <2>4. ASSUME Above(k, l - 1) = t
        PROVE  FALSE
    <3>1. Above(k, l) \in Tasks
      <4>1. CASE l = Len(k)
        BY <4>1, <2>1, AbovePath
      <4>2. CASE l # Len(k)
        <5>1. l + 1 \in 1..Len(k) /\ (l + 1) - 1 = l
          BY <4>2, <2>1
        <5>2. QED
          BY <5>1, <2>2
      <4>3. QED
        BY <4>1, <4>2
    <3>2. Len(Above(k, l)) = l /\ Len(t) = l - 1 /\ Above(Above(k, l), l - 1) = t
      BY <2>1, <2>4, AbovePath
    <3>3. Len(Above(k, l)) = Len(t) + 1 /\ SubSeq(Above(k, l), 1, Len(t)) = t
      BY <3>2, <2>1 DEF Above
    <3>4. Above(k, l) \in kids
      BY <3>1, <3>3 DEF Kids
    <3>5. CASE l = Len(k)
      BY <3>4, <3>5, <2>1, AbovePath
    <3>6. CASE l # Len(k)
      <4>1. l + 1 \in 1..Len(k) /\ (l + 1) - 1 = l
        BY <3>6, <2>1
      <4>2. ~Ended(Above(k, l))
        BY <4>1, <2>2
      <4>3. QED
        BY <4>2, <3>4 DEF AllEnded
    <3>7. QED
      BY <3>5, <3>6
  <2>5. QED
    BY <2>3, <2>4
<1>4. QED
  BY <1>1, <1>2, <1>3

\* A task goes on after its branches.
LEMMA JoinOK ==
    ASSUME Inv, NEW t \in Tasks, Join(t)
    PROVE  Inv'
<1> DEFINE f == Top(t)
           kids == Kids(t)
           given == [i \in 1..Cardinality(kids) |-> task[Append(t, i)].outcome.what]
           v == Text(given)
           calls == Calls(task[t].stack)
           first == CHOOSE i \in Failed(t) : \A j \in Failed(t) : i <= j
           onward == [task[t] EXCEPT !.stack = <<Give(f, v)>> \o Tail(@), !.trace = Merged(t)]
           failed == [task[t] EXCEPT !.stack = <<>>, !.depth = @ - calls, !.trace = Merged(t),
                                     !.outcome = task[Append(t, first)].outcome]
           interp == IF Failed(t) = {} THEN onward ELSE failed
           T == Tasks \ kids
           s == task[t].stack
           u == <<Give(f, v)>> \o Tail(s)
<1>1. /\ ~Ended(t) /\ kids # {} /\ \A k \in kids : Ended(k)
      /\ task' = Without(t, interp)
      /\ UNCHANGED <<declared, entry, mode, printed, expected>>
  BY DEF Join, AllEnded
<1>2. /\ T \in SUBSET Tasks /\ t \in T /\ <<>> \in T
      /\ \A k \in T : \A l \in 1..Len(k) : Above(k, l - 1) \in T \ {t}
      /\ \A k \in kids : k # <<>> /\ k \in Tasks
  <2>1. AllEnded(t)
    BY DEF Join
  <2>2. QED
    BY <2>1, RemainingOK DEF Kids
<1>3. task' = [k \in T |-> IF k = t THEN interp ELSE task[k]]
  BY <1>1 DEF Without
<1>5. mode = "parallel" /\ Working
  <2>1. PICK k \in kids : k # <<>> /\ k \in Tasks
    BY <1>1, <1>2
  <2>2. QED
    BY <2>1 DEF Inv, Paths, Working
<1>6. /\ InterpOK(declared, task[t]) /\ IsSeq(s) /\ s # <<>> /\ task[t].outcome = NoOutcome
      /\ DOMAIN task[t] = {"stack", "depth", "trace", "outcome"}
  BY <1>1, <1>5 DEF Inv, InterpOK, Ended
<1>7. f = s[1] /\ Len(s) \in Nat \ {0} /\ 1 \in 1..Len(s)
  BY <1>6, Popped DEF Top
<1>8. CASE Failed(t) = {}
  <2>1. FrameOK(declared, f)
    BY <1>6, <1>7 DEF InterpOK
  <2> HIDE DEF v
  <2> DEFINE g == Give(f, v)
  <2>2. FrameOK(declared, g) /\ Follows(f, g)
    BY <2>1, GiveOK
  <2> HIDE DEF g
  <2>3. task' = [k \in T |-> IF k = t THEN onward ELSE task[k]]
    BY <1>3, <1>8
  <2>4. /\ DOMAIN onward = DOMAIN task[t] /\ onward.stack = u /\ onward.outcome = NoOutcome
    BY <1>6 DEF g
  <2> HIDE DEF onward, interp, s, f
  <2>5. /\ IsSeq(u) /\ u # <<>> /\ Len(u) = Len(s) /\ u[1] = g
        /\ \A i \in 2..Len(s) : u[i] = s[i]
    BY <1>6, Replaced DEF g
  <2> HIDE DEF u
  <2>6. \A i \in 1..Len(u) : i \in 1..Len(s) /\ (i = 1 \/ u[i] = s[i])
    BY <1>7, <2>5
  <2>7. InterpOK(declared, onward)
    <3>1. \A i \in 1..Len(u) : FrameOK(declared, u[i])
      BY <1>6, <2>2, <2>5, <2>6 DEF InterpOK, s
    <3>2. \A i \in 2..Len(u) : u[i].work # <<>>
      BY <1>6, <2>5 DEF InterpOK, s
    <3>3. QED
      BY <3>1, <3>2, <1>6, <2>4, <2>5 DEF InterpOK
  <2>8. ASSUME NEW S, ImportsDeclare, ConfinedTo(s, S)
        PROVE  ConfinedTo(onward.stack, S)
    <3>1. Within(f, S)
      BY <1>7, <2>8 DEF ConfinedTo
    <3>2. Within(g, S)
      BY <3>1, <2>2, FollowsWithin
    <3>3. QED
      BY <3>2, <2>4, <2>5, <2>6, <2>8 DEF ConfinedTo
  <2>9. /\ UNCHANGED <<declared, entry, mode, expected>>
        /\ T \in SUBSET Tasks /\ t \in T /\ <<>> \in T
        /\ \A k \in T : \A l \in 1..Len(k) : Above(k, l - 1) \in T \ {t}
    BY <1>1, <1>2
  <2> HIDE DEF T
  <2>10. QED
    BY <2>3, <2>4, <2>5, <2>7, <2>8, <2>9, ChangeOK DEF s
<1>9. CASE Failed(t) # {}
  <2>1. task' = [k \in T |-> IF k = t THEN failed ELSE task[k]]
    <3>1. interp = failed
      BY <1>9
    <3> HIDE DEF failed, interp, T
    <3>2. QED
      BY <1>3, <3>1
  <2>2. first \in Failed(t)
    <3> DEFINE F == Failed(t)
    <3>1. F \in SUBSET Nat /\ F # {}
      BY <1>9 DEF Failed
    <3> HIDE DEF F
    <3>2. PICK x \in F : \A y \in F : ~(<<y, x>> \in OpToRel(<, Nat))
      BY <3>1, NatLessThanWellFounded, WFMin
    <3>3. \A y \in F : ~(y < x)
      BY <3>1, <3>2 DEF OpToRel
    <3>4. \A y \in F : x <= y
      BY <3>1, <3>3
    <3>5. QED
      BY <3>4 DEF F
  <2>3. task[Append(t, first)].outcome # NoOutcome
    BY <2>2 DEF Failed, NoOutcome
  <2> HIDE DEF first, calls
  <2>4. /\ DOMAIN failed = {"stack", "depth", "trace", "outcome"} /\ failed.stack = <<>>
        /\ failed.outcome # NoOutcome
    BY <1>6, <2>3
  <2> HIDE DEF failed, interp
  <2>5. IsSeq(failed.stack) /\ 1..Len(failed.stack) = {} /\ 2..Len(failed.stack) = {}
    <3>1. <<>> \in Seq(Nat) /\ Len(<<>>) = 0
      OBVIOUS
    <3>2. IsSeq(<<>>)
      BY <3>1, SeqIsSeq
    <3>3. QED
      BY <3>1, <3>2, <2>4
  <2>6. InterpOK(declared, failed)
    BY <2>4, <2>5 DEF InterpOK
  <2>7. ASSUME NEW S, ImportsDeclare, ConfinedTo(task[t].stack, S)
        PROVE  ConfinedTo(failed.stack, S)
    BY <2>5 DEF ConfinedTo
  <2>8. /\ UNCHANGED <<declared, entry, mode, expected>>
        /\ T \in SUBSET Tasks /\ t \in T /\ <<>> \in T
        /\ \A k \in T : \A l \in 1..Len(k) : Above(k, l - 1) \in T \ {t}
    BY <1>1, <1>2
  <2> HIDE DEF T
  <2>9. QED
    BY <2>1, <2>4, <2>6, <2>7, <2>8, ChangeOK
<1>10. QED
  BY <1>8, <1>9

-----------------------------------------------------------------------------
(***************************************************************************)
(* The invariant holds.                                                    *)
(***************************************************************************)

\* One interpreter, without branches.
LEMMA AloneOK ==
    ASSUME NEW interp, InterpOK(declared, interp),
           declared \in [Definitions -> SUBSET Effects], entry \in Entries,
           Working => EffectsDeclared /\ (interp.outcome = NoOutcome => interp.stack # <<>>),
           task = [t \in {<<>>} |-> interp]
    PROVE  Inv
<1>1. Tasks = {<<>>} /\ task[<<>>] = interp
  BY DEF Tasks
<1>2. <<>> \in Seq(Nat) /\ 1..Len(<<>>) = {}
  <2>1. Len(<<>>) = 0 /\ <<>> \in Seq(Nat)
    OBVIOUS
  <2>2. QED
    BY <2>1
<1>3. Paths
  BY <1>1, <1>2 DEF Paths
<1>4. Confined
  BY <1>1, <1>2 DEF Confined
<1>5. QED
  BY <1>1, <1>3, <1>4 DEF Inv, Ended

\* An interpreter that has not begun, or has ended before it could.
LEMMA EmptyOK ==
    ASSUME NEW E, NEW interp, DOMAIN interp = {"stack", "depth", "trace", "outcome"},
           interp.stack = <<>>
    PROVE  InterpOK(E, interp)
<1>1. <<>> \in Seq(Nat) /\ Len(<<>>) = 0
  OBVIOUS
<1>2. IsSeq(<<>>)
  BY <1>1, SeqIsSeq
<1>3. 1..Len(<<>>) = {} /\ 2..Len(<<>>) = {}
  BY <1>1
<1>4. QED
  BY <1>2, <1>3 DEF InterpOK

\* The interpreter of the entry.
LEMMA EntryOK ==
    ASSUME NEW E
    PROVE  \A i \in {EntryInterp} : InterpOK(E, i) /\ (i.outcome = NoOutcome => i.stack # <<>>)
<1>1. CASE entry.name \in DOMAIN Symbols
  <2> DEFINE f == NewFrame(Symbols[entry.name], entry.args)
             i == Interp(<<f>>, 1)
  <2>1. EntryInterp = i
    BY <1>1 DEF EntryInterp
  <2>2. Symbols[entry.name] \in Local \union Imported
    BY <1>1 DEF Local
  <2>3. FrameOK(E, f)
    BY <2>2, NewFrameOK
  <2> HIDE DEF f
  <2>4. InterpOK(E, i) /\ i.stack # <<>>
    BY <2>3, InterpIsOK
  <2>5. QED
    BY <2>1, <2>4
<1>2. CASE entry.name \notin DOMAIN Symbols
  <2> DEFINE i == [Interp(<<>>, 0) EXCEPT !.outcome = Err("General")]
  <2>1. EntryInterp = i
    BY <1>2 DEF EntryInterp
  <2>2. /\ DOMAIN i = {"stack", "depth", "trace", "outcome"} /\ i.stack = <<>>
        /\ i.outcome # NoOutcome
    BY DEF Interp, Err, NoOutcome
  <2> HIDE DEF i
  <2>3. InterpOK(E, i)
    BY <2>2, EmptyOK
  <2>4. QED
    BY <2>1, <2>2, <2>3
<1>3. QED
  BY <1>1, <1>2

\* It holds at first.
LEMMA InitOK ==
    ASSUME Init
    PROVE  Inv
<1> DEFINE i == Interp(<<>>, 0)
<1>1. /\ declared \in [Definitions -> SUBSET Effects] /\ entry \in Entries /\ ~Working
      /\ task = [t \in {<<>>} |-> i]
  BY EvaluatorAssumption DEF Init, Working
<1>2. DOMAIN i = {"stack", "depth", "trace", "outcome"} /\ i.stack = <<>>
  BY DEF Interp
<1> HIDE DEF i
<1>3. InterpOK(declared, i)
  BY <1>2, EmptyOK
<1>4. QED
  BY <1>1, <1>3, AloneOK

\* A run that starts.
LEMMA StartOK ==
    ASSUME Inv, Load \/ RunAgain
    PROVE  Inv'
<1> DEFINE i == EntryInterp
<1>1. InterpOK(declared, i) /\ (i.outcome = NoOutcome => i.stack # <<>>)
  BY EntryOK
<1>2. CASE EffectsDeclared /\ task' = [t \in {<<>>} |-> i]
  <2> HIDE DEF i
  <2>1. UNCHANGED <<declared, entry>>
    BY DEF Load, RunAgain
  <2>2. InterpOK(declared', i) /\ EffectsDeclared'
    BY <1>1, <1>2, <2>1, SameDeclared
  <2>3. Tasks' = {<<>>} /\ task'[<<>>] = i
    BY <1>2 DEF Tasks
  <2>4. 1..Len(<<>>) = {} /\ <<>> \in Seq(Nat)
    <3>1. Len(<<>>) = 0 /\ <<>> \in Seq(Nat)
      OBVIOUS
    <3>2. QED
      BY <3>1
  <2>5. Paths'
    BY <2>3, <2>4 DEF Paths
  <2>6. Confined'
    BY <2>3, <2>4 DEF Confined
  <2>7. InterpOK(declared', task'[<<>>]) /\ (~Ended(<<>>)' => task'[<<>>].stack # <<>>)
    BY <1>1, <2>2, <2>3 DEF Ended
  <2>8. QED
    BY <2>1, <2>2, <2>3, <2>5, <2>6, <2>7 DEF Inv
<1>3. CASE RunAgain
  <2>1. EffectsDeclared
    BY <1>3 DEF RunAgain, Inv, Working
  <2>2. QED
    BY <1>2, <1>3, <2>1 DEF RunAgain
<1>4. CASE Load /\ EffectsDeclared
  BY <1>2, <1>4 DEF Load
<1>5. CASE Load /\ ~EffectsDeclared
  <2>1. /\ mode = "new" /\ mode' = "refused" /\ UNCHANGED <<task, declared, entry>>
    BY <1>5 DEF Load
  <2>2. /\ Tasks' = Tasks /\ ~Working' /\ \A t \in Tasks : Top(t)' = Top(t) /\ Ended(t)' = Ended(t)
    BY <2>1 DEF Tasks, Working, Top, Ended
  <2>3. \A t \in Tasks : t = <<>>
    BY <2>1 DEF Inv, Paths
  <2>4. 1..Len(<<>>) = {}
    <3>1. Len(<<>>) = 0
      OBVIOUS
    <3>2. QED
      BY <3>1
  <2>5. Paths'
    BY <2>2, <2>3, <2>4 DEF Paths, Inv
  <2>6. Confined'
    BY <2>2, <2>3, <2>4 DEF Confined
  <2>7. \A t \in Tasks' : InterpOK(declared', task'[t])
    BY <2>1, <2>2 DEF Inv
  <2>8. QED
    BY <2>1, <2>2, <2>5, <2>6, <2>7 DEF Inv
<1>6. QED
  BY <1>3, <1>4, <1>5

\* Every step of a task keeps it.
LEMMA StepOK ==
    ASSUME Inv, NEW t \in Tasks, Step(t)
    PROVE  Inv'
<1>1. CASE \/ BeginClause(t) \/ NoGuard(t) \/ ClauseDecided(t) \/ ClauseFails(t)
           \/ ClausesPassed(t) \/ Dispatch(t) \/ DispatchFails(t) \/ BodyEnds(t)
  BY <1>1, ClausewiseOK
<1>2. CASE \/ EvalLeaf(t) \/ Begin(t) \/ CallRefused(t) \/ EvalPart(t)
           \/ FinishLast(t) \/ FinishConcat(t) \/ FieldMissing(t)
           \/ CallPrimitive(t) \/ PrimitiveRaises(t) \/ RecursionLimit(t)
  BY <1>2, ExpressionwiseOK
<1>3. CASE CallDefinition(t)
  BY <1>3, CallDefinitionOK
<1>4. CASE Return(t)
  BY <1>4, ReturnOK
<1>5. CASE ReturnToHost(t) \/ BranchEnds(t)
  BY <1>5, LastOK
<1>6. CASE Spawn(t)
  BY <1>6, SpawnOK
<1>7. CASE Join(t)
  BY <1>7, JoinOK
<1>8. QED
  BY <1>1, <1>2, <1>3, <1>4, <1>5, <1>6, <1>7 DEF Step

\* A step that changes nothing keeps it.
LEMMA StutterOK ==
    ASSUME Inv, UNCHANGED vars
    PROVE  Inv'
<1>1. UNCHANGED <<declared, entry, mode, task>>
  BY DEF vars
<1>2. /\ Tasks' = Tasks /\ Working' = Working
      /\ \A t : Top(t)' = Top(t) /\ Ended(t)' = Ended(t) /\ \A k : PartAt(t, k)' = PartAt(t, k)
  BY <1>1 DEF Tasks, Working, Top, Ended, PartAt
<1>3. Paths'
  BY <1>1, <1>2, SameDeclared DEF Inv, Paths, WaitingAt
<1>4. Confined'
  <2> SUFFICES ASSUME ImportsDeclare, NEW t \in Tasks, NEW k \in 1..Len(t),
                      NEW n, n = PartAt(t, k)'
               PROVE  ConfinedTo(task[t].stack, ExprEffects(n))'
    BY <1>1, <1>2, SameDeclared DEF Confined
  <2>1. ConfinedTo(task[t].stack, ExprEffects(n))
    BY <1>2 DEF Inv, Confined
  <2>2. QED
    BY <2>1, <1>1, SameDeclared DEF ConfinedTo, Within
<1>5. QED
  BY <1>1, <1>2, <1>3, <1>4, SameDeclared DEF Inv

LEMMA Invariance == Spec => []Inv
<1>1. Init => Inv
  BY InitOK
<1>2. Inv /\ [Next]_vars => Inv'
  <2> SUFFICES ASSUME Inv, [Next]_vars
               PROVE  Inv'
    OBVIOUS
  <2>1. CASE Load \/ RunAgain
    BY <2>1, StartOK
  <2>2. CASE \E t \in Tasks : Step(t)
    BY <2>2, StepOK
  <2>3. CASE Rest
    BY <2>3, StutterOK DEF Rest
  <2>4. CASE UNCHANGED vars
    BY <2>4, StutterOK
  <2>5. QED
    BY <2>1, <2>2, <2>3, <2>4 DEF Next, Work
<1>3. QED
  BY <1>1, <1>2, PTL DEF Spec

-----------------------------------------------------------------------------
(***************************************************************************)
(* What follows from it.                                                   *)
(***************************************************************************)

\* Two tasks at work are on paths that part, at the same concatenation.
LEMMA PathsPart ==
    ASSUME Inv, NEW t \in Tasks, NEW u \in Tasks, t # u, Active(t), Active(u)
    PROVE  \E k \in Nat : /\ k \in 1..Len(t) /\ k \in 1..Len(u) /\ t[k] # u[k]
                          /\ Above(t, k - 1) = Above(u, k - 1)
<1> DEFINE D == {k \in 1..Len(t) : k \in 1..Len(u) /\ t[k] # u[k]}
<1>1. t \in Seq(Nat) /\ u \in Seq(Nat) /\ Len(t) \in Nat /\ Len(u) \in Nat
  BY DEF Inv, Paths
<1>2. ASSUME NEW v \in Tasks, NEW w \in Tasks, v # w, Active(v), Len(v) <= Len(w),
             \A k \in 1..Len(v) : k \in 1..Len(w) => v[k] = w[k]
      PROVE  FALSE
  <2>1. v \in Seq(Nat) /\ w \in Seq(Nat) /\ Len(v) \in Nat /\ Len(w) \in Nat
    BY DEF Inv, Paths
  <2>2. Len(v) \in 0..Len(w) /\ \A k \in 1..Len(v) : v[k] = w[k]
    BY <2>1, <1>2
  <2>3. /\ Above(w, Len(v)) \in Seq(Nat) /\ Len(Above(w, Len(v))) = Len(v)
        /\ \A k \in 1..Len(v) : Above(w, Len(v))[k] = w[k]
        /\ Above(w, Len(w)) = w
    BY <2>1, <2>2, AbovePath
  <2> DEFINE a == Above(w, Len(v))
  <2> HIDE DEF a
  <2>4. a \in Seq(Nat) /\ Len(a) = Len(v) /\ \A k \in 1..Len(v) : a[k] = v[k]
    BY <2>2, <2>3 DEF a
  <2>5. a = v
    <3>1. /\ a = [k \in 1..Len(v) |-> a[k]] /\ v = [k \in 1..Len(v) |-> v[k]]
      BY <2>1, <2>4
    <3>2. [k \in 1..Len(v) |-> a[k]] = [k \in 1..Len(v) |-> v[k]]
      BY <2>4
    <3>3. QED
      BY <3>1, <3>2
  <2>6. CASE Len(v) = Len(w)
    BY <2>3, <2>5, <2>6, <1>2 DEF a
  <2>7. CASE Len(v) # Len(w)
    <3>1. Len(v) + 1 \in 1..Len(w) /\ (Len(v) + 1) - 1 = Len(v)
      BY <2>1, <2>7, <1>2
    <3>2. Kids(v) = {} /\ Paths
      BY <1>2 DEF Active, Inv
    <3>3. Above(w, (Len(v) + 1) - 1) # v
      BY <3>1, <3>2, NoneBelow
    <3>4. QED
      BY <3>1, <3>3, <2>5 DEF a
  <2>8. QED
    BY <2>6, <2>7
<1>3. D # {}
  <2> SUFFICES ASSUME D = {}
               PROVE  FALSE
    OBVIOUS
  <2>1. \A k \in 1..Len(t) : k \in 1..Len(u) => t[k] = u[k]
    OBVIOUS
  <2>2. \A k \in 1..Len(u) : k \in 1..Len(t) => u[k] = t[k]
    BY <2>1
  <2> HIDE DEF D
  <2>3. CASE Len(t) <= Len(u)
    BY <2>1, <2>3, <1>2
  <2>4. CASE Len(u) <= Len(t)
    BY <2>2, <2>4, <1>2
  <2>5. QED
    BY <2>3, <2>4, <1>1
<1>4. D \in SUBSET Nat
  OBVIOUS
<1>5. PICK k \in D : \A j \in D : ~(j < k)
  <2> HIDE DEF D
  <2>1. PICK k \in D : \A j \in D : ~(<<j, k>> \in OpToRel(<, Nat))
    BY <1>3, <1>4, NatLessThanWellFounded, WFMin
  <2>2. QED
    BY <2>1, <1>4 DEF OpToRel
<1>6. k \in Nat /\ k \in 1..Len(t) /\ k \in 1..Len(u) /\ t[k] # u[k]
  OBVIOUS
<1>7. \A j \in 1..(k - 1) : t[j] = u[j]
  <2> SUFFICES ASSUME NEW j \in 1..(k - 1)
               PROVE  t[j] = u[j]
    OBVIOUS
  <2>1. j < k /\ j \in 1..Len(t) /\ j \in 1..Len(u)
    BY <1>1, <1>6
  <2>2. j \notin D
    BY <2>1, <1>5
  <2>3. QED
    BY <2>1, <2>2
<1>8. Above(t, k - 1) = Above(u, k - 1)
  <2> HIDE DEF D
  <2>1. k - 1 \in 0..Len(t) /\ k - 1 \in 0..Len(u)
    BY <1>1, <1>6
  <2> DEFINE a == Above(t, k - 1)
             b == Above(u, k - 1)
  <2>2. /\ a \in Seq(Nat) /\ Len(a) = k - 1 /\ \A i \in 1..(k - 1) : a[i] = t[i]
        /\ b \in Seq(Nat) /\ Len(b) = k - 1 /\ \A i \in 1..(k - 1) : b[i] = u[i]
    BY <1>1, <2>1, AbovePath
  <2> HIDE DEF a, b
  <2>3. a = b
    BY <1>7, <2>2
  <2>4. QED
    BY <2>3 DEF a, b
<1>9. QED
  BY <1>6, <1>8

\* What is about to happen in a call has been declared by its definition and, if imports
\* declare what they call, by every part that led to the task.
LEMMA Declared ==
    ASSUME Inv, ImportsDeclare, NEW t \in Tasks, NEW e, AboutToPerform(t, e),
           Top(t).phase # "branch", NEW k \in 1..Len(t)
    PROVE  e \in ExprEffects(PartAt(t, k))
<1>1. Active(t) /\ Ready(t) /\ e \in EffectsOf(Head(Top(t).work).node)
  BY DEF AboutToPerform
<1>2. e \in declared[Top(t).defn]
  BY <1>1, ReadyOK DEF BegunOK
<1>3. ConfinedTo(task[t].stack, ExprEffects(PartAt(t, k)))
  BY DEF Inv, Confined
<1>4. Within(Top(t), ExprEffects(PartAt(t, k)))
  BY <1>1, <1>3, ActiveOK DEF ConfinedTo
<1>5. QED
  BY <1>2, <1>4 DEF Within

\* No two tasks are ever about to perform the same effect in calls their branches have
\* made, whatever the program, its declarations and the order of the branches: the
\* static check of ShouldParallelize is enough, given that imports declare what they call.
THEOREM EffectsApart == Spec => []EffectsKeptApart
<1>1. Inv => EffectsKeptApart
  <2> SUFFICES ASSUME Inv, ImportsDeclare, NEW t \in Tasks, NEW u \in Tasks, NEW e \in Effects, t # u,
                      AboutToPerform(t, e), Top(t).phase # "branch",
                      AboutToPerform(u, e), Top(u).phase # "branch"
               PROVE  FALSE
    BY DEF EffectsKeptApart
  <2>1. Active(t) /\ Active(u)
    BY DEF AboutToPerform
  <2>2. PICK k \in Nat : /\ k \in 1..Len(t) /\ k \in 1..Len(u) /\ t[k] # u[k]
                         /\ Above(t, k - 1) = Above(u, k - 1)
    BY <2>1, PathsPart
  <2> DEFINE p == Above(t, k - 1)
             parts == Node[Top(p).focus].parts
  <2>3. WaitingAt(p, t[k]) /\ WaitingAt(p, u[k])
    BY <2>2 DEF Inv, Paths
  <2>4. PartAt(t, k) = parts[t[k]] /\ PartAt(u, k) = parts[u[k]]
    BY <2>2 DEF PartAt
  <2>5. e \in ExprEffects(parts[t[k]]) /\ e \in ExprEffects(parts[u[k]])
    BY <2>2, <2>4, Declared
  <2>6. t[k] \in 1..Len(parts) /\ u[k] \in 1..Len(parts) /\ AllDisjoint(parts)
    BY <2>3 DEF WaitingAt
  <2> HIDE DEF parts
  <2>7. t[k] < u[k] \/ u[k] < t[k]
    BY <2>2, <2>6
  <2>8. QED
    BY <2>5, <2>6, <2>7 DEF AllDisjoint
<1>2. QED
  BY <1>1, Invariance, PTL

-----------------------------------------------------------------------------
(***************************************************************************)
(* The recursion limit of the parallel evaluator: whatever branches a      *)
(* program makes, a task counts the calls that one stack would hold, and   *)
(* never more than the limit.                                              *)
(***************************************************************************)

-----------------------------------------------------------------------------
(***************************************************************************)
(* The inductive invariant, on top of Inv.                                 *)
(***************************************************************************)

\* The frame a branch copies is its outermost; the entry has none.
StackOK(t, stack) ==
    \A i \in 1..Len(stack) : (stack[i].phase = "branch") <=> (t # <<>> /\ i = Len(stack))

DepthAbove(t) == IF t = <<>> THEN 0 ELSE task[Front(t)].depth

DepthOK(t) ==
    /\ StackOK(t, task[t].stack)
    /\ task[t].depth \in 0..MaxDepth /\ task[t].depth = Calls(task[t].stack) + DepthAbove(t)

DepthInv == \A t \in Tasks : DepthOK(t)

WithinLimit == \A t \in Tasks : task[t].depth \in 0..MaxDepth

-----------------------------------------------------------------------------
\* The calls on a stack: all frames but the one a branch copies.
LEMMA CallsOf ==
    ASSUME NEW t, NEW stack, IsSeq(stack), StackOK(t, stack)
    PROVE  /\ Len(stack) \in Nat /\ Calls(stack) \in Nat
           /\ Calls(stack) = IF t = <<>> \/ stack = <<>> THEN Len(stack) ELSE Len(stack) - 1
<1> DEFINE n == Len(stack)
           C == {i \in 1..n : stack[i].phase # "branch"}
<1>1. n \in Nat /\ (stack = <<>> <=> n = 0)
  <2> DEFINE U == {stack[i] : i \in 1..Len(stack)}
  <2>1. stack \in Seq(U)
    BY DEF IsSeq
  <2> HIDE DEF U
  <2>2. QED
    BY <2>1
<1>2. Calls(stack) = Cardinality(C)
  BY DEF Calls
<1>3. CASE t = <<>> \/ stack = <<>>
  <2>1. C = 1..n
    BY <1>1, <1>3 DEF StackOK
  <2>2. Cardinality(1..n) = n
    BY <1>1, FS_Interval
  <2>3. QED
    BY <1>1, <1>2, <1>3, <2>1, <2>2
<1>4. CASE t # <<>> /\ stack # <<>>
  <2>1. n - 1 \in Nat
    BY <1>1, <1>4
  <2>2. C = 1..(n - 1)
    BY <1>1, <1>4 DEF StackOK
  <2>3. Cardinality(1..(n - 1)) = n - 1
    BY <2>1, FS_Interval
  <2>4. QED
    BY <1>1, <1>2, <1>4, <2>1, <2>2, <2>3
<1>5. QED
  BY <1>3, <1>4

\* An empty stack.
LEMMA NoCalls ==
    ASSUME NEW t
    PROVE  IsSeq(<<>>) /\ StackOK(t, <<>>) /\ Calls(<<>>) = 0
<1>1. <<>> \in Seq(Nat) /\ Len(<<>>) = 0 /\ 1..Len(<<>>) = {}
  OBVIOUS
<1>2. IsSeq(<<>>)
  BY <1>1, SeqIsSeq
<1>3. StackOK(t, <<>>)
  BY <1>1 DEF StackOK
<1>4. QED
  BY <1>1, <1>2, <1>3, CallsOf

\* The task above is a task, and not the task itself.
LEMMA FrontOK ==
    ASSUME Inv, NEW t \in Tasks, t # <<>>
    PROVE  /\ Len(t) \in 1..Len(t) /\ Front(t) = Above(t, Len(t) - 1)
           /\ Front(t) \in Tasks /\ Front(t) # t /\ ~Ended(Front(t))
<1>1. t \in Seq(Nat) /\ Len(t) \in Nat \ {0}
  BY DEF Inv, Paths
<1>2. Len(t) \in 1..Len(t) /\ Len(t) - 1 \in 0..Len(t)
  BY <1>1
<1>3. Front(t) = Above(t, Len(t) - 1)
  BY DEF Front, Above
<1>4. Len(Above(t, Len(t) - 1)) = Len(t) - 1
  BY <1>1, <1>2, AbovePath
<1>5. WaitingAt(Front(t), t[Len(t)])
  BY <1>2, <1>3 DEF Inv, Paths
<1>6. QED
  BY <1>1, <1>2, <1>3, <1>4, <1>5 DEF WaitingAt

\* The calls of the tasks above leave room.
LEMMA AboveOK ==
    ASSUME Inv, DepthInv, NEW t \in Tasks
    PROVE  /\ DepthAbove(t) \in 0..MaxDepth /\ StackOK(t, task[t].stack) /\ MaxDepth \in Nat \ {0}
           /\ task[t].depth \in 0..MaxDepth /\ Calls(task[t].stack) \in Nat
           /\ task[t].depth = Calls(task[t].stack) + DepthAbove(t)
<1>1. DepthOK(t) /\ MaxDepth \in Nat \ {0}
  BY EvaluatorAssumption DEF DepthInv
<1>2. DepthAbove(t) \in 0..MaxDepth
  <2>1. CASE t = <<>>
    BY <2>1, <1>1 DEF DepthAbove
  <2>2. CASE t # <<>>
    BY <2>2, FrontOK DEF DepthAbove, DepthInv, DepthOK
  <2>3. QED
    BY <2>1, <2>2
<1>3. Calls(task[t].stack) \in Nat
  BY <1>1, CallsOf DEF Inv, InterpOK, DepthOK
<1>4. QED
  BY <1>1, <1>2, <1>3 DEF DepthOK

\* A step of one task, possibly taking back its branches.
LEMMA DepthChange ==
    ASSUME Inv, DepthInv, NEW t \in Tasks, NEW interp,
           StackOK(t, interp.stack), interp.depth \in 0..MaxDepth,
           interp.depth = Calls(interp.stack) + DepthAbove(t),
           NEW T \in SUBSET Tasks, t \in T,
           \A u \in T : \A k \in 1..Len(u) : Above(u, k - 1) \in T \ {t},
           task' = [u \in T |-> IF u = t THEN interp ELSE task[u]]
    PROVE  DepthInv'
<1>1. Tasks' = T /\ task'[t] = interp /\ \A u \in T \ {t} : task'[u] = task[u]
  BY DEF Tasks
<1>2. ASSUME NEW u \in T
      PROVE  DepthAbove(u)' = DepthAbove(u)
  <2>1. CASE u = <<>>
    BY <2>1 DEF DepthAbove
  <2>2. CASE u # <<>>
    <3>1. Front(u) \in T \ {t}
      BY <2>2, FrontOK
    <3>2. QED
      BY <3>1, <1>1, <2>2 DEF DepthAbove
  <2>3. QED
    BY <2>1, <2>2
<1>3. ASSUME NEW u \in T
      PROVE  DepthOK(u)'
  <2>1. CASE u = t
    BY <2>1, <1>1, <1>2 DEF DepthOK
  <2>2. CASE u # t
    BY <2>2, <1>1, <1>2 DEF DepthOK, DepthInv
  <2>3. QED
    BY <2>1, <2>2
<1>4. QED
  BY <1>1, <1>3 DEF DepthInv

\* A step of a task at work.
LEMMA DepthUpdate ==
    ASSUME Inv, DepthInv, NEW t \in Tasks, Active(t), NEW interp,
           StackOK(t, interp.stack), interp.depth \in 0..MaxDepth,
           interp.depth = Calls(interp.stack) + DepthAbove(t), Update(t, interp)
    PROVE  DepthInv'
<1>1. task' = [u \in Tasks |-> IF u = t THEN interp ELSE task[u]]
  BY DEF Update, Tasks
<1>2. \A u \in Tasks : \A k \in 1..Len(u) : Above(u, k - 1) \in Tasks \ {t}
  BY ActiveOK, NoneBelow DEF Inv, Paths, WaitingAt
<1>3. QED
  BY <1>1, <1>2, DepthChange

\* A new innermost frame, of a call or of a branch as before.
LEMMA TopCalls ==
    ASSUME NEW t, NEW s, IsSeq(s), s # <<>>, StackOK(t, s),
           NEW g, g.phase = "branch" <=> s[1].phase = "branch"
    PROVE  \A u \in {<<g>> \o Tail(s)} : StackOK(t, u) /\ Calls(u) = Calls(s)
<1> DEFINE u == <<g>> \o Tail(s)
<1>1. /\ IsSeq(u) /\ u # <<>> /\ Len(u) = Len(s) /\ Len(s) \in Nat \ {0} /\ u[1] = g
      /\ \A i \in 2..Len(s) : u[i] = s[i]
  BY Replaced
<1> HIDE DEF u
<1>2. \A i \in 1..Len(u) : i \in 1..Len(s) /\ (u[i].phase = "branch" <=> s[i].phase = "branch")
  <2> SUFFICES ASSUME NEW i \in 1..Len(u)
               PROVE  i \in 1..Len(s) /\ (u[i].phase = "branch" <=> s[i].phase = "branch")
    OBVIOUS
  <2>1. CASE i = 1
    BY <2>1, <1>1
  <2>2. CASE i # 1
    BY <2>2, <1>1
  <2>3. QED
    BY <2>1, <2>2
<1>3. StackOK(t, u)
  BY <1>1, <1>2 DEF StackOK
<1>4. Calls(u) = Calls(s)
  BY <1>1, <1>3, CallsOf
<1>5. QED
  BY <1>3, <1>4 DEF u

-----------------------------------------------------------------------------
(***************************************************************************)
(* Every step keeps it.                                                    *)
(***************************************************************************)

\* The stack grows and shrinks with calls only.
LEMMA DepthTop ==
    ASSUME Inv, DepthInv, NEW t \in Tasks, Active(t),
           NEW g, g.phase = "branch" <=> Top(t).phase = "branch",
           NEW interp, interp.stack = <<g>> \o Tail(task[t].stack),
           interp.depth = task[t].depth, Update(t, interp)
    PROVE  DepthInv'
<1> DEFINE s == task[t].stack
<1>1. s # <<>> /\ IsSeq(s) /\ Top(t) = s[1]
  BY ActiveOK
<1>2. /\ StackOK(t, s) /\ task[t].depth \in 0..MaxDepth
      /\ task[t].depth = Calls(s) + DepthAbove(t)
  BY AboveOK
<1> HIDE DEF s
<1>3. StackOK(t, interp.stack) /\ Calls(interp.stack) = Calls(s)
  BY <1>1, <1>2, TopCalls DEF s
<1>4. QED
  BY <1>2, <1>3, DepthUpdate

LEMMA DepthBecome ==
    ASSUME Inv, DepthInv, NEW t \in Tasks, Active(t),
           NEW g, g.phase = "branch" <=> Top(t).phase = "branch", Become(t, g)
    PROVE  DepthInv'
<1> DEFINE interp == [task[t] EXCEPT !.stack = <<g>> \o Tail(@)]
<1>1. Update(t, interp)
  BY DEF Become
<1>2. interp.stack = <<g>> \o Tail(task[t].stack) /\ interp.depth = task[t].depth
  BY ActiveOK DEF InterpOK
<1> HIDE DEF interp
<1>3. QED
  BY <1>1, <1>2, DepthTop

LEMMA DepthFollow ==
    ASSUME Inv, DepthInv, NEW t \in Tasks, Active(t), NEW g, Follows(Top(t), g), Become(t, g)
    PROVE  DepthInv'
BY DepthBecome DEF Follows

\* A task that ends gives back the calls it held.
LEMMA DepthEnd ==
    ASSUME Inv, DepthInv, NEW t \in Tasks, Active(t), NEW interp, interp.stack = <<>>,
           interp.depth = task[t].depth - Calls(task[t].stack), Update(t, interp)
    PROVE  DepthInv'
<1>1. StackOK(t, interp.stack) /\ Calls(interp.stack) = 0
  BY NoCalls
<1>2. /\ DepthAbove(t) \in 0..MaxDepth /\ Calls(task[t].stack) \in Nat
      /\ task[t].depth \in 0..MaxDepth /\ task[t].depth = Calls(task[t].stack) + DepthAbove(t)
  BY AboveOK
<1>3. interp.depth = DepthAbove(t)
  BY <1>2
<1>4. interp.depth = Calls(interp.stack) + DepthAbove(t)
  BY <1>1, <1>2, <1>3
<1>5. QED
  BY <1>1, <1>2, <1>3, <1>4, DepthUpdate

LEMMA DepthRaise ==
    ASSUME Inv, DepthInv, NEW t \in Tasks, Active(t), NEW e, Raise(t, e)
    PROVE  DepthInv'
<1> DEFINE interp == [task[t] EXCEPT !.stack = <<>>, !.outcome = Err(e),
                                     !.depth = @ - Calls(task[t].stack)]
<1>1. Update(t, interp)
  BY DEF Raise
<1>2. interp.stack = <<>> /\ interp.depth = task[t].depth - Calls(task[t].stack)
  BY ActiveOK DEF InterpOK
<1> HIDE DEF interp
<1>3. QED
  BY <1>1, <1>2, DepthEnd

\* Clauses.
LEMMA DepthClauses ==
    ASSUME Inv, DepthInv, NEW t \in Tasks,
           \/ BeginClause(t) \/ NoGuard(t) \/ ClauseDecided(t) \/ ClauseFails(t)
           \/ ClausesPassed(t) \/ Dispatch(t) \/ DispatchFails(t) \/ BodyEnds(t)
    PROVE  DepthInv'
<1> DEFINE f == Top(t)
<1>1. Active(t)
  BY DEF BeginClause, NoGuard, ClauseDecided, ClauseFails, ClausesPassed, Dispatch,
         DispatchFails, BodyEnds
<1>2. DOMAIN f = {"defn", "phase", "at", "allowed", "satisfied", "focus", "work", "given",
                  "result", "locals"}
  BY <1>1, ActiveOK DEF FrameOK
<1>3. ASSUME NEW g, Become(t, g), g.phase = f.phase \/ (f.phase # "branch" /\ g.phase # "branch")
      PROVE  DepthInv'
  BY <1>1, <1>3, DepthBecome
<1>4. CASE BeginClause(t)
  <2> DEFINE env == IF f.phase = "post" THEN [f.locals EXCEPT !["result"] = f.result]
                                        ELSE f.locals
             g == [f EXCEPT !.focus = Clause(f), !.locals = env]
  <2>1. Become(t, g)
    BY <1>4 DEF BeginClause
  <2> HIDE DEF env
  <2>2. g.phase = f.phase
    BY <1>2
  <2> HIDE DEF g
  <2>3. QED
    BY <2>1, <2>2, <1>3
<1>5. CASE NoGuard(t)
  <2> DEFINE g == [f EXCEPT !.at = NextClause(f), !.satisfied = @ \union {f.at}]
  <2>1. Become(t, g) /\ g.phase = f.phase
    BY <1>2, <1>5 DEF NoGuard
  <2> HIDE DEF g
  <2>2. QED
    BY <2>1, <1>3
<1>6. CASE ClauseDecided(t)
  <2> DEFINE g == [f EXCEPT
                     !.given = NoValue, !.at = NextClause(f),
                     !.satisfied = IF f.phase = "guard" /\ Truthy(f.given) THEN @ \union {f.at} ELSE @]
  <2>1. Become(t, g) /\ g.phase = f.phase
    BY <1>2, <1>6 DEF ClauseDecided
  <2> HIDE DEF g
  <2>2. QED
    BY <2>1, <1>3
<1>7. CASE ClausesPassed(t)
  <2> DEFINE next == IF f.phase = "pre" THEN "guard" ELSE "return"
             g == [f EXCEPT !.phase = next, !.at = 1]
  <2>1. Become(t, g) /\ f.phase # "branch" /\ next # "branch"
    BY <1>7 DEF ClausesPassed, PastClauses, ClausePhases
  <2> HIDE DEF next
  <2>2. g.phase = next
    BY <1>2
  <2> HIDE DEF g
  <2>3. QED
    BY <2>1, <2>2, <1>3
<1>8. CASE Dispatch(t)
  <2> DEFINE k == Cheapest(f.defn, f.satisfied)
             g == [f EXCEPT !.phase = "body", !.at = k, !.focus = Candidates[f.defn][k].body]
  <2>1. Become(t, g) /\ f.phase # "branch"
    BY <1>8 DEF Dispatch
  <2> HIDE DEF k
  <2>2. g.phase = "body"
    BY <1>2
  <2> HIDE DEF g
  <2>3. QED
    BY <2>1, <2>2, <1>3
<1>9. CASE BodyEnds(t)
  <2> DEFINE next == IF f.given = Bottom THEN "return" ELSE "post"
             g == [f EXCEPT !.phase = next, !.at = 1, !.given = NoValue, !.result = f.given]
  <2>1. Become(t, g) /\ f.phase # "branch" /\ next # "branch"
    BY <1>9 DEF BodyEnds
  <2> HIDE DEF next
  <2>2. g.phase = next
    BY <1>2
  <2> HIDE DEF g
  <2>3. QED
    BY <2>1, <2>2, <1>3
<1>10. CASE ClauseFails(t) \/ DispatchFails(t)
  BY <1>1, <1>10, DepthRaise DEF ClauseFails, DispatchFails
<1>11. QED
  BY <1>4, <1>5, <1>6, <1>7, <1>8, <1>9, <1>10

\* Expressions.
LEMMA DepthFinishing ==
    ASSUME Inv, DepthInv, NEW t \in Tasks, Active(t), Ready(t), NEW v, Become(t, Finish(Top(t), v))
    PROVE  DepthInv'
<1>1. FrameOK(declared, Top(t)) /\ Top(t).work # <<>>
  BY ReadyOK
<1>2. QED
  BY <1>1, FinishOK, DepthFollow

LEMMA DepthExpressions ==
    ASSUME Inv, DepthInv, NEW t \in Tasks,
           \/ EvalLeaf(t) \/ Begin(t) \/ CallRefused(t) \/ EvalPart(t)
           \/ FinishLast(t) \/ FinishConcat(t) \/ FieldMissing(t)
           \/ CallPrimitive(t) \/ PrimitiveRaises(t) \/ RecursionLimit(t)
    PROVE  DepthInv'
<1> DEFINE f == Top(t)
<1>0. Active(t)
  BY DEF EvalLeaf, Begin, CallRefused, EvalPart, FinishLast, FinishConcat, FieldMissing,
         CallPrimitive, PrimitiveRaises, RecursionLimit, FinishingPrimitive, Finishing, Evaluating
<1>f. FrameOK(declared, f)
  BY <1>0, ActiveOK
<1>1. CASE EvalLeaf(t)
  <2>1. PICK v : \/ Raise(t, "General") \/ Become(t, Give(Top(t), v))
    BY <1>1 DEF EvalLeaf
  <2>2. CASE Raise(t, "General")
    BY <1>0, <2>2, DepthRaise
  <2>3. CASE Become(t, Give(Top(t), v))
    BY <1>0, <1>f, <2>3, GiveOK, DepthFollow
  <2>4. QED
    BY <2>1, <2>2, <2>3
<1>2. CASE Begin(t)
  <2> DEFINE ws == <<[node |-> f.focus, done |-> <<>>, outer |-> f.locals]>> \o f.work
             g == [f EXCEPT !.focus = NoNode, !.work = ws]
  <2>1. Become(t, g)
    BY <1>2 DEF Begin
  <2> HIDE DEF ws
  <2>2. g.phase = f.phase
    BY <1>f DEF FrameOK
  <2> HIDE DEF g
  <2>3. QED
    BY <1>0, <2>1, <2>2, DepthBecome
<1>3. CASE EvalPart(t)
  <2> DEFINE w == Head(f.work)
             env == IF Node[w.node].kind = "binding" /\ Len(w.done) = 1
                    THEN [f.locals EXCEPT ![Node[w.node].name] = w.done[1]] ELSE f.locals
             g == [f EXCEPT !.focus = NextPart(w), !.locals = env]
  <2>1. Become(t, g)
    BY <1>3 DEF EvalPart
  <2> HIDE DEF env, w
  <2>2. g.phase = f.phase
    BY <1>f DEF FrameOK
  <2> HIDE DEF g
  <2>3. QED
    BY <1>0, <2>1, <2>2, DepthBecome
<1>4. CASE FinishLast(t) \/ FinishConcat(t)
  <2>1. Ready(t) /\ \E v : Become(t, Finish(Top(t), v))
    BY <1>4 DEF FinishLast, FinishConcat, Finishing
  <2>2. QED
    BY <1>0, <2>1, DepthFinishing
<1>5. CASE CallPrimitive(t)
  <2> DEFINE v == Result(Inner(t).name, Done(t))
             e == EffectsOf(Head(Top(t).work).node)
             g == Finish(Top(t), v)
             interp == [task[t] EXCEPT
                !.stack = <<Finish(Top(t), v)>> \o Tail(@),
                !.trace = [x \in Effects |-> IF x \in e THEN Append(@[x], v) ELSE @[x]]]
  <2>1. Ready(t) /\ Update(t, interp)
    BY <1>5 DEF CallPrimitive, FinishingPrimitive, Finishing
  <2>2. g.phase = "branch" <=> f.phase = "branch"
    BY <1>0, <2>1, ReadyOK, FinishOK DEF Follows
  <2> HIDE DEF v, e
  <2>3. interp.stack = <<g>> \o Tail(task[t].stack) /\ interp.depth = task[t].depth
    BY <1>0, ActiveOK DEF InterpOK
  <2> HIDE DEF g, interp
  <2>4. QED
    BY <1>0, <2>1, <2>2, <2>3, DepthTop
<1>6. CASE CallRefused(t) \/ FieldMissing(t) \/ PrimitiveRaises(t) \/ RecursionLimit(t)
  <2>1. \E e : Raise(t, e)
    BY <1>6 DEF CallRefused, FieldMissing, PrimitiveRaises, RecursionLimit
  <2>2. QED
    BY <1>0, <2>1, DepthRaise
<1>7. QED
  BY <1>1, <1>2, <1>3, <1>4, <1>5, <1>6

\* A call finds room under the limit, and a return gives it back.
LEMMA DepthCall ==
    ASSUME Inv, DepthInv, NEW t \in Tasks, CallDefinition(t)
    PROVE  DepthInv'
<1> DEFINE s == task[t].stack
           new == NewFrame(Lookup(Inner(t).name), Done(t))
           u == <<new>> \o s
           interp == [task[t] EXCEPT !.stack = <<new>> \o @, !.depth = @ + 1]
<1>1. /\ Active(t) /\ task[t].depth < MaxDepth /\ IsDefinition(Inner(t).name)
      /\ Update(t, interp)
  BY DEF CallDefinition, HasRoom, Finishing
<1>2. s # <<>> /\ IsSeq(s)
  BY <1>1, ActiveOK
<1>3. /\ StackOK(t, s) /\ DepthAbove(t) \in 0..MaxDepth /\ MaxDepth \in Nat /\ Calls(s) \in Nat
      /\ task[t].depth \in 0..MaxDepth /\ task[t].depth = Calls(s) + DepthAbove(t)
  BY AboveOK
<1>4. new.phase = "pre"
  BY <1>1, NewFrameOK DEF Lookup, IsDefinition, Local, Imported
<1>5. interp.stack = u /\ interp.depth = task[t].depth + 1
  BY <1>1, ActiveOK DEF InterpOK
<1> HIDE DEF new, interp, s
<1>6. /\ IsSeq(u) /\ u # <<>> /\ u[1] = new /\ Len(s) \in Nat \ {0} /\ Len(u) = Len(s) + 1
      /\ \A i \in 2..Len(u) : i - 1 \in 1..Len(s) /\ u[i] = s[i - 1]
  BY <1>2, Pushed, Popped
<1> HIDE DEF u
<1>7. StackOK(t, u)
  <2> SUFFICES ASSUME NEW i \in 1..Len(u)
               PROVE  (u[i].phase = "branch") <=> (t # <<>> /\ i = Len(u))
    BY DEF StackOK
  <2>1. CASE i = 1
    BY <2>1, <1>4, <1>6
  <2>2. CASE i # 1
    <3>1. i \in 2..Len(u) /\ i \in Int
      BY <2>2, <1>6
    <3>2. i - 1 \in 1..Len(s) /\ u[i] = s[i - 1] /\ (i - 1 = Len(s) <=> i = Len(u))
      BY <3>1, <1>6
    <3>3. QED
      BY <3>2, <1>3 DEF StackOK
  <2>3. QED
    BY <2>1, <2>2
<1>8. Calls(u) = Calls(s) + 1
  <2>1. Calls(u) = IF t = <<>> THEN Len(u) ELSE Len(u) - 1
    BY <1>6, <1>7, CallsOf
  <2>2. Calls(s) = IF t = <<>> THEN Len(s) ELSE Len(s) - 1
    BY <1>2, <1>3, CallsOf
  <2>3. QED
    BY <2>1, <2>2, <1>6
<1>9. interp.depth \in 0..MaxDepth /\ interp.depth = Calls(interp.stack) + DepthAbove(t)
  BY <1>1, <1>3, <1>5, <1>8
<1>10. QED
  BY <1>1, <1>5, <1>7, <1>9, DepthUpdate

LEMMA DepthReturn ==
    ASSUME Inv, DepthInv, NEW t \in Tasks, Return(t)
    PROVE  DepthInv'
<1> DEFINE s == task[t].stack
           rest == Tail(s)
           g == Finish(Head(rest), Top(t).result)
           u == <<g>> \o Tail(rest)
           interp == [task[t] EXCEPT
              !.stack = <<Finish(Head(Tail(task[t].stack)), Top(t).result)>> \o Tail(Tail(task[t].stack)),
              !.depth = @ - 1]
<1>1. Active(t) /\ rest # <<>> /\ Update(t, interp)
  BY DEF Return
<1>2. InterpOK(declared, task[t]) /\ s # <<>> /\ IsSeq(s)
  BY <1>1, ActiveOK
<1>3. /\ StackOK(t, s) /\ DepthAbove(t) \in 0..MaxDepth /\ MaxDepth \in Nat /\ Calls(s) \in Nat
      /\ task[t].depth \in 0..MaxDepth /\ task[t].depth = Calls(s) + DepthAbove(t)
  BY AboveOK
<1>4. interp.stack = u /\ interp.depth = task[t].depth - 1
  BY <1>2 DEF InterpOK
<1> HIDE DEF interp, s
<1>5. /\ Len(s) \in Nat \ {0} /\ IsSeq(rest) /\ Len(rest) = Len(s) - 1
      /\ \A i \in 1..Len(rest) : i + 1 \in 1..Len(s) /\ rest[i] = s[i + 1]
  BY <1>2, Popped
<1> HIDE DEF rest
<1>6. Len(rest) \in Nat \ {0} /\ Head(rest) = rest[1]
  BY <1>1, <1>5, Popped
<1>7. StackOK(t, rest)
  <2> SUFFICES ASSUME NEW i \in 1..Len(rest)
               PROVE  (rest[i].phase = "branch") <=> (t # <<>> /\ i = Len(rest))
    BY DEF StackOK
  <2>1. i + 1 \in 1..Len(s) /\ rest[i] = s[i + 1] /\ (i + 1 = Len(s) <=> i = Len(rest))
    BY <1>5
  <2>2. QED
    BY <2>1, <1>3 DEF StackOK
<1>8. g.phase = "branch" <=> rest[1].phase = "branch"
  <2>1. 1 \in 1..Len(rest) /\ 2 \in 2..Len(s) /\ rest[1] = s[2]
    BY <1>5, <1>6
  <2>2. FrameOK(declared, rest[1]) /\ rest[1].work # <<>>
    BY <2>1, <1>2 DEF InterpOK, s
  <2>3. QED
    BY <2>2, <1>6, FinishOK DEF Follows
<1> HIDE DEF g
<1>9. StackOK(t, u) /\ Calls(u) = Calls(rest)
  BY <1>1, <1>5, <1>7, <1>8, TopCalls
<1>10. Calls(rest) = Calls(s) - 1
  <2>1. Calls(rest) = IF t = <<>> THEN Len(rest) ELSE Len(rest) - 1
    BY <1>1, <1>5, <1>7, CallsOf
  <2>2. Calls(s) = IF t = <<>> THEN Len(s) ELSE Len(s) - 1
    BY <1>2, <1>3, CallsOf
  <2>3. QED
    BY <2>1, <2>2, <1>5
<1>11. Calls(rest) \in Nat
  BY <1>5, <1>7, CallsOf
<1>12. interp.depth \in 0..MaxDepth /\ interp.depth = Calls(interp.stack) + DepthAbove(t)
  BY <1>3, <1>4, <1>9, <1>10, <1>11
<1>13. QED
  BY <1>1, <1>4, <1>9, <1>12, DepthUpdate

\* Of the last frames of tasks, only the entry's is a call.
LEMMA DepthLast ==
    ASSUME Inv, DepthInv, NEW t \in Tasks, ReturnToHost(t) \/ BranchEnds(t)
    PROVE  DepthInv'
<1> DEFINE s == task[t].stack
<1>1. Active(t)
  BY DEF ReturnToHost, BranchEnds
<1>2. s # <<>> /\ IsSeq(s) /\ Top(t) = s[1] /\ InterpOK(declared, task[t])
  BY <1>1, ActiveOK
<1>3. /\ StackOK(t, s) /\ Calls(s) \in Nat /\ task[t].depth \in 0..MaxDepth
  BY AboveOK
<1>4. Len(s) \in Nat \ {0} /\ Len(Tail(s)) = Len(s) - 1 /\ 1 \in 1..Len(s)
  BY <1>2, Popped
<1>5. CASE ReturnToHost(t)
  <2> DEFINE v == Top(t).result
             o == IF v = Bottom THEN Err("Refusal") ELSE Ok(v)
             interp == [task[t] EXCEPT !.stack = <<>>, !.depth = @ - 1, !.outcome = o]
  <2>1. Update(t, interp) /\ Top(t).phase = "return" /\ Tail(s) = <<>>
    BY <1>5 DEF ReturnToHost
  <2>2. Len(s) = 1
    <3>1. Len(<<>>) = 0
      OBVIOUS
    <3>2. Len(Tail(s)) = 0
      BY <3>1, <2>1
    <3>3. QED
      BY <3>2, <1>4
  <2>3. t = <<>>
    BY <2>1, <2>2, <1>2, <1>3, <1>4 DEF StackOK
  <2>4. Calls(s) = 1
    BY <2>2, <2>3, <1>2, <1>3, CallsOf
  <2> HIDE DEF o
  <2>5. interp.stack = <<>> /\ interp.depth = task[t].depth - Calls(task[t].stack)
    BY <2>4, <1>2 DEF InterpOK
  <2> HIDE DEF interp
  <2>6. QED
    BY <1>1, <2>1, <2>5, DepthEnd
<1>6. CASE BranchEnds(t)
  <2> DEFINE interp == [task[t] EXCEPT !.stack = <<>>, !.outcome = Ok(Top(t).given)]
  <2>1. Update(t, interp) /\ Top(t).phase = "branch"
    BY <1>6 DEF BranchEnds
  <2>2. t # <<>> /\ Len(s) = 1
    BY <2>1, <1>2, <1>3, <1>4 DEF StackOK
  <2>3. Calls(s) = 0
    <3>1. Calls(s) = IF t = <<>> \/ s = <<>> THEN Len(s) ELSE Len(s) - 1
      BY <1>2, <1>3, CallsOf
    <3>2. Calls(s) = Len(s) - 1
      BY <3>1, <2>2, <1>2
    <3>3. QED
      BY <3>2, <2>2
  <2>4. interp.stack = <<>> /\ interp.depth = task[t].depth - Calls(task[t].stack)
    BY <2>3, <1>2, <1>3 DEF InterpOK
  <2> HIDE DEF interp
  <2>5. QED
    BY <1>1, <2>1, <2>4, DepthEnd
<1>7. QED
  BY <1>5, <1>6

\* A branch starts at the depth of the task it belongs to, which no longer moves.
LEMMA DepthSpawn ==
    ASSUME Inv, DepthInv, NEW t \in Tasks, Spawn(t)
    PROVE  DepthInv'
<1> DEFINE f == Top(t)
           parts == Node[f.focus].parts
           kids == {Append(t, i) : i \in 1..Len(parts)}
           new(p) == Interp(<<BranchFrame(f, p)>>, BranchDepth(t))
<1>1. /\ Evaluating(t, {"concat"})
      /\ task' = [u \in Tasks \union kids |->
                     IF u \in kids THEN new(parts[u[Len(u)]]) ELSE task[u]]
  BY DEF Spawn
<1>2. Active(t) /\ FrameOK(declared, f) /\ Kids(t) = {} /\ t \in Seq(Nat)
  BY <1>1, FocusOK, ActiveOK DEF Inv, Paths
<1>3. ASSUME NEW p
      PROVE  /\ new(p).depth = task[t].depth /\ IsSeq(new(p).stack) /\ Calls(new(p).stack) = 0
             /\ \A u : u # <<>> => StackOK(u, new(p).stack)
  <2> DEFINE g == [f EXCEPT !.phase = "branch", !.allowed = Allowed(f), !.focus = p, !.work = <<>>]
             s == <<g>>
             j == [stack |-> s, depth |-> task[t].depth, trace |-> Silence, outcome |-> NoOutcome]
  <2>1. new(p) = j
    BY DEF Interp, BranchFrame, BranchDepth
  <2>2. g.phase = "branch"
    BY <1>2 DEF FrameOK
  <2> HIDE DEF g
  <2>3. /\ IsSeq(s) /\ s # <<>> /\ 1..Len(s) = {1} /\ s[1] = g
    BY OneFrame
  <2>4. Len(s) = 1
    OBVIOUS
  <2>5. j.stack = s /\ j.depth = task[t].depth
    OBVIOUS
  <2> HIDE DEF s
  <2>6. ASSUME NEW u, u # <<>>
        PROVE  StackOK(u, s)
    BY <2>2, <2>3, <2>4, <2>6 DEF StackOK
  <2>7. Calls(s) = 0
    <3>1. <<1>> # <<>>
      OBVIOUS
    <3>2. StackOK(<<1>>, s)
      BY <2>6, <3>1
    <3>3. Calls(s) = IF <<1>> = <<>> \/ s = <<>> THEN Len(s) ELSE Len(s) - 1
      BY <2>3, <3>2, CallsOf
    <3>4. QED
      BY <3>1, <3>3, <2>3, <2>4
  <2> HIDE DEF j
  <2>8. QED
    BY <2>1, <2>3, <2>5, <2>6, <2>7
<1> HIDE DEF new
<1>4. ASSUME NEW u \in kids
      PROVE  u # <<>> /\ u \notin Tasks /\ Front(u) = t
  <2>1. PICK i \in 1..Len(parts) : u = Append(t, i)
    OBVIOUS
  <2>2. /\ u \in Seq(Nat) /\ Len(t) \in Nat /\ Len(u) = Len(t) + 1 /\ Above(u, Len(t)) = t
    BY <2>1, <1>2, BranchPath
  <2>3. u \notin Tasks
    BY <2>2, <1>2 DEF Kids, Above
  <2>4. Len(u) - 1 = Len(t) /\ u # <<>>
    BY <2>2
  <2>5. QED
    BY <2>2, <2>3, <2>4 DEF Front, Above
<1> HIDE DEF kids, parts
<1>5. /\ Tasks' = Tasks \union kids
      /\ \A u \in Tasks : task'[u] = task[u]
      /\ \A u \in kids : task'[u] = new(parts[u[Len(u)]])
  <2>1. \A u \in Tasks : u \notin kids
    BY <1>4
  <2>2. QED
    BY <2>1, <1>1 DEF Tasks
<1>6. ASSUME NEW u \in Tasks
      PROVE  DepthOK(u)'
  <2>1. DepthAbove(u)' = DepthAbove(u)
    <3>1. CASE u = <<>>
      BY <3>1 DEF DepthAbove
    <3>2. CASE u # <<>>
      BY <3>2, <1>5, FrontOK DEF DepthAbove
    <3>3. QED
      BY <3>1, <3>2
  <2>2. QED
    BY <2>1, <1>5 DEF DepthInv, DepthOK
<1>7. ASSUME NEW u \in kids
      PROVE  DepthOK(u)'
  <2> DEFINE p == parts[u[Len(u)]]
  <2>1. /\ task'[u].depth = task[t].depth /\ Calls(task'[u].stack) = 0
        /\ StackOK(u, task'[u].stack)
    BY <1>3, <1>4, <1>5
  <2>2. DepthAbove(u)' = task[t].depth
    BY <1>4, <1>5 DEF DepthAbove
  <2>3. task[t].depth \in 0..MaxDepth /\ MaxDepth \in Nat
    BY AboveOK
  <2>4. QED
    BY <2>1, <2>2, <2>3 DEF DepthOK
<1>8. QED
  BY <1>5, <1>6, <1>7 DEF DepthInv

\* A task goes on after its branches with the calls it had, or without any.
LEMMA DepthJoin ==
    ASSUME Inv, DepthInv, NEW t \in Tasks, Join(t)
    PROVE  DepthInv'
<1> DEFINE f == Top(t)
           kids == Kids(t)
           given == [i \in 1..Cardinality(kids) |-> task[Append(t, i)].outcome.what]
           v == Text(given)
           calls == Calls(task[t].stack)
           first == CHOOSE i \in Failed(t) : \A j \in Failed(t) : i <= j
           onward == [task[t] EXCEPT !.stack = <<Give(f, v)>> \o Tail(@), !.trace = Merged(t)]
           failed == [task[t] EXCEPT !.stack = <<>>, !.depth = @ - calls, !.trace = Merged(t),
                                     !.outcome = task[Append(t, first)].outcome]
           interp == IF Failed(t) = {} THEN onward ELSE failed
           T == Tasks \ kids
           s == task[t].stack
<1>1. ~Ended(t) /\ kids # {} /\ AllEnded(t) /\ task' = Without(t, interp)
  BY DEF Join
<1>2. /\ T \in SUBSET Tasks /\ t \in T /\ <<>> \in T
      /\ \A k \in T : \A l \in 1..Len(k) : Above(k, l - 1) \in T \ {t}
      /\ \A k \in kids : k # <<>> /\ k \in Tasks
  BY <1>1, RemainingOK DEF Kids
<1>3. task' = [k \in T |-> IF k = t THEN interp ELSE task[k]]
  BY <1>1 DEF Without
<1>4. Working
  <2>1. PICK k \in kids : k # <<>> /\ k \in Tasks
    BY <1>1, <1>2
  <2>2. QED
    BY <2>1 DEF Inv, Paths, Working
<1>5. /\ InterpOK(declared, task[t]) /\ IsSeq(s) /\ s # <<>>
      /\ DOMAIN task[t] = {"stack", "depth", "trace", "outcome"}
  BY <1>1, <1>4 DEF Inv, InterpOK
<1>6. /\ StackOK(t, s) /\ DepthAbove(t) \in 0..MaxDepth /\ calls \in Nat
      /\ task[t].depth \in 0..MaxDepth /\ task[t].depth = calls + DepthAbove(t)
  BY AboveOK
<1>7. f = s[1] /\ 1 \in 1..Len(s)
  BY <1>5, Popped DEF Top
<1>8. StackOK(t, onward.stack) /\ Calls(onward.stack) = calls /\ onward.depth = task[t].depth
  <2> HIDE DEF v
  <2> DEFINE g == Give(f, v)
  <2>1. g.phase = "branch" <=> s[1].phase = "branch"
    BY <1>5, <1>7, GiveOK DEF InterpOK, Follows
  <2>2. onward.stack = <<g>> \o Tail(s) /\ onward.depth = task[t].depth
    BY <1>5
  <2> HIDE DEF g, onward
  <2>3. QED
    BY <2>1, <2>2, <1>5, <1>6, TopCalls
<1>9. StackOK(t, failed.stack) /\ Calls(failed.stack) = 0 /\ failed.depth = task[t].depth - calls
  <2> HIDE DEF first, calls
  <2>1. failed.stack = <<>> /\ failed.depth = task[t].depth - calls
    BY <1>5
  <2> HIDE DEF failed
  <2>2. QED
    BY <2>1, NoCalls
<1>10. interp = onward \/ interp = failed
  OBVIOUS
<1> HIDE DEF onward, failed, interp, T, calls
<1>11. /\ StackOK(t, interp.stack) /\ interp.depth \in 0..MaxDepth
       /\ interp.depth = Calls(interp.stack) + DepthAbove(t)
  <2>1. CASE interp = onward
    BY <2>1, <1>6, <1>8
  <2>2. CASE interp = failed
    <3>1. interp.depth = DepthAbove(t)
      BY <2>2, <1>6, <1>9
    <3>2. QED
      BY <3>1, <2>2, <1>6, <1>9
  <2>3. QED
    BY <2>1, <2>2, <1>10
<1>12. QED
  BY <1>2, <1>3, <1>11, DepthChange

\* An interpreter of its own.
LEMMA DepthAlone ==
    ASSUME NEW interp, StackOK(<<>>, interp.stack), interp.depth \in 0..MaxDepth,
           interp.depth = Calls(interp.stack)
    PROVE  /\ task = [t \in {<<>>} |-> interp] => DepthInv
           /\ task' = [t \in {<<>>} |-> interp] => DepthInv'
<1>1. interp.depth = interp.depth + 0 /\ interp.depth \in Nat
  BY EvaluatorAssumption
<1>2. ASSUME task = [t \in {<<>>} |-> interp]
      PROVE  DepthInv
  <2>1. Tasks = {<<>>} /\ task[<<>>] = interp
    BY <1>2 DEF Tasks
  <2>2. QED
    BY <2>1, <1>1 DEF DepthInv, DepthOK, DepthAbove
<1>3. ASSUME task' = [t \in {<<>>} |-> interp]
      PROVE  DepthInv'
  <2>1. Tasks' = {<<>>} /\ task'[<<>>] = interp
    BY <1>3 DEF Tasks
  <2>2. QED
    BY <2>1, <1>1 DEF DepthInv, DepthOK, DepthAbove
<1>4. QED
  BY <1>2, <1>3

\* The entry is the first call; a name that is no definition is none.
LEMMA DepthEntry ==
    \A i \in {EntryInterp} :
        StackOK(<<>>, i.stack) /\ i.depth \in 0..MaxDepth /\ i.depth = Calls(i.stack)
<1>0. 0 \in 0..MaxDepth /\ 1 \in 0..MaxDepth
  BY EvaluatorAssumption
<1>1. CASE entry.name \in DOMAIN Symbols
  <2> DEFINE f == NewFrame(Symbols[entry.name], entry.args)
             s == <<f>>
             i == Interp(s, 1)
  <2>1. EntryInterp = i
    BY <1>1 DEF EntryInterp
  <2>2. f.phase = "pre"
    BY <1>1, NewFrameOK DEF Local
  <2> HIDE DEF f
  <2>3. IsSeq(s) /\ s # <<>> /\ 1..Len(s) = {1} /\ s[1] = f /\ Len(s) = 1
    <3>1. Len(s) = 1
      OBVIOUS
    <3>2. QED
      BY <3>1, OneFrame
  <2> HIDE DEF s
  <2>4. StackOK(<<>>, s)
    BY <2>2, <2>3 DEF StackOK
  <2>5. Calls(s) = 1
    BY <2>3, <2>4, CallsOf
  <2>6. i.stack = s /\ i.depth = 1
    BY DEF Interp
  <2> HIDE DEF i
  <2>7. QED
    BY <1>0, <2>1, <2>4, <2>5, <2>6
<1>2. CASE entry.name \notin DOMAIN Symbols
  <2> DEFINE i == [Interp(<<>>, 0) EXCEPT !.outcome = Err("General")]
  <2>1. EntryInterp = i
    BY <1>2 DEF EntryInterp
  <2>2. i.stack = <<>> /\ i.depth = 0
    BY DEF Interp
  <2> HIDE DEF i
  <2>3. QED
    BY <1>0, <2>1, <2>2, NoCalls
<1>3. QED
  BY <1>1, <1>2

-----------------------------------------------------------------------------
(***************************************************************************)
(* The invariant holds.                                                    *)
(***************************************************************************)
LEMMA DepthInit ==
    ASSUME Init
    PROVE  DepthInv
<1> DEFINE i == Interp(<<>>, 0)
<1>1. task = [t \in {<<>>} |-> i] /\ i.stack = <<>> /\ i.depth = 0
  BY DEF Init, Interp
<1> HIDE DEF i
<1>2. 0 \in 0..MaxDepth
  BY EvaluatorAssumption
<1>3. QED
  BY <1>1, <1>2, NoCalls, DepthAlone

LEMMA DepthStutter ==
    ASSUME DepthInv, UNCHANGED task
    PROVE  DepthInv'
<1>1. Tasks' = Tasks /\ \A t : DepthAbove(t)' = DepthAbove(t)
  BY DEF Tasks, DepthAbove
<1>2. QED
  BY <1>1 DEF DepthInv, DepthOK

LEMMA DepthStart ==
    ASSUME DepthInv, Load \/ RunAgain
    PROVE  DepthInv'
<1> DEFINE i == EntryInterp
<1>1. StackOK(<<>>, i.stack) /\ i.depth \in 0..MaxDepth /\ i.depth = Calls(i.stack)
  BY DepthEntry
<1>2. task' = [t \in {<<>>} |-> i] \/ UNCHANGED task
  BY DEF Load, RunAgain
<1> HIDE DEF i
<1>3. CASE task' = [t \in {<<>>} |-> i]
  BY <1>1, <1>3, DepthAlone
<1>4. CASE UNCHANGED task
  BY <1>4, DepthStutter
<1>5. QED
  BY <1>2, <1>3, <1>4

LEMMA DepthStep ==
    ASSUME Inv, DepthInv, NEW t \in Tasks, Step(t)
    PROVE  DepthInv'
<1>1. CASE \/ BeginClause(t) \/ NoGuard(t) \/ ClauseDecided(t) \/ ClauseFails(t)
           \/ ClausesPassed(t) \/ Dispatch(t) \/ DispatchFails(t) \/ BodyEnds(t)
  BY <1>1, DepthClauses
<1>2. CASE \/ EvalLeaf(t) \/ Begin(t) \/ CallRefused(t) \/ EvalPart(t)
           \/ FinishLast(t) \/ FinishConcat(t) \/ FieldMissing(t)
           \/ CallPrimitive(t) \/ PrimitiveRaises(t) \/ RecursionLimit(t)
  BY <1>2, DepthExpressions
<1>3. CASE CallDefinition(t)
  BY <1>3, DepthCall
<1>4. CASE Return(t)
  BY <1>4, DepthReturn
<1>5. CASE ReturnToHost(t) \/ BranchEnds(t)
  BY <1>5, DepthLast
<1>6. CASE Spawn(t)
  BY <1>6, DepthSpawn
<1>7. CASE Join(t)
  BY <1>7, DepthJoin
<1>8. QED
  BY <1>1, <1>2, <1>3, <1>4, <1>5, <1>6, <1>7 DEF Step

LEMMA DepthInvariance == Spec => []DepthInv
<1>1. Init => DepthInv
  BY DepthInit
<1>2. Inv /\ DepthInv /\ [Next]_vars => DepthInv'
  <2> SUFFICES ASSUME Inv, DepthInv, [Next]_vars
               PROVE  DepthInv'
    OBVIOUS
  <2>1. CASE Load \/ RunAgain
    BY <2>1, DepthStart
  <2>2. CASE \E t \in Tasks : Step(t)
    BY <2>2, DepthStep
  <2>3. CASE Rest \/ UNCHANGED vars
    BY <2>3, DepthStutter DEF Rest, vars
  <2>4. QED
    BY <2>1, <2>2, <2>3 DEF Next, Work
<1>3. QED
  BY <1>1, <1>2, Invariance, PTL DEF Spec

\* The depth a task counts is the depth of the tree of calls above it, for any program
\* and any nesting of branches: a branch neither gains room under the limit nor loses it.
THEOREM DepthCounted == Spec => []DepthCountsCalls
<1>1. DepthInv => DepthCountsCalls
  BY DEF DepthInv, DepthOK, DepthAbove, DepthCountsCalls
<1>2. QED
  BY <1>1, DepthInvariance, PTL

\* Along no path from the entry to a task, through whatever branches, are there ever
\* more calls than max_depth; nor does an error or an early end leave a count behind
\* that goes below zero.
THEOREM LimitHolds == Spec => []WithinLimit
<1>1. DepthInv => WithinLimit
  BY DEF DepthInv, DepthOK, WithinLimit
<1>2. QED
  BY <1>1, DepthInvariance, PTL

=============================================================================
