---------------------------- MODULE OutputProofs ----------------------------
(***************************************************************************)
(* What the runs print, for any program and any order in which the         *)
(* branches run: every line of a trace is a line of the output, and the    *)
(* output has the lines in the order of the trace unless the program hides *)
(* an effect from the check for overlap.  Last, the types of all of it.    *)
(***************************************************************************)
EXTENDS AgreementProofs

-----------------------------------------------------------------------------
(***************************************************************************)
(* Every line of a trace has a place of its own on standard output.        *)
(***************************************************************************)

\* The lines s are those at the places P of out, in some order.
Placed(out, s, P) ==
    /\ P \subseteq 1..Len(out)
    /\ \E q : /\ \A j \in 1..Len(s) : q[j] \in P /\ out[q[j]] = s[j]
              /\ \A j, k \in 1..Len(s) : q[j] = q[k] => j = k
              /\ \A i \in P : \E j \in 1..Len(s) : q[j] = i

\* No line has no place.
LEMMA PlacedNone ==
    ASSUME NEW out
    PROVE  Placed(out, <<>>, {})
<1>1. 1..Len(<<>>) = {}
  BY EmptyShape
<1>2. QED
  BY <1>1 DEF Placed

\* A line is printed.
LEMMA PlacedBefore ==
    ASSUME NEW out, IsSeq(out), NEW s, NEW P, Placed(out, s, P), NEW v
    PROVE  Placed(Append(out, v), s, P) /\ Len(out) + 1 \notin P
<1>1. PICK U : out \in Seq(U) /\ v \in U
  <2>1. out \in Seq({out[i] : i \in 1..Len(out)} \union {v})
    BY DEF IsSeq
  <2>2. QED
    BY <2>1
<1>2. Len(out) \in Nat /\ Len(Append(out, v)) = Len(out) + 1 /\ \A i \in 1..Len(out) : Append(out, v)[i] = out[i]
  BY <1>1
<1>3. P \subseteq 1..Len(out)
  BY DEF Placed
<1>4. Len(out) + 1 \notin P /\ P \subseteq 1..(Len(out) + 1) /\ \A i \in P : Append(out, v)[i] = out[i]
  BY <1>2, <1>3
<1>5. PICK q : /\ \A j \in 1..Len(s) : q[j] \in P /\ out[q[j]] = s[j]
               /\ \A j, k \in 1..Len(s) : q[j] = q[k] => j = k
               /\ \A i \in P : \E j \in 1..Len(s) : q[j] = i
  BY DEF Placed
<1> DEFINE o == Append(out, v)
<1>6. \A j \in 1..Len(s) : o[q[j]] = s[j]
  BY <1>4, <1>5
<1>7. P \subseteq 1..Len(o)
  BY <1>2, <1>4
<1> HIDE DEF o
<1>8. Placed(o, s, P)
  BY <1>5, <1>6, <1>7 DEF Placed
<1>9. QED
  BY <1>4, <1>8 DEF o

\* Append, element by element.
LEMMA AppendedSeq ==
    ASSUME NEW s, IsSeq(s), NEW v
    PROVE  /\ IsSeq(Append(s, v)) /\ Len(s) \in Nat /\ Len(Append(s, v)) = Len(s) + 1
           /\ \A i \in 1..Len(s) : Append(s, v)[i] = s[i]
           /\ Append(s, v)[Len(s) + 1] = v
<1>1. PICK U : s \in Seq(U) /\ v \in U
  <2>1. s \in Seq({s[i] : i \in 1..Len(s)} \union {v})
    BY DEF IsSeq
  <2>2. QED
    BY <2>1
<1>2. IsSeq(Append(s, v)) /\ Len(s) \in Nat
  BY Appended
<1>3. /\ Len(Append(s, v)) = Len(s) + 1
      /\ \A i \in 1..Len(s) : Append(s, v)[i] = s[i]
      /\ Append(s, v)[Len(s) + 1] = v
  BY <1>1
<1>4. QED
  BY <1>2, <1>3

\* Two groups of lines with places of their own.
LEMMA PlacedBoth ==
    ASSUME NEW out, NEW s, IsSeq(s), NEW r, IsSeq(r), NEW P, Placed(out, s, P), NEW Q, Placed(out, r, Q),
           P \intersect Q = {}
    PROVE  Placed(out, s \o r, P \union Q)
<1> DEFINE n == Len(s)
           m == Len(r)
<1>1. /\ n \in Nat /\ m \in Nat /\ Len(s \o r) = n + m
      /\ \A i \in 1..n : (s \o r)[i] = s[i]
      /\ \A i \in 1..m : (s \o r)[n + i] = r[i]
  BY Joined
<1>2. PICK p : /\ \A j \in 1..n : p[j] \in P /\ out[p[j]] = s[j]
               /\ \A j, k \in 1..n : p[j] = p[k] => j = k
               /\ \A i \in P : \E j \in 1..n : p[j] = i
  BY DEF Placed
<1>3. PICK q : /\ \A j \in 1..m : q[j] \in Q /\ out[q[j]] = r[j]
               /\ \A j, k \in 1..m : q[j] = q[k] => j = k
               /\ \A i \in Q : \E j \in 1..m : q[j] = i
  BY DEF Placed
<1> DEFINE h == [i \in 1..(n + m) |-> IF i <= n THEN p[i] ELSE q[i - n]]
<1>4. \A i \in 1..n : i \in 1..(n + m) /\ h[i] = p[i]
  BY <1>1
<1>5. \A i \in 1..m : n + i \in 1..(n + m) /\ h[n + i] = q[i]
  BY <1>1
<1>6. \A j \in 1..(n + m) : j \in 1..n \/ \E i \in 1..m : j = n + i
  <2> SUFFICES ASSUME NEW j \in 1..(n + m), j \notin 1..n
               PROVE  \E i \in 1..m : j = n + i
    OBVIOUS
  <2> DEFINE i == j - n
  <2>1. i \in 1..m /\ j = n + i
    BY <1>1
  <2>2. QED
    BY <2>1
<1> HIDE DEF h, n, m
<1>7. \A j \in 1..(n + m) : h[j] \in P \union Q /\ out[h[j]] = (s \o r)[j]
  <2> SUFFICES ASSUME NEW j \in 1..(n + m)
               PROVE  h[j] \in P \union Q /\ out[h[j]] = (s \o r)[j]
    OBVIOUS
  <2>1. CASE j \in 1..n
    <3>1. h[j] = p[j] /\ p[j] \in P /\ out[p[j]] = s[j] /\ (s \o r)[j] = s[j]
      BY <1>1, <1>2, <1>4, <2>1
    <3>2. QED
      BY <3>1
  <2>2. CASE j \notin 1..n
    <3>1. PICK i \in 1..m : j = n + i
      BY <1>6, <2>2
    <3>2. h[j] = q[i] /\ q[i] \in Q /\ out[q[i]] = r[i]
      BY <1>3, <1>5, <3>1
    <3>3. (s \o r)[j] = r[i]
      BY <1>1, <3>1
    <3>4. QED
      BY <3>2, <3>3
  <2>3. QED
    BY <2>1, <2>2
<1>8. \A j, k \in 1..(n + m) : h[j] = h[k] => j = k
  <2> SUFFICES ASSUME NEW j \in 1..(n + m), NEW k \in 1..(n + m), h[j] = h[k]
               PROVE  j = k
    OBVIOUS
  <2>1. \A i \in 1..(n + m) : (i \in 1..n /\ h[i] \in P) \/ (h[i] \in Q /\ \E l \in 1..m : i = n + l)
    BY <1>2, <1>3, <1>4, <1>5, <1>6
  <2>2. CASE j \in 1..n /\ k \in 1..n
    BY <1>2, <1>4, <2>2
  <2>3. CASE ~(j \in 1..n /\ k \in 1..n)
    <3>1. \A i \in 1..n : h[i] \in P
      BY <1>2, <1>4
    <3>2. h[j] \in Q /\ h[k] \in Q
      BY <2>1, <2>3
    <3>3. (\E l \in 1..m : j = n + l) /\ (\E l \in 1..m : k = n + l)
      BY <2>1, <3>1, <3>2
    <3>4. PICK a \in 1..m, b \in 1..m : j = n + a /\ k = n + b
      BY <3>3
    <3>5. q[a] = q[b]
      BY <1>5, <3>4
    <3>6. QED
      BY <1>3, <3>4, <3>5
  <2>4. QED
    BY <2>2, <2>3
<1>9. \A i \in P \union Q : \E j \in 1..(n + m) : h[j] = i
  BY <1>2, <1>3, <1>4, <1>5
<1>10. P \union Q \subseteq 1..Len(out) /\ Len(s \o r) = n + m
  BY <1>1 DEF Placed
<1> DEFINE z == s \o r
           R == P \union Q
           N == n + m
<1>11. R \subseteq 1..Len(out) /\ Len(z) = N
  BY <1>10
<1>12. \A j \in 1..N : h[j] \in R /\ out[h[j]] = z[j]
  BY <1>7
<1>13. \A i \in R : \E j \in 1..N : h[j] = i
  BY <1>9
<1> HIDE DEF z, R, N
<1>14. \A j, k \in 1..N : h[j] = h[k] => j = k
  BY <1>8 DEF N
<1>15. Placed(out, z, R)
  BY <1>11, <1>12, <1>13, <1>14 DEF Placed
<1>16. QED
  BY <1>15 DEF z, R

\* The line just printed has the last place.
LEMMA PlacedNow ==
    ASSUME NEW out, IsSeq(out), NEW s, IsSeq(s), NEW P, Placed(out, s, P), NEW v
    PROVE  Placed(Append(out, v), Append(s, v), P \union {Len(out) + 1})
<1> DEFINE o == Append(out, v)
           n == Len(out) + 1
<1>1. Placed(o, s, P) /\ n \notin P
  BY PlacedBefore
<1>2. o[n] = v /\ Len(o) = n /\ n \in Nat \ {0}
  BY AppendedSeq
<1>3. IsSeq(<<v>>) /\ Len(<<v>>) = 1 /\ <<v>>[1] = v
  BY OneFrame, Pushes, EmptyShape
<1> HIDE DEF o, n
<1>4. Placed(o, <<v>>, {n})
  <2> DEFINE q == [j \in 1..1 |-> n]
             s1 == <<v>>
  <2>1. \A j \in 1..1 : q[j] = n /\ j = 1
    OBVIOUS
  <2>2. Len(s1) = 1 /\ s1[1] = v
    BY <1>3
  <2> HIDE DEF q, s1
  <2>3. Placed(o, s1, {n})
    BY <1>2, <2>1, <2>2 DEF Placed
  <2>4. QED
    BY <2>3 DEF s1
<1>5. Placed(o, s \o <<v>>, P \union {n})
  BY <1>1, <1>3, <1>4, PlacedBoth
<1>6. s \o <<v>> = Append(s, v)
  BY DEF IsSeq
<1>7. QED
  BY <1>5, <1>6 DEF o, n

\* As many lines as the places say.
LEMMA PlacedCount ==
    ASSUME NEW out, IsSeq(out), NEW s, IsSeq(s), NEW P, Placed(out, s, P), NEW x
    PROVE  /\ Occurrences(out, x) >= Occurrences(s, x)
           /\ P = 1..Len(out) => Occurrences(out, x) = Occurrences(s, x)
<1> DEFINE A == {i \in 1..Len(s) : s[i] = x}
           B == {i \in 1..Len(out) : out[i] = x}
           C == {i \in P : out[i] = x}
<1>1. PICK q : /\ \A j \in 1..Len(s) : q[j] \in P /\ out[q[j]] = s[j]
               /\ \A j, k \in 1..Len(s) : q[j] = q[k] => j = k
               /\ \A i \in P : \E j \in 1..Len(s) : q[j] = i
  BY DEF Placed
<1> DEFINE f == [j \in A |-> q[j]]
<1>2. f \in [A -> C]
  BY <1>1
<1>3. IsInjective(f)
  BY <1>1 DEF IsInjective
<1>4. \A i \in C : \E j \in A : f[j] = i
  <2> SUFFICES ASSUME NEW i \in C
               PROVE  \E j \in A : f[j] = i
    OBVIOUS
  <2>1. PICK j \in 1..Len(s) : q[j] = i
    BY <1>1
  <2>2. j \in A
    BY <1>1, <2>1
  <2>3. QED
    BY <2>1, <2>2
<1>5. C \subseteq B /\ (P = 1..Len(out) => C = B)
  BY DEF Placed
<1>6. IsFiniteSet(A) /\ IsFiniteSet(B)
  <2>1. Len(s) \in Nat /\ Len(out) \in Nat
    BY SeqIsSeq DEF IsSeq
  <2>2. IsFiniteSet(1..Len(s)) /\ IsFiniteSet(1..Len(out))
    BY <2>1, FS_Interval
  <2>3. A \subseteq 1..Len(s) /\ B \subseteq 1..Len(out)
    OBVIOUS
  <2> HIDE DEF A, B
  <2>4. QED
    BY <2>2, <2>3, FS_Subset
<1>7. Occurrences(out, x) = Cardinality(B) /\ Occurrences(s, x) = Cardinality(A)
  BY DEF Occurrences
<1> HIDE DEF A, B, C, f
<1>8. f \in Bijection(A, C)
  <2>1. f \in Injection(A, C)
    BY <1>2, <1>3 DEF Injection
  <2>2. f \in Surjection(A, C)
    BY <1>2, <1>4 DEF Surjection
  <2>3. QED
    BY <2>1, <2>2 DEF Bijection
<1>9. IsFiniteSet(C) /\ Cardinality(C) <= Cardinality(B)
  BY <1>5, <1>6, FS_Subset
<1>10. Cardinality(A) = Cardinality(C)
  <2>1. ExistsBijection(A, C)
    BY <1>8 DEF ExistsBijection
  <2>2. QED
    BY <1>6, <2>1, FS_Bijection
<1>11. Cardinality(A) \in Nat /\ Cardinality(B) \in Nat
  BY <1>6, FS_CardinalityType
<1>12. Cardinality(B) >= Cardinality(A)
  BY <1>9, <1>10, <1>11
<1>13. QED
  BY <1>5, <1>7, <1>10, <1>12

Lines(t) == task[t].trace[Printing]

Unfailed == \A t \in Tasks : task[t].outcome.kind # "error"

\* The places of the lines of each task; without errors, they are all places.
AllPlaced(places) ==
    /\ \A t \in Tasks : Placed(printed, Lines(t), places[t])
    /\ \A t, u \in Tasks : t # u => places[t] \intersect places[u] = {}
    /\ Unfailed => \A i \in 1..Len(printed) : \E t \in Tasks : i \in places[t]

PrintInv ==
    /\ IsSeq(printed) /\ (mode = "new" => printed = <<>>)
    /\ Working => \E places : AllPlaced(places)

\* What a step of a task does to standard output.
Prints(t) ==
    \/ printed' = printed /\ task'[t].trace[Printing] = Lines(t)
    \/ \E v : printed' = Append(printed, v) /\ task'[t].trace[Printing] = Append(Lines(t), v)

\* A step that prints nothing changes no line of any trace.
LEMMA QuietUpdate ==
    ASSUME NEW t \in Tasks, NEW interp, interp.trace = task[t].trace, Update(t, interp), printed' = printed
    PROVE  Prints(t)
<1>1. task'[t] = interp
  BY DEF Update, Tasks
<1>2. QED
  BY <1>1 DEF Prints, Lines

\* A step of a task prints nothing, or one line that it adds to its own trace.
LEMMA StepPrints ==
    ASSUME Inv, NEW t \in Tasks, Step(t), ~Spawn(t), ~Join(t)
    PROVE  Prints(t)
<1>1. DOMAIN task[t] = {"stack", "depth", "trace", "outcome"}
  BY DEF Inv, InterpOK
<1>2. ASSUME NEW g, Become(t, g)
      PROVE  Prints(t)
  <2> DEFINE interp == [task[t] EXCEPT !.stack = <<g>> \o Tail(@)]
  <2>1. Update(t, interp) /\ printed' = printed /\ interp.trace = task[t].trace
    BY <1>1, <1>2 DEF Become
  <2> HIDE DEF interp
  <2>2. QED
    BY <2>1, QuietUpdate
<1>3. ASSUME NEW e, Raise(t, e)
      PROVE  Prints(t)
  <2> DEFINE interp == [task[t] EXCEPT !.stack = <<>>, !.outcome = Err(e), !.depth = @ - Calls(task[t].stack)]
  <2>1. Update(t, interp) /\ printed' = printed /\ interp.trace = task[t].trace
    BY <1>1, <1>3 DEF Raise
  <2> HIDE DEF interp
  <2>2. QED
    BY <2>1, QuietUpdate
<1>4. CASE \/ BeginClause(t) \/ NoGuard(t) \/ ClauseDecided(t) \/ ClausesPassed(t)
           \/ Dispatch(t) \/ BodyEnds(t) \/ Begin(t) \/ EvalPart(t) \/ FinishLast(t) \/ FinishConcat(t)
  BY <1>2, <1>4 DEF BeginClause, NoGuard, ClauseDecided, ClausesPassed, Dispatch, BodyEnds, Begin,
                    EvalPart, FinishLast, FinishConcat
<1>5. CASE \/ ClauseFails(t) \/ DispatchFails(t) \/ CallRefused(t) \/ FieldMissing(t)
           \/ PrimitiveRaises(t) \/ RecursionLimit(t)
  BY <1>3, <1>5 DEF ClauseFails, DispatchFails, CallRefused, FieldMissing, PrimitiveRaises, RecursionLimit
<1>6. CASE EvalLeaf(t)
  BY <1>2, <1>3, <1>6 DEF EvalLeaf
<1>7. CASE CallDefinition(t)
  <2> DEFINE interp == [task[t] EXCEPT !.stack = <<NewFrame(Lookup(Inner(t).name), Done(t))>> \o @,
                                       !.depth = @ + 1]
  <2>1. Update(t, interp) /\ printed' = printed /\ interp.trace = task[t].trace
    BY <1>1, <1>7 DEF CallDefinition
  <2> HIDE DEF interp
  <2>2. QED
    BY <2>1, QuietUpdate
<1>8. CASE Return(t)
  <2> DEFINE rest == Tail(task[t].stack)
             s == <<Finish(Head(rest), Top(t).result)>> \o Tail(rest)
             interp == [task[t] EXCEPT !.stack = s, !.depth = @ - 1]
  <2>1. Update(t, interp) /\ printed' = printed
    BY <1>8 DEF Return
  <2>2. interp.trace = task[t].trace
    BY <1>1
  <2> HIDE DEF interp
  <2>3. QED
    BY <2>1, <2>2, QuietUpdate
<1>9. CASE ReturnToHost(t)
  <2> DEFINE o == IF Top(t).result = Bottom THEN Err("Refusal") ELSE Ok(Top(t).result)
             interp == [task[t] EXCEPT !.stack = <<>>, !.depth = @ - 1, !.outcome = o]
  <2>1. Update(t, interp) /\ printed' = printed
    BY <1>9 DEF ReturnToHost
  <2>2. interp.trace = task[t].trace
    BY <1>1
  <2> HIDE DEF interp
  <2>3. QED
    BY <2>1, <2>2, QuietUpdate
<1>10. CASE BranchEnds(t)
  <2> DEFINE interp == [task[t] EXCEPT !.stack = <<>>, !.outcome = Ok(Top(t).given)]
  <2>1. Update(t, interp) /\ printed' = printed
    BY <1>10 DEF BranchEnds
  <2>2. interp.trace = task[t].trace
    BY <1>1
  <2> HIDE DEF interp
  <2>3. QED
    BY <2>1, <2>2, QuietUpdate
<1>11. CASE CallPrimitive(t)
  <2> DEFINE v == Result(Inner(t).name, Done(t))
             e == EffectsOf(Head(Top(t).work).node)
             tr == [x \in Effects |-> IF x \in e THEN Append(task[t].trace[x], v) ELSE task[t].trace[x]]
             s == <<Finish(Top(t), v)>> \o Tail(task[t].stack)
             interp == [task[t] EXCEPT !.stack = s, !.trace = tr]
  <2>1. Update(t, interp) /\ printed' = IF Printing \in e THEN Append(printed, v) ELSE printed
    BY <1>11 DEF CallPrimitive
  <2>2. interp.trace = tr
    BY <1>1
  <2>3. task'[t] = interp
    BY <2>1 DEF Update, Tasks
  <2> HIDE DEF interp, v, e
  <2>4. tr[Printing] = IF Printing \in e THEN Append(Lines(t), v) ELSE Lines(t)
    BY EvaluatorAssumption DEF Lines
  <2>5. QED
    BY <2>1, <2>2, <2>3, <2>4 DEF Prints, Lines
<1>12. QED
  BY <1>4, <1>5, <1>6, <1>7, <1>8, <1>9, <1>10, <1>11 DEF Step

\* A step of the tree walker in a task.
LEMMA PrintWalk ==
    ASSUME Inv, AgreeInv, PrintInv, NEW t \in Tasks, Step(t), ~Spawn(t), ~Join(t)
    PROVE  PrintInv'
<1>1. /\ Working /\ ~Ended(t) /\ RunShape(task[t]) /\ task' = [task EXCEPT ![t] = task'[t]] /\ mode' = mode
  BY StepWalks
<1>2. Tasks' = Tasks /\ \A u \in Tasks : u # t => task'[u] = task[u]
  BY <1>1 DEF Tasks
<1>3. Working' /\ mode # "new" /\ IsSeq(printed)
  BY <1>1 DEF Working, PrintInv
<1>4. PICK places : AllPlaced(places)
  BY <1>1 DEF PrintInv
<1>5. Unfailed' => Unfailed
  BY <1>1, <1>2, OutcomeKinds DEF Unfailed, Ended
<1>6. \A u \in Tasks : u # t => Lines(u)' = Lines(u)
  BY <1>2 DEF Lines
<1>7. CASE printed' = printed /\ Lines(t)' = Lines(t)
  <2>1. \A u \in Tasks : Lines(u)' = Lines(u)
    BY <1>6, <1>7
  <2>2. AllPlaced(places)'
    BY <1>2, <1>4, <1>5, <1>7, <2>1 DEF AllPlaced
  <2>3. QED
    BY <1>1, <1>3, <1>7, <2>2 DEF PrintInv
<1>8. ASSUME NEW v, printed' = Append(printed, v), Lines(t)' = Append(Lines(t), v)
      PROVE  PrintInv'
  <2> DEFINE n == Len(printed) + 1
  <2>0. PICK more : more = [u \in Tasks |-> IF u = t THEN places[t] \union {n} ELSE places[u]]
    OBVIOUS
  <2>1. IsSeq(Lines(t))
    BY <1>1, EvaluatorAssumption DEF RunShape, TraceShape, Lines
  <2>2. \A u \in Tasks : Placed(printed, Lines(u), places[u])
    BY <1>4 DEF AllPlaced
  <2>3. \A u \in Tasks : Placed(Append(printed, v), Lines(u), places[u]) /\ n \notin places[u]
    BY <1>3, <2>2, PlacedBefore
  <2>4. Placed(Append(printed, v), Append(Lines(t), v), places[t] \union {n})
    BY <1>3, <2>1, <2>2, PlacedNow
  <2>5. more[t] = places[t] \union {n} /\ \A u \in Tasks : u # t => more[u] = places[u]
    BY <2>0
  <2>6. \A u \in Tasks : Placed(printed', Lines(u)', more[u])
    BY <1>6, <1>8, <2>3, <2>4, <2>5
  <2>7. \A u, w \in Tasks : u # w => more[u] \intersect more[w] = {}
    <3>1. \A u, w \in Tasks : u # w => places[u] \intersect places[w] = {}
      BY <1>4 DEF AllPlaced
    <3> HIDE DEF n
    <3>2. QED
      BY <2>3, <2>5, <3>1
  <2>8. ASSUME Unfailed', NEW i \in 1..Len(printed')
        PROVE  \E u \in Tasks : i \in more[u]
    <3>1. Len(printed') = n /\ n - 1 = Len(printed) /\ n \in Nat \ {0}
      BY <1>3, <1>8, AppendedSeq
    <3>2. i = n \/ i \in 1..Len(printed)
      BY <2>8, <3>1
    <3>3. \A j \in 1..Len(printed) : \E u \in Tasks : j \in places[u]
      BY <1>4, <1>5, <2>8 DEF AllPlaced
    <3> HIDE DEF n
    <3>4. QED
      BY <2>5, <3>2, <3>3
  <2>9. AllPlaced(more)'
    <3>1. \A u \in Tasks' : Placed(printed, Lines(u), more[u])'
      BY <1>2, <2>6
    <3>2. \A u, w \in Tasks' : u # w => more[u] \intersect more[w] = {}
      BY <1>2, <2>7
    <3>3. Unfailed' => \A i \in 1..Len(printed') : \E u \in Tasks' : i \in more[u]
      BY <1>2, <2>8
    <3>4. QED
      BY <3>1, <3>2, <3>3 DEF AllPlaced
  <2>10. IsSeq(printed)'
    BY <1>3, <1>8, AppendedSeq
  <2>11. QED
    BY <1>1, <1>3, <2>9, <2>10 DEF PrintInv
<1>9. QED
  BY <1>7, <1>8, StepPrints DEF Prints, Lines

\* A spawn: the branches have no lines yet.
LEMMA PrintSpawn ==
    ASSUME Inv, AgreeInv, PrintInv, NEW t \in Tasks, Spawn(t)
    PROVE  PrintInv'
<1> DEFINE kids == {Append(t, i) : i \in 1..Len(Parts(t))}
           new(u) == Interp(<<BranchFrame(Top(t), Parts(t)[u[Len(u)]])>>, task[t].depth)
<1>1. /\ task' = [u \in Tasks \union kids |-> IF u \in kids THEN new(u) ELSE task[u]]
      /\ UNCHANGED <<mode, printed>> /\ mode = "parallel" /\ Active(t)
  BY DEF Spawn, RunsInParallel, BranchDepth, Parts, Evaluating
<1>2. \A u : new(u).trace = Silence /\ new(u).outcome = NoOutcome
  BY DEF Interp
<1> HIDE DEF new
<1>3. \A u \in kids : u \notin Tasks
  <2>1. t \in Seq(Nat) /\ Kids(t) = {}
    BY <1>1, ActiveOK DEF Inv, Paths
  <2>2. SUFFICES ASSUME NEW i \in 1..Len(Parts(t)), Append(t, i) \in Tasks
                 PROVE  FALSE
    OBVIOUS
  <2>3. i \in Nat
    OBVIOUS
  <2>4. Len(Append(t, i)) = Len(t) + 1 /\ Above(Append(t, i), Len(t)) = t
    BY <2>1, <2>3, BranchPath
  <2>5. QED
    BY <2>1, <2>2, <2>4 DEF Kids, Above
<1> HIDE DEF kids
<1>4. Tasks' = Tasks \union kids /\ \A u \in Tasks : task'[u] = task[u]
  BY <1>1, <1>3 DEF Tasks
<1>5. \A u \in kids : task'[u].trace = Silence /\ task'[u].outcome = NoOutcome
  BY <1>1, <1>2
<1>6. \A u \in Tasks : Lines(u)' = Lines(u)
  BY <1>4 DEF Lines
<1>7. \A u \in kids : Lines(u)' = <<>>
  BY <1>5, EvaluatorAssumption DEF Lines, Silence
<1>8. Working /\ Working' /\ mode # "new" /\ IsSeq(printed)
  BY <1>1 DEF Working, PrintInv
<1>9. PICK places : AllPlaced(places)
  BY <1>8 DEF PrintInv
<1>10. PICK more : (\A u \in Tasks : more[u] = places[u]) /\ \A u \in kids : more[u] = {}
  <2> DEFINE m == [u \in Tasks \union kids |-> IF u \in Tasks THEN places[u] ELSE {}]
  <2>1. (\A u \in Tasks : m[u] = places[u]) /\ \A u \in kids : m[u] = {}
    BY <1>3
  <2>2. QED
    BY <2>1
<1>11. \A u \in Tasks \union kids : Placed(printed, Lines(u)', more[u])
  <2>1. ASSUME NEW u \in Tasks
        PROVE  Placed(printed, Lines(u)', more[u])
    BY <1>6, <1>9, <1>10 DEF AllPlaced
  <2>2. ASSUME NEW u \in kids
        PROVE  Placed(printed, Lines(u)', more[u])
    <3>1. Placed(printed, <<>>, {})
      BY PlacedNone
    <3>2. QED
      BY <1>7, <1>10, <3>1
  <2>3. QED
    BY <2>1, <2>2
<1>12. \A u, w \in Tasks \union kids : u # w => more[u] \intersect more[w] = {}
  BY <1>9, <1>10 DEF AllPlaced
<1>13. Unfailed' => Unfailed
  BY <1>4 DEF Unfailed
<1>14. AllPlaced(more)'
  <2>1. \A u \in Tasks' : Placed(printed, Lines(u), more[u])'
    BY <1>1, <1>4, <1>11
  <2>2. \A u, w \in Tasks' : u # w => more[u] \intersect more[w] = {}
    BY <1>4, <1>12
  <2>3. Unfailed' => \A i \in 1..Len(printed') : \E u \in Tasks' : i \in more[u]
    BY <1>1, <1>4, <1>9, <1>10, <1>13 DEF AllPlaced
  <2>4. QED
    BY <2>1, <2>2, <2>3 DEF AllPlaced
<1>15. QED
  BY <1>1, <1>8, <1>14 DEF PrintInv

\* The places of a task and of those of its first k branches that are looked at.
PlacesUpto(t, places, k) ==
    places[t] \union UNION {places[Append(t, i)] : i \in {j \in 1..k : j \in LookedAt(t)}}

\* The lines a join merges have the places of the branches.
LEMMA JoinedPlaces ==
    ASSUME Inv, NEW t \in Tasks, FamilyEnded(t), Family(t), NEW places, AllPlaced(places)
    PROVE  Placed(printed, Merged(t)[Printing], PlacesUpto(t, places, Len(Parts(t))))
<1> DEFINE N == Len(Parts(t))
           Q(k) == PlacesUpto(t, places, k)
<1>1. /\ N \in Nat /\ Cardinality(Kids(t)) = N /\ TraceShape(task[t].trace)
      /\ \A i \in 1..N : TraceShape(task[Append(t, i)].trace)
  BY DEF FamilyEnded, Paused, RunShape
<1>2. PICK ms : /\ Upto(ms, 0) = task[t].trace /\ Upto(ms, N) = Merged(t)
                /\ \A k \in 1..N : Upto(ms, k) = IF k \in LookedAt(t)
                                                 THEN After(Upto(ms, k - 1), task[Append(t, k)].trace)
                                                 ELSE Upto(ms, k - 1)
  BY <1>1, MergeAll
<1>3. \A i \in 1..N : Append(t, i) \in Tasks /\ Append(t, i) # t
  <2>1. \A i \in 1..N : Append(t, i) \in Kids(t)
    BY DEF Family
  <2>2. QED
    BY <2>1, KidAbove DEF Inv
<1>4. \A i, j \in 1..N : i # j => Append(t, i) # Append(t, j)
  <2>1. t \in Seq(Nat)
    BY DEF Inv, Paths
  <2> SUFFICES ASSUME NEW i \in 1..N, NEW j \in 1..N, Append(t, i) = Append(t, j)
               PROVE  i = j
    OBVIOUS
  <2>2. Append(t, i)[Len(t) + 1] = i /\ Append(t, j)[Len(t) + 1] = j
    BY <2>1
  <2>3. QED
    BY <2>2
<1> DEFINE S == {k \in 0..N : /\ TraceShape(Upto(ms, k))
                              /\ Placed(printed, Upto(ms, k)[Printing], Q(k))}
<1>5. 0 \in S
  <2>1. Q(0) = places[t]
    BY DEF PlacesUpto
  <2>2. Placed(printed, task[t].trace[Printing], places[t])
    BY DEF AllPlaced, Lines
  <2>3. QED
    BY <1>1, <1>2, <2>1, <2>2
<1>6. \A k \in 0..(N - 1) : k \in S => k + 1 \in S
  <2> SUFFICES ASSUME NEW k \in 0..(N - 1), TraceShape(Upto(ms, k)),
                      Placed(printed, Upto(ms, k)[Printing], Q(k))
               PROVE  /\ k + 1 \in 0..N /\ TraceShape(Upto(ms, k + 1))
                      /\ Placed(printed, Upto(ms, k + 1)[Printing], Q(k + 1))
    OBVIOUS
  <2> DEFINE i == k + 1
             u == Append(t, i)
  <2>1. i \in 1..N /\ i - 1 = k /\ i \in 0..N /\ i \notin 1..k /\ 1..i = (1..k) \union {i} /\ 1..k \subseteq 1..N
    BY <1>1
  <2> HIDE DEF i, N
  <2>2. CASE i \in LookedAt(t)
    <3>1. Q(i) = Q(k) \union places[u]
      <4> DEFINE L == {j \in 1..k : j \in LookedAt(t)}
                 M == {j \in 1..i : j \in LookedAt(t)}
      <4>1. M = L \union {i}
        BY <2>1, <2>2
      <4> HIDE DEF L, M
      <4>2. UNION {places[Append(t, j)] : j \in M} = (UNION {places[Append(t, j)] : j \in L}) \union places[u]
        BY <4>1 DEF u
      <4>3. Q(i) = places[t] \union UNION {places[Append(t, j)] : j \in M}
        BY DEF PlacesUpto, M
      <4>4. Q(k) = places[t] \union UNION {places[Append(t, j)] : j \in L}
        BY DEF PlacesUpto, L
      <4> DEFINE A == UNION {places[Append(t, j)] : j \in L}
                 B == UNION {places[Append(t, j)] : j \in M}
      <4>5. Q(i) = places[t] \union B /\ Q(k) = places[t] \union A /\ B = A \union places[u]
        BY <4>2, <4>3, <4>4
      <4> HIDE DEF A, B, Q, u
      <4>6. QED
        BY <4>5
    <3>2. Upto(ms, i) = After(Upto(ms, k), task[u].trace)
      BY <1>2, <2>1, <2>2
    <3>3. Q(k) \intersect places[u] = {}
      <4>1. \A x, y \in Tasks : x # y => places[x] \intersect places[y] = {}
        BY DEF AllPlaced
      <4>2. u \in Tasks /\ u # t
        BY <1>3, <2>1
      <4>3. \A j \in 1..k : Append(t, j) \in Tasks /\ Append(t, j) # u
        BY <1>3, <1>4, <2>1
      <4> HIDE DEF u
      <4>4. QED
        BY <4>1, <4>2, <4>3 DEF PlacesUpto
    <3>4. Placed(printed, task[u].trace[Printing], places[u]) /\ TraceShape(task[u].trace)
      BY <1>1, <1>3, <2>1 DEF AllPlaced, Lines
    <3>5. IsSeq(Upto(ms, k)[Printing]) /\ IsSeq(task[u].trace[Printing])
      BY <3>4, EvaluatorAssumption DEF TraceShape
    <3>6. Upto(ms, i)[Printing] = Upto(ms, k)[Printing] \o task[u].trace[Printing]
      BY <3>2, EvaluatorAssumption DEF After
    <3>7. TraceShape(Upto(ms, i))
      BY <3>2, <3>4, AfterShape
    <3> HIDE DEF Q, u
    <3>8. Placed(printed, Upto(ms, i)[Printing], Q(i))
      BY <3>1, <3>3, <3>4, <3>5, <3>6, PlacedBoth
    <3>9. QED
      BY <2>1, <3>7, <3>8 DEF i
  <2>3. CASE i \notin LookedAt(t)
    <3>1. {j \in 1..i : j \in LookedAt(t)} = {j \in 1..k : j \in LookedAt(t)}
      BY <2>1, <2>3
    <3>2. Q(i) = Q(k)
      BY <3>1 DEF PlacesUpto
    <3>3. Upto(ms, i) = Upto(ms, k)
      BY <1>2, <2>1, <2>3
    <3>4. QED
      BY <2>1, <3>2, <3>3 DEF i
  <2>4. QED
    BY <2>2, <2>3
<1> HIDE DEF S
<1>7. N \in S
  <2>1. N \in 0..N
    BY <1>1
  <2>2. QED
    BY <1>1, <1>5, <1>6, <2>1, PathInduct
<1>8. QED
  BY <1>2, <1>7 DEF S

\* A join.
LEMMA PrintJoin ==
    ASSUME Inv, DepthInv, AgreeInv, PrintInv, NEW t \in Tasks, Join(t)
    PROVE  PrintInv'
<1> DEFINE interp == AfterJoin(t)
           T == Tasks \ Kids(t)
           N == Len(Parts(t))
<1>1. /\ ~Ended(t) /\ Kids(t) # {} /\ AllEnded(t) /\ mode' = mode
      /\ task' = [u \in T |-> IF u = t THEN interp ELSE task[u]]
      /\ Working /\ Paused(task[t]) /\ Family(t) /\ \A u \in Kids(t) : RunShape(task[u])
  BY JoinReady
<1>2. FamilyEnded(t)
  BY <1>1, FamilyOver
<1>3. /\ N \in Nat /\ Cardinality(Kids(t)) = N
      /\ Kids(t) = {Append(t, i) : i \in 1..N}
      /\ DOMAIN task[t] = {"stack", "depth", "trace", "outcome"} /\ task[t].outcome = NoOutcome
  BY <1>1, <1>2 DEF FamilyEnded, Family, Paused, RunShape
<1>4. T \subseteq Tasks /\ t \in T
  BY <1>1, RemainingOK
<1>5. Tasks' = T /\ task'[t] = interp /\ \A u \in T : u # t => task'[u] = task[u]
  BY <1>1, <1>4 DEF Tasks
<1>6. interp.trace = Merged(t)
  BY <1>3 DEF AfterJoin
<1>7. Failed(t) # {} => interp.outcome.kind = "error"
  <2> DEFINE first == CHOOSE i \in Failed(t) : \A j \in Failed(t) : i <= j
  <2> SUFFICES ASSUME Failed(t) # {}
               PROVE  interp.outcome.kind = "error"
    OBVIOUS
  <2>1. first \in Failed(t)
    <3>1. Failed(t) \subseteq Nat
      BY <1>3 DEF Failed
    <3>2. \E i \in Failed(t) : \A j \in Failed(t) : i <= j
      BY <3>1, Smallest
    <3>3. QED
      BY <3>2
  <2>2. interp.outcome = task[Append(t, first)].outcome
    BY <1>3 DEF AfterJoin
  <2> HIDE DEF interp, first
  <2>3. QED
    BY <2>1, <2>2 DEF Failed
<1> HIDE DEF interp
<1>8. PICK places : AllPlaced(places)
  BY <1>1 DEF PrintInv
<1>9. PICK more : more = [u \in T |-> IF u = t THEN PlacesUpto(t, places, N) ELSE places[u]]
  OBVIOUS
<1>10. more[t] = PlacesUpto(t, places, N) /\ \A u \in T : u # t => more[u] = places[u]
  BY <1>4, <1>9
<1>11. \A i \in 1..N : Append(t, i) \in Kids(t) /\ Append(t, i) \in Tasks
  BY <1>3 DEF Kids
<1>12. \A u \in T : Placed(printed, Lines(u)', more[u])
  <2>1. Lines(t)' = Merged(t)[Printing]
    BY <1>5, <1>6 DEF Lines
  <2>2. Placed(printed, Merged(t)[Printing], PlacesUpto(t, places, N))
    BY <1>1, <1>2, <1>8, JoinedPlaces
  <2>3. ASSUME NEW u \in T, u # t
        PROVE  Placed(printed, Lines(u)', more[u])
    BY <1>5, <1>8, <1>10, <2>3 DEF Lines, AllPlaced
  <2>4. QED
    BY <1>10, <2>1, <2>2, <2>3
<1>13. \A u, w \in T : u # w => more[u] \intersect more[w] = {}
  <2>1. \A u, w \in Tasks : u # w => places[u] \intersect places[w] = {}
    BY <1>8 DEF AllPlaced
  <2>2. ASSUME NEW u \in T, u # t
        PROVE  more[u] \intersect more[t] = {}
    <3>1. \A i \in 1..N : places[u] \intersect places[Append(t, i)] = {}
      BY <1>4, <1>11, <2>1
    <3>2. places[u] \intersect places[t] = {}
      BY <1>4, <2>1, <2>2
    <3> HIDE DEF N, T
    <3>3. QED
      BY <1>10, <2>2, <3>1, <3>2 DEF PlacesUpto
  <2>3. QED
    BY <1>4, <1>10, <2>1, <2>2
<1>14. ASSUME Unfailed', NEW i \in 1..Len(printed)
       PROVE  \E u \in T : i \in more[u]
  <2>1. Failed(t) = {}
    BY <1>4, <1>5, <1>7, <1>14 DEF Unfailed
  <2>2. ASSUME NEW u \in Tasks
        PROVE  task[u].outcome.kind # "error"
    <3>1. CASE u \in T /\ u # t
      BY <1>5, <1>14, <3>1 DEF Unfailed
    <3>2. CASE u = t
      BY <1>3, <3>2, OutcomeKinds
    <3>3. CASE u \in Kids(t)
      <4>1. PICK j \in 1..N : u = Append(t, j)
        BY <1>3, <3>3
      <4>2. QED
        BY <1>3, <2>1, <4>1 DEF Failed
    <3>4. QED
      BY <3>1, <3>2, <3>3
  <2>3. PICK u \in Tasks : i \in places[u]
    BY <1>8, <2>2 DEF AllPlaced, Unfailed
  <2>4. CASE u \in T /\ u # t
    BY <1>10, <2>3, <2>4
  <2>5. CASE u = t
    BY <1>4, <1>10, <2>3, <2>5 DEF PlacesUpto
  <2>6. CASE u \in Kids(t)
    <3>1. PICK j \in 1..N : u = Append(t, j)
      BY <1>3, <2>6
    <3>2. j \in LookedAt(t)
      BY <1>3, <2>1 DEF LookedAt
    <3>3. i \in PlacesUpto(t, places, N)
      BY <2>3, <3>1, <3>2 DEF PlacesUpto
    <3>4. QED
      BY <1>4, <1>10, <3>3
  <2>7. QED
    BY <2>4, <2>5, <2>6
<1>15. printed' = printed /\ IsSeq(printed) /\ mode # "new"
  BY <1>1 DEF Join, PrintInv, Working
<1>16. AllPlaced(more)'
  <2>1. \A u \in Tasks' : Placed(printed, Lines(u), more[u])'
    BY <1>5, <1>12, <1>15
  <2>2. \A u, w \in Tasks' : u # w => more[u] \intersect more[w] = {}
    BY <1>5, <1>13
  <2>3. Unfailed' => \A i \in 1..Len(printed') : \E u \in Tasks' : i \in more[u]
    BY <1>5, <1>14, <1>15
  <2>4. QED
    BY <2>1, <2>2, <2>3 DEF AllPlaced
<1>17. QED
  BY <1>1, <1>15, <1>16 DEF PrintInv

\* The two runs of the program.
LEMMA PrintStart ==
    ASSUME PrintInv, Load \/ RunAgain
    PROVE  PrintInv'
<1>1. printed' = <<>> /\ mode' # "new"
  BY DEF Load, RunAgain, PrintInv
<1>2. IsSeq(printed')
  BY <1>1, EmptyShape
<1>3. ASSUME Working'
      PROVE  \E places : AllPlaced(places)'
  <2>1. task' = [t \in {<<>>} |-> EntryInterp]
    BY <1>3 DEF Load, RunAgain, Working
  <2>2. Tasks' = {<<>>} /\ task'[<<>>].trace = Silence
    BY <2>1 DEF Tasks, EntryInterp, Interp
  <2>3. Lines(<<>>)' = <<>>
    BY <2>2, EvaluatorAssumption DEF Lines, Silence
  <2>4. PICK places : places = [t \in {<<>>} |-> {}]
    OBVIOUS
  <2>5. places[<<>>] = {}
    BY <2>4
  <2>6. Placed(<<>>, <<>>, {}) /\ 1..Len(<<>>) = {}
    BY PlacedNone, EmptyShape
  <2>7. \A t \in Tasks' : Placed(printed, Lines(t), places[t])'
    BY <1>1, <2>2, <2>3, <2>5, <2>6
  <2>8. AllPlaced(places)'
    BY <1>1, <2>2, <2>6, <2>7 DEF AllPlaced
  <2>9. QED
    BY <2>8
<1>4. QED
  BY <1>1, <1>2, <1>3 DEF PrintInv

\* A step that changes nothing.
LEMMA PrintStutter ==
    ASSUME PrintInv, UNCHANGED vars
    PROVE  PrintInv'
<1>1. UNCHANGED <<mode, task, printed>>
  BY DEF vars
<1>2. Tasks' = Tasks /\ Working' = Working /\ Unfailed' = Unfailed /\ \A t : Lines(t)' = Lines(t)
  BY <1>1 DEF Tasks, Working, Unfailed, Lines
<1>3. \A places : AllPlaced(places)' <=> AllPlaced(places)
  BY <1>1, <1>2 DEF AllPlaced
<1>4. QED
  BY <1>1, <1>2, <1>3 DEF PrintInv

\* Any step of a task.
LEMMA PrintStep ==
    ASSUME Inv, DepthInv, AgreeInv, PrintInv, NEW t \in Tasks, Step(t)
    PROVE  PrintInv'
<1>1. CASE Spawn(t)
  BY <1>1, PrintSpawn
<1>2. CASE Join(t)
  BY <1>2, PrintJoin
<1>3. CASE ~Spawn(t) /\ ~Join(t)
  BY <1>3, PrintWalk
<1>4. QED
  BY <1>1, <1>2, <1>3

\* The invariant holds.
LEMMA PrintInvariance == Spec => []PrintInv
<1>1. Init => PrintInv
  BY EmptyShape DEF Init, PrintInv, Working
<1>2. Inv /\ DepthInv /\ AgreeInv /\ PrintInv /\ [Next]_vars => PrintInv'
  <2> SUFFICES ASSUME Inv, DepthInv, AgreeInv, PrintInv, [Next]_vars
               PROVE  PrintInv'
    OBVIOUS
  <2>1. CASE Load \/ RunAgain
    BY <2>1, PrintStart
  <2>2. ASSUME NEW t \in Tasks, Step(t)
        PROVE  PrintInv'
    BY <2>2, PrintStep
  <2>3. CASE UNCHANGED vars
    BY <2>3, PrintStutter
  <2>4. QED
    BY <2>1, <2>2, <2>3 DEF Next, Work, Rest
<1>3. QED
  BY <1>1, <1>2, Invariance, DepthInvariance, Agreement, PTL DEF Spec

\* When the run is over, no branch is left.
LEMMA NoneLeft ==
    ASSUME Inv, RunOver
    PROVE  Tasks = {<<>>}
<1>1. ASSUME NEW t \in Tasks, t # <<>>
      PROVE  FALSE
  <2>1. t \in Seq(Nat)
    BY DEF Inv, Paths
  <2>2. 1 \in 1..Len(t) /\ 1 - 1 = 0 /\ 0 \in 0..Len(t)
    BY <1>1, <2>1
  <2>3. ~Ended(Above(t, 0))
    BY <2>2 DEF Inv, Paths, WaitingAt
  <2>4. Above(t, 0) = <<>>
    BY <2>1, <2>2, AbovePath
  <2>5. QED
    BY <2>3, <2>4 DEF RunOver
<1>2. QED
  BY <1>1 DEF Inv, Paths

\* Nothing the tree walker prints is lost, and nothing is printed twice: without an error
\* every line is printed exactly as often.
THEOREM NothingLost == Spec => []NothingPrintedLost
<1>1. Inv /\ AgreeInv /\ PrintInv /\ AgreesWithTreeWalker => NothingPrintedLost
  <2> SUFFICES ASSUME Inv, AgreeInv, PrintInv, AgreesWithTreeWalker, RunOver, NEW x
               PROVE  /\ Occurrences(printed, x) >= Occurrences(expected.trace[Printing], x)
                      /\ expected.outcome.kind = "value" =>
                             Occurrences(printed, x) = Occurrences(expected.trace[Printing], x)
    BY DEF NothingPrintedLost
  <2>1. expected = [outcome |-> task[<<>>].outcome, trace |-> task[<<>>].trace]
    BY DEF AgreesWithTreeWalker
  <2>2. expected.outcome = task[<<>>].outcome /\ expected.trace[Printing] = Lines(<<>>)
    BY <2>1 DEF Lines
  <2>3. Working /\ Tasks = {<<>>}
    BY NoneLeft DEF RunOver, Working
  <2>4. PICK places : AllPlaced(places)
    BY <2>3 DEF PrintInv
  <2>5. IsSeq(printed) /\ IsSeq(Lines(<<>>))
    BY <2>3, EvaluatorAssumption DEF PrintInv, AgreeInv, AllShaped, RunShape, TraceShape, Lines
  <2>6. Placed(printed, Lines(<<>>), places[<<>>])
    BY <2>3, <2>4 DEF AllPlaced
  <2>7. expected.outcome.kind = "value" => places[<<>>] = 1..Len(printed)
    <3> SUFFICES ASSUME expected.outcome.kind = "value"
                 PROVE  places[<<>>] = 1..Len(printed)
      OBVIOUS
    <3>1. Unfailed
      BY <2>2, <2>3 DEF Unfailed
    <3>2. \A i \in 1..Len(printed) : i \in places[<<>>]
      BY <2>3, <2>4, <3>1 DEF AllPlaced
    <3>3. QED
      BY <2>6, <3>2 DEF Placed
  <2>8. QED
    BY <2>2, <2>5, <2>6, <2>7, PlacedCount
<1>2. QED
  BY <1>1, Invariance, Agreement, PrintInvariance, Agrees, PTL

-----------------------------------------------------------------------------
(***************************************************************************)
(* The lines of a trace at places that come in the order of the trace.     *)
(***************************************************************************)

\* The places P before the places Q.
Before(P, Q) == \A i \in P, j \in Q : i < j

\* The lines s are those at the places P of out, in the order of the places.
InOrder(out, s, P) ==
    /\ P \subseteq 1..Len(out)
    /\ \E q : /\ \A j \in 1..Len(s) : q[j] \in P /\ out[q[j]] = s[j]
              /\ \A j, k \in 1..Len(s) : j < k => q[j] < q[k]
              /\ \A i \in P : \E j \in 1..Len(s) : q[j] = i

\* No line has no place.
LEMMA OrderedNone ==
    ASSUME NEW out
    PROVE  InOrder(out, <<>>, {})
<1>1. 1..Len(<<>>) = {}
  BY EmptyShape
<1>2. QED
  BY <1>1 DEF InOrder

\* A line is printed.
LEMMA OrderedBefore ==
    ASSUME NEW out, IsSeq(out), NEW s, NEW P, InOrder(out, s, P), NEW v
    PROVE  InOrder(Append(out, v), s, P) /\ Before(P, {Len(out) + 1})
<1> DEFINE o == Append(out, v)
<1>1. Len(out) \in Nat /\ Len(o) = Len(out) + 1 /\ \A i \in 1..Len(out) : o[i] = out[i]
  BY AppendedSeq
<1>2. PICK q : /\ \A j \in 1..Len(s) : q[j] \in P /\ out[q[j]] = s[j]
               /\ \A j, k \in 1..Len(s) : j < k => q[j] < q[k]
               /\ \A i \in P : \E j \in 1..Len(s) : q[j] = i
  BY DEF InOrder
<1>3. P \subseteq 1..Len(out)
  BY DEF InOrder
<1> HIDE DEF o
<1>4. P \subseteq 1..Len(o) /\ Before(P, {Len(out) + 1})
  BY <1>1, <1>3 DEF Before
<1>5. \A j \in 1..Len(s) : q[j] \in P /\ o[q[j]] = s[j]
  BY <1>1, <1>2, <1>3
<1>6. InOrder(o, s, P)
  BY <1>2, <1>4, <1>5 DEF InOrder
<1>7. QED
  BY <1>4, <1>6 DEF o

\* Two groups of lines, one after the other.
LEMMA OrderedBoth ==
    ASSUME NEW out, NEW s, IsSeq(s), NEW r, IsSeq(r), NEW P, InOrder(out, s, P), NEW Q, InOrder(out, r, Q),
           Before(P, Q)
    PROVE  InOrder(out, s \o r, P \union Q)
<1> DEFINE n == Len(s)
           m == Len(r)
<1>1. /\ n \in Nat /\ m \in Nat /\ Len(s \o r) = n + m
      /\ \A i \in 1..n : (s \o r)[i] = s[i]
      /\ \A i \in 1..m : (s \o r)[n + i] = r[i]
  BY Joined
<1>2. PICK p : /\ \A j \in 1..n : p[j] \in P /\ out[p[j]] = s[j]
               /\ \A j, k \in 1..n : j < k => p[j] < p[k]
               /\ \A i \in P : \E j \in 1..n : p[j] = i
  BY DEF InOrder
<1>3. PICK q : /\ \A j \in 1..m : q[j] \in Q /\ out[q[j]] = r[j]
               /\ \A j, k \in 1..m : j < k => q[j] < q[k]
               /\ \A i \in Q : \E j \in 1..m : q[j] = i
  BY DEF InOrder
<1> DEFINE h == [i \in 1..(n + m) |-> IF i <= n THEN p[i] ELSE q[i - n]]
<1>4. \A i \in 1..n : i \in 1..(n + m) /\ h[i] = p[i]
  BY <1>1
<1>5. \A i \in 1..m : n + i \in 1..(n + m) /\ h[n + i] = q[i]
  BY <1>1
<1>6. \A j \in 1..(n + m) : j \in 1..n \/ \E i \in 1..m : j = n + i
  <2> SUFFICES ASSUME NEW j \in 1..(n + m), j \notin 1..n
               PROVE  \E i \in 1..m : j = n + i
    OBVIOUS
  <2> DEFINE i == j - n
  <2>1. i \in 1..m /\ j = n + i
    BY <1>1
  <2>2. QED
    BY <2>1
<1> HIDE DEF h, n, m
<1>7. \A j \in 1..(n + m) : h[j] \in P \union Q /\ out[h[j]] = (s \o r)[j]
  <2> SUFFICES ASSUME NEW j \in 1..(n + m)
               PROVE  h[j] \in P \union Q /\ out[h[j]] = (s \o r)[j]
    OBVIOUS
  <2>1. CASE j \in 1..n
    <3>1. h[j] = p[j] /\ p[j] \in P /\ out[p[j]] = s[j] /\ (s \o r)[j] = s[j]
      BY <1>1, <1>2, <1>4, <2>1
    <3>2. QED
      BY <3>1
  <2>2. CASE j \notin 1..n
    <3>1. PICK i \in 1..m : j = n + i
      BY <1>6, <2>2
    <3>2. h[j] = q[i] /\ q[i] \in Q /\ out[q[i]] = r[i]
      BY <1>3, <1>5, <3>1
    <3>3. (s \o r)[j] = r[i]
      BY <1>1, <3>1
    <3>4. QED
      BY <3>2, <3>3
  <2>3. QED
    BY <2>1, <2>2
<1>8. \A j, k \in 1..(n + m) : j < k => h[j] < h[k]
  <2> SUFFICES ASSUME NEW j \in 1..(n + m), NEW k \in 1..(n + m), j < k
               PROVE  h[j] < h[k]
    OBVIOUS
  <2>1. CASE j \in 1..n /\ k \in 1..n
    BY <1>2, <1>4, <2>1
  <2>2. CASE j \in 1..n /\ k \notin 1..n
    <3>1. PICK i \in 1..m : k = n + i
      BY <1>6, <2>2
    <3>2. h[j] \in P /\ h[k] \in Q
      BY <1>2, <1>3, <1>4, <1>5, <2>2, <3>1
    <3>3. QED
      BY <3>2 DEF Before
  <2>3. CASE j \notin 1..n
    <3>1. PICK a \in 1..m : j = n + a
      BY <1>6, <2>3
    <3>2. k \notin 1..n
      BY <1>1, <2>3
    <3>3. PICK b \in 1..m : k = n + b
      BY <1>6, <3>2
    <3>4. a < b
      BY <1>1, <3>1, <3>3
    <3>5. QED
      BY <1>3, <1>5, <3>1, <3>3, <3>4
  <2>4. QED
    BY <2>1, <2>2, <2>3
<1>9. \A i \in P \union Q : \E j \in 1..(n + m) : h[j] = i
  BY <1>2, <1>3, <1>4, <1>5
<1>10. P \union Q \subseteq 1..Len(out) /\ Len(s \o r) = n + m
  BY <1>1 DEF InOrder
<1> DEFINE z == s \o r
           R == P \union Q
           N == n + m
<1>11. R \subseteq 1..Len(out) /\ Len(z) = N
  BY <1>10
<1>12. \A j \in 1..N : h[j] \in R /\ out[h[j]] = z[j]
  BY <1>7
<1>13. \A i \in R : \E j \in 1..N : h[j] = i
  BY <1>9
<1> HIDE DEF z, R, N
<1>14. \A j, k \in 1..N : j < k => h[j] < h[k]
  BY <1>8 DEF N
<1>15. InOrder(out, z, R)
  BY <1>11, <1>12, <1>13, <1>14 DEF InOrder
<1>16. QED
  BY <1>15 DEF z, R

\* The line just printed has the last place.
LEMMA OrderedNow ==
    ASSUME NEW out, IsSeq(out), NEW s, IsSeq(s), NEW P, InOrder(out, s, P), NEW v
    PROVE  InOrder(Append(out, v), Append(s, v), P \union {Len(out) + 1})
<1> DEFINE o == Append(out, v)
           n == Len(out) + 1
<1>1. InOrder(o, s, P) /\ Before(P, {n})
  BY OrderedBefore
<1>2. o[n] = v /\ Len(o) = n /\ n \in Nat \ {0}
  BY AppendedSeq
<1>3. IsSeq(<<v>>) /\ Len(<<v>>) = 1 /\ <<v>>[1] = v
  BY OneFrame, Pushes, EmptyShape
<1> HIDE DEF o, n
<1>4. InOrder(o, <<v>>, {n})
  <2> DEFINE q == [j \in 1..1 |-> n]
             s1 == <<v>>
  <2>1. \A j \in 1..1 : q[j] = n /\ j = 1
    OBVIOUS
  <2>2. Len(s1) = 1 /\ s1[1] = v
    BY <1>3
  <2> HIDE DEF q, s1
  <2>3. \A j, k \in 1..Len(s1) : j < k => q[j] < q[k]
    BY <2>2
  <2>4. InOrder(o, s1, {n})
    BY <1>2, <2>1, <2>2, <2>3 DEF InOrder
  <2>5. QED
    BY <2>4 DEF s1
<1>5. InOrder(o, s \o <<v>>, P \union {n})
  BY <1>1, <1>3, <1>4, OrderedBoth
<1>6. s \o <<v>> = Append(s, v)
  BY DEF IsSeq
<1>7. QED
  BY <1>5, <1>6 DEF o, n

\* Lines that have all places, in order, are all there is.
LEMMA OrderedAll ==
    ASSUME NEW out, IsSeq(out), NEW s, IsSeq(s), InOrder(out, s, 1..Len(out))
    PROVE  out = s
<1> DEFINE n == Len(s)
           m == Len(out)
<1>1. n \in Nat /\ m \in Nat
  BY SeqIsSeq DEF IsSeq
<1>2. PICK q : /\ \A j \in 1..n : q[j] \in 1..m /\ out[q[j]] = s[j]
               /\ \A j, k \in 1..n : j < k => q[j] < q[k]
               /\ \A i \in 1..m : \E j \in 1..n : q[j] = i
  BY DEF InOrder
<1> HIDE DEF n, m
<1> DEFINE S == {k \in Nat : \A j \in 1..k : j \in 1..n => q[j] = j}
<1>3. Nat \subseteq S
  <2>1. 0 \in S
    OBVIOUS
  <2>2. ASSUME NEW k \in Nat, k \in S
        PROVE  k + 1 \in S
    <3> DEFINE c == k + 1
    <3>1. c \in Nat /\ \A j \in 1..c : j = c \/ j \in 1..k
      OBVIOUS
    <3>2. ASSUME c \in 1..n
          PROVE  q[c] = c
      <4>1. \A j \in 1..k : j \in 1..n /\ q[j] = j /\ j < c
        BY <1>1, <2>2, <3>2
      <4>2. q[c] \in 1..m
        BY <1>2, <3>2
      <4>3. \A j \in 1..k : q[c] # j
        <5>1. \A j \in 1..k : q[j] < q[c] /\ q[j] = j
          BY <1>2, <3>2, <4>1
        <5>2. QED
          BY <4>2, <5>1
      <4>4. q[c] >= c
        BY <4>2, <4>3
      <4>5. CASE q[c] > c
        <5>1. c \in 1..m
          BY <1>1, <4>2, <4>5
        <5>2. PICK i \in 1..n : q[i] = c
          BY <1>2, <5>1
        <5>3. i # c
          BY <4>5, <5>2
        <5>4. i \notin 1..k
          BY <4>1, <5>2
        <5>5. c < i
          BY <5>3, <5>4
        <5>6. q[c] < q[i]
          BY <1>2, <3>2, <5>5
        <5>7. QED
          BY <4>2, <4>5, <5>2, <5>6
      <4>6. QED
        BY <4>2, <4>4, <4>5
    <3> HIDE DEF c
    <3>3. \A j \in 1..c : j \in 1..n => q[j] = j
      BY <2>2, <3>1, <3>2
    <3>4. QED
      BY <3>1, <3>3 DEF c
  <2> HIDE DEF S
  <2>3. QED
    BY <2>1, <2>2, NatInduct
<1>4. \A j \in 1..n : q[j] = j
  <2>1. n \in S
    BY <1>1, <1>3
  <2>2. QED
    BY <2>1
<1>5. \A j \in 1..n : j \in 1..m /\ out[j] = s[j]
  BY <1>2, <1>4
<1>6. \A i \in 1..m : i \in 1..n
  BY <1>2, <1>4
<1>7. n = m
  <2>1. n <= m
    <3>1. CASE n = 0
      BY <1>1, <3>1
    <3>2. CASE n # 0
      <4>1. n \in 1..n
        BY <1>1, <3>2
      <4>2. QED
        BY <1>1, <1>5, <4>1
    <3>3. QED
      BY <3>1, <3>2
  <2>2. m <= n
    <3>1. CASE m = 0
      BY <1>1, <3>1
    <3>2. CASE m # 0
      <4>1. m \in 1..m
        BY <1>1, <3>2
      <4>2. QED
        BY <1>1, <1>6, <4>1
    <3>3. QED
      BY <3>1, <3>2
  <2>3. QED
    BY <1>1, <2>1, <2>2
<1>8. QED
  BY <1>5, <1>7, SameSeq DEF n, m

-----------------------------------------------------------------------------
(***************************************************************************)
(* Where the run is in the program: a task calls what its depth allows,    *)
(* and a branch, until it makes a call, evaluates its part.                *)
(***************************************************************************)

\* CalledWithin, which is defined by recursion, satisfies its definition: the smallest
\* family of sets that is closed under calls does.
LEMMA CalledWithinOf ==
    \A k \in Nat : CalledWithin[k] =
        IF k = 0 THEN {Symbols[entry.name]}
        ELSE CalledWithin[k - 1] \union UNION {Callees(d) : d \in CalledWithin[k - 1]}
<1> DEFINE e0 == Symbols[entry.name]
           U == Definitions \union {e0}
           Called(S) == S \union UNION {Callees(d) : d \in S}
           Fam == {S \in [Nat -> SUBSET U] : e0 \in S[0] /\ \A j \in Nat : Called(S[j]) \subseteq S[j + 1]}
           R(k) == {d \in U : \A S \in Fam : d \in S[k]}
           r == [k \in Nat |-> R(k)]
           Rec(f) == [k \in Nat |-> IF k = 0 THEN {e0}
                                    ELSE f[k - 1] \union UNION {Callees(d) : d \in f[k - 1]}]
<1>1. \A S \in SUBSET U : Called(S) \in SUBSET U
  <2>1. \A d : Callees(d) \subseteq Definitions
    BY NameAssumption DEF Callees, Lookup, IsDefinition
  <2>2. QED
    BY <2>1
<1>2. \A k \in Nat : R(k) \in SUBSET U
  OBVIOUS
<1>3. \A S \in Fam : \A k \in Nat : R(k) \subseteq S[k]
  OBVIOUS
<1>4. ASSUME NEW k \in Nat
      PROVE  Called(R(k)) \subseteq R(k + 1)
  <2>1. Called(R(k)) \subseteq U
    <3> HIDE DEF R, Called, U
    <3>1. QED
      BY <1>1, <1>2
  <2>2. \A S \in Fam : Called(R(k)) \subseteq Called(S[k]) /\ Called(S[k]) \subseteq S[k + 1]
    BY <1>3
  <2> DEFINE C == Called(R(k))
  <2>3. \A S \in Fam : C \subseteq S[k + 1]
    <3> HIDE DEF R, Called, Fam
    <3>1. QED
      BY <2>2 DEF C
  <2> HIDE DEF C, Fam, U
  <2>4. C \subseteq R(k + 1)
    BY <2>1, <2>3 DEF C
  <2>5. QED
    BY <2>4 DEF C
<1>5. R(0) = {e0}
  <2> DEFINE S == [j \in Nat |-> IF j = 0 THEN {e0} ELSE U]
  <2>1. S \in [Nat -> SUBSET U] /\ S[0] = {e0}
    OBVIOUS
  <2>2. \A j \in Nat : S[j] \in SUBSET U /\ S[j + 1] = U
    OBVIOUS
  <2> HIDE DEF S
  <2>3. \A j \in Nat : Called(S[j]) \subseteq S[j + 1]
    BY <1>1, <2>2
  <2>4. S \in Fam
    BY <2>1, <2>3
  <2>5. e0 \in R(0)
    OBVIOUS
  <2>6. R(0) \subseteq {e0}
    BY <2>1, <2>4
  <2>7. QED
    BY <2>5, <2>6
<1> HIDE DEF R, Called, U
<1>6. ASSUME NEW k \in Nat
      PROVE  R(k + 1) \subseteq Called(R(k))
  <2> DEFINE S == [j \in Nat |-> IF j <= k THEN R(j) ELSE IF j = k + 1 THEN Called(R(k)) ELSE U]
  <2>1. S \in [Nat -> SUBSET U]
    BY <1>1, <1>2
  <2>2. S[0] = R(0) /\ S[k + 1] = Called(R(k))
    OBVIOUS
  <2>3. \A j \in Nat : S[j] = IF j <= k THEN R(j) ELSE IF j = k + 1 THEN Called(R(k)) ELSE U
    OBVIOUS
  <2> HIDE DEF S
  <2>4. ASSUME NEW j \in Nat
        PROVE  Called(S[j]) \subseteq S[j + 1]
    <3>1. CASE j < k
      <4>1. S[j] = R(j) /\ S[j + 1] = R(j + 1)
        BY <2>3, <3>1
      <4>2. QED
        BY <1>4, <4>1
    <3>2. CASE j = k
      <4>1. S[j] = R(k)
        BY <2>3, <3>2
      <4>2. QED
        BY <2>2, <3>2, <4>1
    <3>3. CASE j > k
      <4>1. S[j + 1] = U /\ S[j] \in SUBSET U
        BY <2>1, <2>3, <3>3
      <4>2. QED
        BY <1>1, <4>1
    <3>4. QED
      BY <3>1, <3>2, <3>3
  <2>5. S \in Fam
    BY <1>5, <2>1, <2>2, <2>4
  <2>6. QED
    BY <1>3, <2>2, <2>5
<1>7. r = Rec(r)
  <2> SUFFICES ASSUME NEW k \in Nat
               PROVE  r[k] = Rec(r)[k]
    OBVIOUS
  <2>1. CASE k = 0
    BY <1>5, <2>1
  <2>2. CASE k # 0
    <3>1. PICK j \in Nat : k = j + 1 /\ k - 1 = j
      BY <2>2
    <3>2. r[k] = R(j + 1) /\ r[k - 1] = R(j)
      BY <3>1
    <3>3. R(j + 1) = Called(R(j))
      BY <1>4, <1>6
    <3> HIDE DEF r
    <3>4. Rec(r)[k] = r[k - 1] \union UNION {Callees(d) : d \in r[k - 1]}
      BY <2>2
    <3> HIDE DEF Rec
    <3>5. QED
      BY <3>2, <3>3, <3>4 DEF Called
  <2>3. QED
    BY <2>1, <2>2
<1>8. CalledWithin = CHOOSE f : f = Rec(f)
  BY DEF CalledWithin
<1>9. CalledWithin = Rec(CalledWithin)
  <2> HIDE DEF r, Rec
  <2>1. \E f : f = Rec(f)
    BY <1>7
  <2>2. QED
    BY <1>8, <2>1
<1>10. QED
  BY <1>9

\* One call more.
LEMMA CalledOnce ==
    ASSUME NEW k \in Nat, NEW d \in CalledWithin[k], NEW c \in Callees(d)
    PROVE  c \in CalledWithin[k + 1]
<1>1. k + 1 \in Nat /\ k + 1 # 0 /\ (k + 1) - 1 = k
  OBVIOUS
<1>2. CalledWithin[k + 1] = CalledWithin[k] \union UNION {Callees(x) : x \in CalledWithin[k]}
  BY <1>1, CalledWithinOf
<1>3. QED
  BY <1>2

\* What is called within few calls is called within many.
LEMMA CalledMore ==
    ASSUME NEW k \in Nat, NEW n \in Nat, k <= n
    PROVE  CalledWithin[k] \subseteq CalledWithin[n]
<1> DEFINE S == {j \in Nat : CalledWithin[k] \subseteq CalledWithin[k + j]}
<1>1. 0 \in S
  <2>1. k + 0 = k
    OBVIOUS
  <2>2. QED
    BY <2>1
<1>2. ASSUME NEW j \in Nat, j \in S
      PROVE  j + 1 \in S
  <2> DEFINE i == k + (j + 1)
  <2>1. i \in Nat /\ i # 0 /\ i - 1 = k + j
    OBVIOUS
  <2> HIDE DEF i
  <2>2. CalledWithin[k + j] \subseteq CalledWithin[i]
    BY <2>1, CalledWithinOf
  <2>3. QED
    BY <1>2, <2>2 DEF i
<1> HIDE DEF S
<1>3. n - k \in S
  <2>1. Nat \subseteq S
    BY <1>1, <1>2, NatInduct
  <2>2. QED
    BY <2>1
<1>4. k + (n - k) = n
  OBVIOUS
<1>5. QED
  BY <1>3, <1>4 DEF S

\* The nodes of a part are nodes of the whole.
LEMMA SubtreeParts ==
    ASSUME NEW n \in Nodes
    PROVE  n \in Subtree[n] /\ \A i \in 1..Len(Node[n].parts) : Subtree[Node[n].parts[i]] \subseteq Subtree[n]
BY SubtreeOf

\* All that a frame is at work on is in S.
AtWorkIn(f, S) == \A n \in NodesOf(f) : Subtree[n] \subseteq S

\* A frame that is given a value is at work on nothing new.
LEMMA GiveNodes ==
    ASSUME NEW E, NEW f, FrameOK(E, f), NEW v
    PROVE  /\ NodesOf(Give(f, v)) \subseteq NodesOf(f)
           /\ Give(f, v).defn = f.defn /\ Give(f, v).phase = f.phase
<1>1. CASE f.work = <<>>
  <2> DEFINE g == [f EXCEPT !.focus = NoNode, !.given = v]
  <2>1. Give(f, v) = g
    BY <1>1 DEF Give
  <2>2. g.focus = NoNode /\ g.work = f.work /\ g.defn = f.defn /\ g.phase = f.phase
    BY DEF FrameOK
  <2> HIDE DEF g
  <2>3. QED
    BY <2>1, <2>2 DEF NodesOf
<1>2. CASE f.work # <<>>
  <2> DEFINE h == Head(f.work)
             w == [h EXCEPT !.done = Append(@, v)]
             ws == <<w>> \o Tail(f.work)
             g == [f EXCEPT !.focus = NoNode, !.work = ws]
  <2>1. Give(f, v) = g
    BY <1>2 DEF Give
  <2>2. g.focus = NoNode /\ g.work = ws /\ g.defn = f.defn /\ g.phase = f.phase
    BY DEF FrameOK
  <2>3. Len(f.work) \in Nat \ {0} /\ h = f.work[1] /\ BegunOK(E, f.defn, h)
    BY <1>2, InnerOK
  <2>4. w.node = h.node
    BY <2>3 DEF BegunOK
  <2> HIDE DEF w, h
  <2>5. /\ Len(ws) = Len(f.work) /\ ws[1] = w
        /\ \A i \in 2..Len(f.work) : ws[i] = f.work[i]
    BY <1>2, Replaced DEF FrameOK
  <2> HIDE DEF ws, g
  <2>6. \A i \in 1..Len(ws) : ws[i].node = f.work[i].node
    <3> SUFFICES ASSUME NEW i \in 1..Len(ws)
                 PROVE  ws[i].node = f.work[i].node
      OBVIOUS
    <3>1. CASE i = 1
      BY <2>3, <2>4, <2>5, <3>1
    <3>2. CASE i # 1
      BY <2>3, <2>5, <3>2
    <3>3. QED
      BY <3>1, <3>2
  <2>7. NodesOf(g) \subseteq NodesOf(f)
    BY <2>2, <2>5, <2>6 DEF NodesOf
  <2>8. QED
    BY <2>1, <2>2, <2>7
<1>3. QED
  BY <1>1, <1>2

\* An expression on its way up adds nothing to the nodes at work.
LEMMA FinishNodes ==
    ASSUME NEW E, NEW f, FrameOK(E, f), f.work # <<>>, NEW v
    PROVE  /\ NodesOf(Finish(f, v)) \subseteq NodesOf(f)
           /\ Finish(f, v).defn = f.defn /\ Finish(f, v).phase = f.phase
<1> DEFINE env == Head(f.work).outer
           g == [f EXCEPT !.work = Tail(f.work), !.locals = env]
<1> HIDE DEF env
<1>1. /\ DOMAIN g = DOMAIN f /\ g.defn = f.defn /\ g.phase = f.phase /\ g.at = f.at
      /\ g.allowed = f.allowed /\ g.satisfied = f.satisfied
      /\ g.focus = f.focus /\ g.work = Tail(f.work)
  BY DEF FrameOK
<1>2. Finish(f, v) = Give(g, v)
  BY DEF Finish, env
<1> HIDE DEF g
<1>3. /\ IsSeq(g.work)
      /\ \A i \in 1..Len(g.work) : i + 1 \in 1..Len(f.work) /\ g.work[i] = f.work[i + 1]
  BY <1>1, Popped DEF FrameOK
<1>4. FrameOK(E, g)
  BY <1>1, <1>3 DEF FrameOK
<1>5. NodesOf(g) \subseteq NodesOf(f)
  BY <1>1, <1>3 DEF NodesOf
<1>6. QED
  BY <1>1, <1>2, <1>4, <1>5, GiveNodes

\* Nor does one on its way down.
LEMMA BegunNodes ==
    ASSUME NEW E, NEW f, FrameOK(E, f), f.focus # NoNode
    PROVE  /\ NodesOf(WithBegun(f)) \subseteq NodesOf(f)
           /\ WithBegun(f).defn = f.defn /\ WithBegun(f).phase = f.phase
<1> DEFINE w == [node |-> f.focus, done |-> <<>>, outer |-> f.locals]
           ws == <<w>> \o f.work
           g == WithBegun(f)
<1>1. g.focus = NoNode /\ g.work = ws /\ g.defn = f.defn /\ g.phase = f.phase
  BY DEF FrameOK, WithBegun
<1>2. w.node = f.focus
  OBVIOUS
<1> HIDE DEF w, g
<1>3. /\ ws[1] = w /\ Len(ws) \in Nat
      /\ \A i \in 2..Len(ws) : i - 1 \in 1..Len(f.work) /\ ws[i] = f.work[i - 1]
  BY Pushed DEF FrameOK
<1> HIDE DEF ws
<1>4. \A i \in 1..Len(ws) : ws[i].node \in NodesOf(f)
  <2> SUFFICES ASSUME NEW i \in 1..Len(ws)
               PROVE  ws[i].node \in NodesOf(f)
    OBVIOUS
  <2>1. CASE i = 1
    BY <1>2, <1>3, <2>1 DEF NodesOf
  <2>2. CASE i # 1
    <3>1. i \in 2..Len(ws)
      BY <1>3, <2>2
    <3>2. i - 1 \in 1..Len(f.work) /\ ws[i] = f.work[i - 1]
      BY <1>3, <3>1
    <3>3. QED
      BY <3>2 DEF NodesOf
  <2>3. QED
    BY <2>1, <2>2
<1>5. NodesOf(g) \subseteq NodesOf(f)
  BY <1>1, <1>4 DEF NodesOf
<1>6. QED
  BY <1>1, <1>5 DEF g

\* The next part is a part of what the frame is at work on.
LEMMA PartNodes ==
    ASSUME NEW E, NEW f, FrameOK(E, f), f.work # <<>>, NextPart(Head(f.work)) # NoNode,
           NEW S, AtWorkIn(f, S)
    PROVE  /\ AtWorkIn(WithPart(f), S)
           /\ WithPart(f).defn = f.defn /\ WithPart(f).phase = f.phase
<1> DEFINE w == Head(f.work)
           n == NextPart(w)
           g == WithPart(f)
<1>1. g.focus = n /\ g.work = f.work /\ g.defn = f.defn /\ g.phase = f.phase
  BY DEF FrameOK, WithPart
<1>2. w.node \in NodesOf(f) /\ BegunOK(E, f.defn, w)
  BY InnerOK
<1>3. w.node \in Nodes /\ Len(w.done) \in Nat
  BY <1>2, SeqIsSeq DEF BegunOK, IsSeq
<1>4. \E i \in 1..Len(Node[w.node].parts) : n = Node[w.node].parts[i]
  <2> DEFINE parts == Node[w.node].parts
             i == Len(w.done) + 1
  <2>1. Len(parts) \in Nat /\ i \in Nat \ {0} /\ (Node[w.node].kind = "conditional" => Len(parts) = 3)
    BY <1>3, PartsAreNodes, NodeAssumption DEF NodeRecords
  <2>2. CASE Node[w.node].kind = "conditional" /\ i > 1
    <3>1. n \in {parts[2], parts[3], NoNode} /\ Len(parts) = 3
      BY <2>1, <2>2 DEF NextPart
    <3>2. QED
      BY <3>1
  <2>3. CASE ~(Node[w.node].kind = "conditional" /\ i > 1)
    <3>1. n = IF i <= Len(parts) THEN parts[i] ELSE NoNode
      BY <2>3 DEF NextPart
    <3> HIDE DEF i, n, parts
    <3>2. i \in 1..Len(parts) /\ n = parts[i]
      BY <2>1, <3>1 DEF n
    <3>3. QED
      BY <3>2 DEF parts
  <2>4. QED
    BY <2>2, <2>3
<1>5. Subtree[n] \subseteq Subtree[w.node]
  BY <1>3, <1>4, SubtreeParts
<1>6. Subtree[n] \subseteq S
  BY <1>2, <1>5 DEF AtWorkIn
<1> HIDE DEF n, g
<1>7. NodesOf(g) \subseteq NodesOf(f) \union {n}
  BY <1>1 DEF NodesOf
<1>8. AtWorkIn(g, S)
  BY <1>6, <1>7 DEF AtWorkIn
<1>9. QED
  BY <1>1, <1>8 DEF g

\* Frame g is where f is: in the same definition and, in a branch, at work in S.
SamePlace(f, g, S) ==
    /\ g.defn = f.defn /\ (g.phase = "branch" <=> f.phase = "branch")
    /\ g.phase = "branch" => AtWorkIn(g, S)

\* A move stays where it is, or goes into a definition that is called there.
KeepsPlace(f, m, S) ==
    /\ m.does \in {"goes on", "performs"} => SamePlace(f, m.frame, S)
    /\ m.does = "invokes" => m.frame.defn \in Callees(f.defn) /\ m.frame.phase # "branch"

\* Moves of each kind.
LEMMA PlacedMoves ==
    ASSUME NEW f, NEW S
    PROVE  /\ \A g : SamePlace(f, g, S) => KeepsPlace(f, GoesOn(g), S)
           /\ \A g, v, e : SamePlace(f, g, S) => KeepsPlace(f, Performs(g, v, e), S)
           /\ \A g : g.defn \in Callees(f.defn) /\ g.phase # "branch" => KeepsPlace(f, Invokes(g), S)
           /\ \A e : KeepsPlace(f, Fails(f, e), S)
           /\ \A v : KeepsPlace(f, Ends(f, v), S)
           /\ KeepsPlace(f, Returns(f), S) /\ KeepsPlace(f, Waits(f), S)
<1>1. /\ \A g : GoesOn(g).does = "goes on" /\ GoesOn(g).frame = g
      /\ \A g : Invokes(g).does = "invokes" /\ Invokes(g).frame = g
      /\ \A e : Fails(f, e).does = "fails"
      /\ \A v : Ends(f, v).does = "ends"
      /\ Returns(f).does = "returns" /\ Waits(f).does = "waits"
  BY DEF GoesOn, Invokes, Fails, Ends, Returns, Waits
<1>2. \A g : SamePlace(f, g, S) => KeepsPlace(f, GoesOn(g), S)
  BY <1>1 DEF KeepsPlace
<1>3. ASSUME NEW g, NEW v, NEW e, SamePlace(f, g, S)
      PROVE  KeepsPlace(f, Performs(g, v, e), S)
  <2> DEFINE m == Performs(g, v, e)
  <2>1. m.does = "performs" /\ m.frame = g
    BY DEF Performs
  <2> HIDE DEF m
  <2>2. KeepsPlace(f, m, S)
    BY <1>3, <2>1 DEF KeepsPlace
  <2>3. QED
    BY <2>2 DEF m
<1>4. \A g : g.defn \in Callees(f.defn) /\ g.phase # "branch" => KeepsPlace(f, Invokes(g), S)
  BY <1>1 DEF KeepsPlace
<1>5. (\A e : KeepsPlace(f, Fails(f, e), S)) /\ \A v : KeepsPlace(f, Ends(f, v), S)
  BY <1>1 DEF KeepsPlace
<1>6. KeepsPlace(f, Returns(f), S) /\ KeepsPlace(f, Waits(f), S)
  BY <1>1 DEF KeepsPlace
<1>7. QED
  BY <1>2, <1>3, <1>4, <1>5, <1>6

\* So does every move.
LEMMA MovePlace ==
    ASSUME NEW E, NEW f, FrameOK(E, f), NEW S, f.phase = "branch" => AtWorkIn(f, S),
           NEW d, NEW m, m = Move(f, d)
    PROVE  KeepsPlace(f, m, S)
<1>1. CASE f.focus # NoNode
  <2>1. m = MoveInto(f)
    BY <1>1 DEF Move
  <2>2. \/ \E e : m = Fails(f, e)
        \/ \E v : m = GoesOn(Give(f, v))
        \/ m = GoesOn(WithBegun(f))
    BY <2>1 DEF MoveInto
  <2>3. CASE \E e : m = Fails(f, e)
    BY <2>3, PlacedMoves
  <2>4. CASE \E v : m = GoesOn(Give(f, v))
    <3>1. PICK v : m = GoesOn(Give(f, v))
      BY <2>4
    <3>2. SamePlace(f, Give(f, v), S)
      BY GiveNodes DEF SamePlace, AtWorkIn
    <3>3. QED
      BY <3>1, <3>2, PlacedMoves
  <2>5. CASE m = GoesOn(WithBegun(f))
    <3>1. SamePlace(f, WithBegun(f), S)
      BY <1>1, BegunNodes DEF SamePlace, AtWorkIn
    <3>2. QED
      BY <2>5, <3>1, PlacedMoves
  <2>6. QED
    BY <2>2, <2>3, <2>4, <2>5
<1>2. CASE f.focus = NoNode /\ f.work # <<>>
  <2>1. \/ NextPart(Head(f.work)) # NoNode /\ m = GoesOn(WithPart(f))
        \/ m = MoveOutOf(f, d)
    BY <1>2 DEF Move
  <2>2. CASE NextPart(Head(f.work)) # NoNode /\ m = GoesOn(WithPart(f))
    <3>1. /\ WithPart(f).defn = f.defn /\ WithPart(f).phase = f.phase
          /\ f.phase = "branch" => AtWorkIn(WithPart(f), S)
      <4>1. AtWorkIn(f, UNION {Subtree[n] : n \in NodesOf(f)})
        BY DEF AtWorkIn
      <4>2. QED
        BY <1>2, <2>2, <4>1, PartNodes
    <3>2. SamePlace(f, WithPart(f), S)
      BY <3>1 DEF SamePlace
    <3>3. QED
      BY <2>2, <3>2, PlacedMoves
  <2>3. CASE m = MoveOutOf(f, d)
    <3> DEFINE w == Head(f.work)
    <3>1. \/ \E e : m = Fails(f, e)
          \/ \E v : m = GoesOn(Finish(f, v))
          \/ \E v, e : m = Performs(Finish(f, v), v, e)
          \/ /\ Node[w.node].kind = "call"
             /\ IsDefinition(Node[w.node].name)
             /\ m = Invokes(NewFrame(Lookup(Node[w.node].name), w.done))
          \/ m = Waits(f)
      BY <2>3 DEF MoveOutOf
    <3>2. CASE (\E e : m = Fails(f, e)) \/ m = Waits(f)
      BY <3>2, PlacedMoves
    <3>3. \A v : SamePlace(f, Finish(f, v), S)
      BY <1>2, FinishNodes DEF SamePlace, AtWorkIn
    <3>4. CASE (\E v : m = GoesOn(Finish(f, v))) \/ \E v, e : m = Performs(Finish(f, v), v, e)
      BY <3>3, <3>4, PlacedMoves
    <3>5. CASE /\ Node[w.node].kind = "call"
               /\ IsDefinition(Node[w.node].name)
               /\ m = Invokes(NewFrame(Lookup(Node[w.node].name), w.done))
      <4> DEFINE n == w.node
                 x == Lookup(Node[n].name)
                 g == NewFrame(x, w.done)
      <4>1. n \in Nodes /\ Owner[n] = f.defn
        BY <1>2, InnerOK DEF BegunOK
      <4>2. Node[n].kind = "call"
        BY <3>5
      <4>3. x \in Callees(f.defn)
        BY <3>5, <4>1, <4>2 DEF Callees, AllExprsOf
      <4>4. g.defn = x /\ g.phase = "pre"
        BY DEF NewFrame
      <4>5. m = Invokes(g)
        BY <3>5
      <4> HIDE DEF g, x, w
      <4>6. QED
        BY <4>3, <4>4, <4>5, PlacedMoves
    <3>6. QED
      BY <3>1, <3>2, <3>4, <3>5
  <2>4. QED
    BY <2>1, <2>2, <2>3
<1>3. CASE f.focus = NoNode /\ f.work = <<>> /\ f.given # NoValue
  <2>1. m = MoveAfter(f)
    BY <1>3 DEF Move
  <2>2. CASE InClauses(f)
    <3> DEFINE s == IF f.phase = "guard" /\ Truthy(f.given) THEN f.satisfied \union {f.at} ELSE f.satisfied
               g == [f EXCEPT !.given = NoValue, !.at = NextClause(f), !.satisfied = s]
    <3>1. m = GoesOn(g) \/ m = Fails(f, "Contract")
      BY <2>1, <2>2 DEF MoveAfter
    <3> HIDE DEF s
    <3>2. g.phase = f.phase /\ g.defn = f.defn /\ f.phase # "branch"
      BY <2>2 DEF FrameOK, InClauses, ClausePhases
    <3> HIDE DEF g
    <3>3. SamePlace(f, g, S)
      BY <3>2 DEF SamePlace
    <3>4. QED
      BY <3>1, <3>3, PlacedMoves
  <2>3. CASE ~InClauses(f) /\ f.phase = "body"
    <3> DEFINE p == IF f.given = Bottom THEN "return" ELSE "post"
               g == [f EXCEPT !.phase = p, !.at = 1, !.given = NoValue, !.result = f.given]
    <3>1. m = GoesOn(g)
      BY <2>1, <2>3 DEF MoveAfter
    <3>2. p # "branch"
      OBVIOUS
    <3> HIDE DEF p
    <3>3. g.phase = p /\ g.defn = f.defn
      BY DEF FrameOK
    <3> HIDE DEF g
    <3>4. SamePlace(f, g, S)
      BY <2>3, <3>2, <3>3 DEF SamePlace
    <3>5. QED
      BY <3>1, <3>4, PlacedMoves
  <2>4. CASE ~InClauses(f) /\ f.phase # "body"
    <3>1. m = Ends(f, f.given) \/ m = Waits(f)
      BY <2>1, <2>4 DEF MoveAfter
    <3>2. QED
      BY <3>1, PlacedMoves
  <2>5. QED
    BY <2>2, <2>3, <2>4
<1>4. CASE f.focus = NoNode /\ f.work = <<>> /\ f.given = NoValue
  <2>1. m = MoveOn(f)
    BY <1>4 DEF Move
  <2>2. CASE InClauses(f)
    <3> DEFINE l == IF f.phase = "post" THEN [f.locals EXCEPT !["result"] = f.result] ELSE f.locals
               g == [f EXCEPT !.focus = Clause(f), !.locals = l]
               h == [f EXCEPT !.at = NextClause(f), !.satisfied = @ \union {f.at}]
    <3>1. m = GoesOn(g) \/ m = GoesOn(h)
      BY <2>1, <2>2 DEF MoveOn
    <3> HIDE DEF l
    <3>2. /\ g.phase = f.phase /\ g.defn = f.defn /\ h.phase = f.phase /\ h.defn = f.defn
          /\ f.phase # "branch"
      BY <2>2 DEF FrameOK, InClauses, ClausePhases
    <3> HIDE DEF g, h
    <3>3. SamePlace(f, g, S) /\ SamePlace(f, h, S)
      BY <3>2 DEF SamePlace
    <3>4. QED
      BY <3>1, <3>3, PlacedMoves
  <2>3. CASE ~InClauses(f) /\ PastClauses(f)
    <3> DEFINE p == IF f.phase = "pre" THEN "guard" ELSE "return"
               c == Cheapest(f.defn, f.satisfied)
               n == Candidates[f.defn][c].body
               g == [f EXCEPT !.phase = p, !.at = 1]
               h == [f EXCEPT !.phase = "body", !.at = c, !.focus = n]
    <3>1. m = GoesOn(g) \/ m = GoesOn(h) \/ m = Fails(f, "Dispatch")
      BY <2>1, <2>3 DEF MoveOn
    <3>2. p # "branch" /\ f.phase # "branch"
      BY <2>3 DEF PastClauses, ClausePhases
    <3> HIDE DEF p, n, c
    <3>3. g.phase = p /\ g.defn = f.defn /\ h.phase = "body" /\ h.defn = f.defn
      BY DEF FrameOK
    <3> HIDE DEF g, h
    <3>4. SamePlace(f, g, S) /\ SamePlace(f, h, S)
      BY <3>2, <3>3 DEF SamePlace
    <3>5. QED
      BY <3>1, <3>4, PlacedMoves
  <2>4. CASE ~InClauses(f) /\ ~PastClauses(f)
    <3>1. m = Returns(f) \/ m = Waits(f)
      BY <2>1, <2>4 DEF MoveOn
    <3>2. QED
      BY <3>1, PlacedMoves
  <2>5. QED
    BY <2>2, <2>3, <2>4
<1>5. QED
  BY <1>1, <1>2, <1>3, <1>4

\* Every frame of the stack s, d deep, is in a definition that as many calls lead to as it
\* has below it, and the frame of a branch in S.
Located(s, d, S) ==
    \A i \in 1..Len(s) :
        /\ d - i \in Nat /\ s[i].defn \in CalledWithin[d - i]
        /\ s[i].phase = "branch" => AtWorkIn(s[i], S)

LocatedIn(I, S) == Located(I.stack, I.depth, S)

\* A new innermost frame, where the old one is.
LEMMA LocatedTop ==
    ASSUME NEW S, NEW s, IsSeq(s), s # <<>>, NEW d, Located(s, d, S), NEW g, SamePlace(s[1], g, S)
    PROVE  Located(<<g>> \o Tail(s), d, S)
<1> DEFINE r == <<g>> \o Tail(s)
<1>1. /\ Len(r) = Len(s) /\ r[1] = g /\ Len(s) \in Nat \ {0}
      /\ \A i \in 2..Len(s) : r[i] = s[i]
  BY Replaced
<1> HIDE DEF r
<1>2. ASSUME NEW i \in 1..Len(r)
      PROVE  /\ d - i \in Nat /\ r[i].defn \in CalledWithin[d - i]
             /\ r[i].phase = "branch" => AtWorkIn(r[i], S)
  <2>1. /\ i \in 1..Len(s) /\ d - i \in Nat /\ s[i].defn \in CalledWithin[d - i]
        /\ s[i].phase = "branch" => AtWorkIn(s[i], S)
    BY <1>1 DEF Located
  <2>2. CASE i = 1
    BY <1>1, <2>1, <2>2 DEF SamePlace
  <2>3. CASE i # 1
    <3>1. r[i] = s[i]
      BY <1>1, <2>1, <2>3
    <3>2. QED
      BY <2>1, <3>1
  <2>4. QED
    BY <2>2, <2>3
<1>3. Located(r, d, S)
  BY <1>2 DEF Located
<1>4. QED
  BY <1>3 DEF r

\* A call.
LEMMA LocatedCall ==
    ASSUME NEW S, NEW s, IsSeq(s), s # <<>>, NEW d \in Nat, Located(s, d, S),
           NEW g, g.defn \in Callees(s[1].defn), g.phase # "branch"
    PROVE  Located(<<g>> \o s, d + 1, S)
<1> DEFINE r == <<g>> \o s
           e == d + 1
<1>1. r[1] = g /\ Len(s) \in Nat /\ Len(r) = Len(s) + 1
  BY Pushed
<1>2. \A i \in 2..Len(r) : i - 1 \in 1..Len(s) /\ r[i] = s[i - 1]
  BY Pushed
<1>3. 1 \in 1..Len(s)
  <2>1. Len(s) \in Nat \ {0}
    BY Popped
  <2>2. QED
    BY <2>1
<1>4. e - 1 = d /\ e \in Nat
  OBVIOUS
<1> HIDE DEF r
<1>5. ASSUME NEW i \in 1..Len(r)
      PROVE  /\ e - i \in Nat /\ r[i].defn \in CalledWithin[e - i]
             /\ r[i].phase = "branch" => AtWorkIn(r[i], S)
  <2>1. CASE i = 1
    <3>1. d - 1 \in Nat /\ s[1].defn \in CalledWithin[d - 1]
      BY <1>3 DEF Located
    <3> DEFINE k == d - 1
               x == s[1].defn
    <3>2. k \in Nat /\ x \in CalledWithin[k] /\ g.defn \in Callees(x) /\ k + 1 = d
      BY <3>1
    <3> HIDE DEF k, x
    <3>3. g.defn \in CalledWithin[k + 1]
      BY <3>2, CalledOnce
    <3>4. g.defn \in CalledWithin[d]
      BY <3>2, <3>3
    <3>5. r[i] = g /\ e - i = d
      BY <1>1, <1>4, <2>1
    <3>6. QED
      BY <3>4, <3>5
  <2>2. CASE i # 1
    <3>1. i \in 2..Len(r)
      BY <1>1, <2>2
    <3> DEFINE j == i - 1
    <3>2. j \in 1..Len(s) /\ r[i] = s[j]
      BY <1>2, <3>1
    <3>3. e - i = d - j
      OBVIOUS
    <3> HIDE DEF j, e
    <3>4. d - j \in Nat /\ s[j].defn \in CalledWithin[d - j] /\ (s[j].phase = "branch" => AtWorkIn(s[j], S))
      BY <3>2 DEF Located
    <3>5. QED
      BY <3>2, <3>3, <3>4
  <2>3. QED
    BY <2>1, <2>2
<1> HIDE DEF e
<1>6. Located(r, e, S)
  BY <1>5 DEF Located
<1>7. QED
  BY <1>6 DEF r, e

\* A return.
LEMMA LocatedReturn ==
    ASSUME NEW S, NEW s, IsSeq(s), s # <<>>, NEW d \in Nat, Located(s, d, S)
    PROVE  Located(Tail(s), d - 1, S)
<1> DEFINE r == Tail(s)
           e == d - 1
<1>1. /\ Len(s) \in Nat /\ Len(r) = Len(s) - 1
      /\ \A i \in 1..Len(r) : i + 1 \in 1..Len(s) /\ r[i] = s[i + 1]
  BY Popped
<1> HIDE DEF r
<1>2. ASSUME NEW i \in 1..Len(r)
      PROVE  /\ e - i \in Nat /\ r[i].defn \in CalledWithin[e - i]
             /\ r[i].phase = "branch" => AtWorkIn(r[i], S)
  <2> DEFINE j == i + 1
  <2>1. j \in 1..Len(s) /\ r[i] = s[j]
    BY <1>1
  <2>2. e - i = d - j
    BY <1>1
  <2> HIDE DEF j, e
  <2>3. d - j \in Nat /\ s[j].defn \in CalledWithin[d - j] /\ (s[j].phase = "branch" => AtWorkIn(s[j], S))
    BY <2>1 DEF Located
  <2>4. QED
    BY <2>1, <2>2, <2>3
<1> HIDE DEF e
<1>3. Located(r, e, S)
  BY <1>2 DEF Located
<1>4. QED
  BY <1>3 DEF r, e

\* The tree walker stays in the program.
LEMMA WalkLocated ==
    ASSUME NEW I, InterpOK(declared, I), I.outcome = NoOutcome, I.stack # <<>>, I.depth \in Nat,
           NEW S, LocatedIn(I, S)
    PROVE  LocatedIn(TreeWalk(I), S)
<1> DEFINE s == I.stack
           f == Head(s)
           m == Move(f, I.depth)
           rest == Tail(s)
<1>1. TreeWalk(I) = Moved(I, m)
  BY DEF TreeWalk
<1>2. /\ DOMAIN I = {"stack", "depth", "trace", "outcome"} /\ IsSeq(s) /\ f = s[1] /\ 1 \in 1..Len(s)
      /\ FrameOK(declared, f)
  <2>1. IsSeq(s) /\ DOMAIN I = {"stack", "depth", "trace", "outcome"}
    BY DEF InterpOK
  <2>2. Len(s) \in Nat \ {0} /\ f = s[1]
    BY <2>1, Popped
  <2>3. 1 \in 1..Len(s)
    BY <2>2
  <2>4. QED
    BY <2>1, <2>2, <2>3 DEF InterpOK
<1>3. f.phase = "branch" => AtWorkIn(f, S)
  BY <1>2 DEF LocatedIn, Located
<1>4. KeepsPlace(f, m, S)
  BY <1>2, <1>3, MovePlace
<1>5. m.does \in {"goes on", "performs", "invokes", "fails", "ends", "waits", "returns"}
  <2>1. CASE ~FrameShape(f)
    BY DEF Move, MoveInto, MoveOutOf, MoveAfter, MoveOn, GoesOn, Performs, Invokes, Fails, Ends, Waits, Returns
  <2>2. CASE FrameShape(f)
    BY <2>2, MoveShape DEF Proper
  <2>3. QED
    BY <2>1, <2>2
<1> HIDE DEF m
<1>6. CASE m.does = "goes on"
  <2> DEFINE J == [I EXCEPT !.stack = <<m.frame>> \o rest]
  <2>1. TreeWalk(I) = J
    BY <1>1, <1>6 DEF Moved
  <2>2. J.stack = <<m.frame>> \o rest /\ J.depth = I.depth
    BY <1>2
  <2> HIDE DEF J
  <2>3. SamePlace(s[1], m.frame, S)
    BY <1>2, <1>4, <1>6 DEF KeepsPlace
  <2>4. Located(<<m.frame>> \o rest, I.depth, S)
    BY <1>2, <2>3, LocatedTop DEF LocatedIn
  <2>5. QED
    BY <2>1, <2>2, <2>4 DEF LocatedIn
<1>7. CASE m.does = "performs"
  <2> DEFINE tr == [x \in Effects |-> IF x \in m.effects THEN Append(I.trace[x], m.what) ELSE I.trace[x]]
             J == [I EXCEPT !.stack = <<m.frame>> \o rest, !.trace = tr]
  <2>1. TreeWalk(I) = J
    BY <1>1, <1>7 DEF Moved
  <2> HIDE DEF tr
  <2>2. J.stack = <<m.frame>> \o rest /\ J.depth = I.depth
    BY <1>2
  <2> HIDE DEF J
  <2>3. SamePlace(s[1], m.frame, S)
    BY <1>2, <1>4, <1>7 DEF KeepsPlace
  <2>4. Located(<<m.frame>> \o rest, I.depth, S)
    BY <1>2, <2>3, LocatedTop DEF LocatedIn
  <2>5. QED
    BY <2>1, <2>2, <2>4 DEF LocatedIn
<1>8. CASE m.does = "invokes"
  <2> DEFINE J == [I EXCEPT !.stack = <<m.frame>> \o s, !.depth = I.depth + 1]
  <2>1. TreeWalk(I) = J
    BY <1>1, <1>8 DEF Moved
  <2>2. J.stack = <<m.frame>> \o s /\ J.depth = I.depth + 1
    BY <1>2
  <2> HIDE DEF J
  <2>3. m.frame.defn \in Callees(s[1].defn) /\ m.frame.phase # "branch"
    BY <1>2, <1>4, <1>8 DEF KeepsPlace
  <2>4. Located(<<m.frame>> \o s, I.depth + 1, S)
    BY <1>2, <2>3, LocatedCall DEF LocatedIn
  <2>5. QED
    BY <2>1, <2>2, <2>4 DEF LocatedIn
<1>9. ASSUME NEW o, TreeWalk(I) = Stopped(I, o)
      PROVE  LocatedIn(TreeWalk(I), S)
  <2> DEFINE J == Stopped(I, o)
  <2>1. J.stack = <<>>
    BY <1>2 DEF Stopped
  <2> HIDE DEF J
  <2>2. LocatedIn(J, S)
    BY <2>1, EmptyShape DEF LocatedIn, Located
  <2>3. QED
    BY <1>9, <2>2 DEF J
<1>10. CASE m.does \in {"fails", "ends"} \/ (m.does = "returns" /\ rest = <<>>)
  <2>1. \E o : TreeWalk(I) = Stopped(I, o)
    BY <1>1, <1>10 DEF Moved
  <2>2. QED
    BY <1>9, <2>1
<1>11. CASE m.does = "returns" /\ rest # <<>>
  <2> DEFINE g == Finish(Head(rest), m.what)
             J == [I EXCEPT !.stack = <<g>> \o Tail(rest), !.depth = I.depth - 1]
  <2>1. TreeWalk(I) = J
    BY <1>1, <1>11 DEF Moved
  <2>2. J.stack = <<g>> \o Tail(rest) /\ J.depth = I.depth - 1
    BY <1>2
  <2> HIDE DEF J
  <2>3. IsSeq(rest) /\ rest # <<>> /\ Located(rest, I.depth - 1, S)
    BY <1>2, <1>11, Popped, LocatedReturn DEF LocatedIn
  <2>4. 2 \in 1..Len(s) /\ 2 \in 2..Len(s) /\ rest[1] = s[2] /\ 1 \in 1..Len(rest) /\ Head(rest) = rest[1]
    <3>1. Len(rest) \in Nat \ {0} /\ Head(rest) = rest[1]
      BY <2>3, Popped
    <3>2. Len(rest) = Len(s) - 1 /\ Len(s) \in Nat
      BY <1>2, Popped
    <3>3. \A i \in 1..Len(rest) : rest[i] = s[i + 1]
      BY <1>2, Popped
    <3> HIDE DEF s, rest
    <3>4. 1 \in 1..Len(rest) /\ 2 \in 1..Len(s) /\ 2 \in 2..Len(s)
      BY <3>1, <3>2
    <3>5. rest[1] = s[1 + 1]
      BY <3>3, <3>4
    <3>6. QED
      BY <3>1, <3>4, <3>5
  <2>5. FrameOK(declared, rest[1]) /\ rest[1].work # <<>>
    BY <2>4 DEF InterpOK
  <2>6. rest[1].phase = "branch" => AtWorkIn(rest[1], S)
    BY <2>3, <2>4 DEF Located
  <2>7. SamePlace(rest[1], g, S)
    BY <2>4, <2>5, <2>6, FinishNodes DEF SamePlace, AtWorkIn
  <2> HIDE DEF g
  <2>8. Located(<<g>> \o Tail(rest), I.depth - 1, S)
    BY <2>3, <2>7, LocatedTop
  <2>9. QED
    BY <2>1, <2>2, <2>8 DEF LocatedIn
<1>12. CASE m.does = "waits"
  BY <1>1, <1>12 DEF Moved
<1>13. QED
  BY <1>5, <1>6, <1>7, <1>8, <1>10, <1>11, <1>12

-----------------------------------------------------------------------------
(***************************************************************************)
(* The invariant: every task is where its depth and its part say, and a    *)
(* task with branches waits in a concatenation that may run in parallel.   *)
(***************************************************************************)

\* What a branch evaluates until it makes a call.
PartOf(t) == IF t = <<>> THEN {} ELSE Subtree[PartAt(t, Len(t))]

PlaceInv ==
    Working => \A t \in Tasks :
        LocatedIn(task[t], PartOf(t)) /\ (Kids(t) # {} => ShouldParallelize(Parts(t)))

\* Places depend on the program and its entry only.
LEMMA SamePlaces ==
    ASSUME UNCHANGED <<declared, entry>>
    PROVE  /\ \A I, S : LocatedIn(I, S)' <=> LocatedIn(I, S)
           /\ \A ns : ShouldParallelize(ns)' <=> ShouldParallelize(ns)
<1>1. CalledWithin' = CalledWithin
  BY DEF CalledWithin
<1>2. \A s, d, S : Located(s, d, S)' <=> Located(s, d, S)
  BY <1>1 DEF Located
<1>3. \A I, S : LocatedIn(I, S)' <=> LocatedIn(I, S)
  BY <1>2 DEF LocatedIn
<1>4. \A ns : ShouldParallelize(ns)' <=> ShouldParallelize(ns)
  BY SameDeclared DEF ShouldParallelize
<1>5. QED
  BY <1>3, <1>4

\* The part of a task, while the task above waits.
LEMMA SamePart ==
    ASSUME Inv, NEW u \in Tasks,
           u # <<>> => task'[Above(u, Len(u) - 1)] = task[Above(u, Len(u) - 1)]
    PROVE  PartOf(u)' = PartOf(u)
<1>1. u # <<>> => Top(Above(u, Len(u) - 1))' = Top(Above(u, Len(u) - 1))
  BY DEF Top
<1>2. u # <<>> => PartAt(u, Len(u))' = PartAt(u, Len(u))
  BY <1>1 DEF PartAt
<1>3. QED
  BY <1>2 DEF PartOf

\* A path that is not the root's has a last step.
LEMMA LastStep ==
    ASSUME Inv, NEW u \in Tasks, u # <<>>
    PROVE  Len(u) \in Nat \ {0} /\ Len(u) \in 1..Len(u) /\ Above(u, Len(u) - 1) \in Tasks
<1>1. u \in Seq(Nat)
  BY DEF Inv, Paths
<1>2. Len(u) \in Nat \ {0}
  BY <1>1
<1>3. Len(u) \in 1..Len(u)
  BY <1>2
<1>4. WaitingAt(Above(u, Len(u) - 1), u[Len(u)])
  BY <1>3 DEF Inv, Paths
<1>5. QED
  BY <1>2, <1>3, <1>4 DEF WaitingAt

\* A task changes, and its branches, if it had any, go.
LEMMA PlaceChange ==
    ASSUME Inv, PlaceInv, Working, NEW t \in Tasks, AllEnded(t),
           NEW interp, LocatedIn(interp, PartOf(t)),
           task' = [u \in Tasks \ Kids(t) |-> IF u = t THEN interp ELSE task[u]],
           UNCHANGED <<declared, entry, mode, expected>>
    PROVE  PlaceInv'
<1> DEFINE T == Tasks \ Kids(t)
<1>1. /\ T \in SUBSET Tasks /\ t \in T /\ <<>> \in T
      /\ \A k \in T : \A l \in 1..Len(k) : Above(k, l - 1) \in T \ {t}
  BY RemainingOK
<1>2. Tasks' = T
  BY DEF Tasks
<1>3. \A u \in T : task'[u] = IF u = t THEN interp ELSE task[u]
  OBVIOUS
<1>4. ASSUME NEW u \in T
      PROVE  PartOf(u)' = PartOf(u)
  <2>1. u \in Tasks
    BY <1>1
  <2>2. ASSUME u # <<>>
        PROVE  task'[Above(u, Len(u) - 1)] = task[Above(u, Len(u) - 1)]
    <3>1. Len(u) \in 1..Len(u)
      BY <2>1, <2>2, LastStep
    <3>2. Above(u, Len(u) - 1) \in T \ {t}
      BY <1>1, <3>1
    <3>3. QED
      BY <1>3, <3>2
  <2>3. QED
    BY <2>1, <2>2, SamePart
<1>5. ASSUME NEW u \in T
      PROVE  LocatedIn(task'[u], PartOf(u))
  <2>1. CASE u = t
    BY <1>3, <2>1
  <2>2. CASE u # t
    BY <1>1, <1>3, <2>2 DEF PlaceInv
  <2>3. QED
    BY <2>1, <2>2
<1>6. ASSUME NEW u \in T, Kids(u)' # {}
      PROVE  ShouldParallelize(Parts(u)')
  <2>1. Kids(u)' = {k \in T : Len(k) = Len(u) + 1 /\ SubSeq(k, 1, Len(u)) = u}
    BY <1>2 DEF Kids
  <2>2. Kids(u)' = Kids(u) \ Kids(t)
    BY <2>1 DEF Kids
  <2>3. u # t /\ Kids(u) # {}
    BY <1>6, <2>2
  <2>4. ShouldParallelize(Parts(u))
    BY <1>1, <2>3 DEF PlaceInv
  <2>5. Parts(u)' = Parts(u)
    BY <1>3, <2>3 DEF Top, Parts
  <2>6. QED
    BY <2>4, <2>5
<1>7. ASSUME NEW u \in T
      PROVE  LocatedIn(task[u], PartOf(u))' /\ (Kids(u)' # {} => ShouldParallelize(Parts(u))')
  <2>1. LocatedIn(task[u], PartOf(u))'
    BY <1>4, <1>5, SamePlaces
  <2>2. Kids(u)' # {} => ShouldParallelize(Parts(u))'
    BY <1>6, SamePlaces
  <2>3. QED
    BY <2>1, <2>2
<1>8. \A u \in Tasks' : LocatedIn(task[u], PartOf(u))' /\ (Kids(u)' # {} => ShouldParallelize(Parts(u))')
  BY <1>2, <1>7
<1>9. QED
  BY <1>8 DEF PlaceInv

\* A step of the tree walker in a task.
LEMMA PlaceWalk ==
    ASSUME Inv, DepthInv, AgreeInv, PlaceInv, NEW t \in Tasks, Step(t), ~Spawn(t), ~Join(t)
    PROVE  PlaceInv'
<1> DEFINE interp == task'[t]
           S == PartOf(t)
<1>1. /\ Working /\ ~Ended(t) /\ Kids(t) = {} /\ RunShape(task[t])
      /\ Seen(interp) = TreeWalk(task[t]) /\ task' = [task EXCEPT ![t] = interp]
      /\ UNCHANGED <<declared, entry, mode, expected>>
  BY StepWalks
<1>2. task[t].depth \in Nat
  BY AboveOK
<1>3. task[t].outcome = NoOutcome /\ task[t].stack # <<>> /\ InterpOK(declared, task[t])
  BY <1>1 DEF Inv, Ended
<1>4. LocatedIn(task[t], S)
  BY <1>1 DEF PlaceInv
<1>5. LocatedIn(TreeWalk(task[t]), S)
  <2> HIDE DEF S
  <2>1. QED
    BY <1>2, <1>3, <1>4, WalkLocated
<1>6. RunShape(Seen(interp))
  BY <1>1, WalkKeeps
<1>7. RunShape(interp)
  BY <1>6, SeenShape
<1>8. LocatedIn(interp, S)
  <2>1. CASE interp.outcome = NoOutcome
    BY <1>1, <1>5, <2>1 DEF Seen
  <2>2. CASE interp.outcome # NoOutcome
    <3>1. Seen(interp).stack = interp.stack /\ Seen(interp).depth = 0
      BY <1>7, <2>2 DEF Seen, RunShape
    <3>2. Located(interp.stack, 0, S)
      BY <1>1, <1>5, <3>1 DEF LocatedIn
    <3> HIDE DEF interp, S
    <3>3. ASSUME NEW i \in 1..Len(interp.stack)
          PROVE  FALSE
      <4>1. 0 - i \in Nat
        BY <3>2 DEF Located
      <4>2. QED
        BY <4>1
    <3>4. QED
      BY <3>3 DEF LocatedIn, Located
  <2>3. QED
    BY <2>1, <2>2
<1>9. task' = [u \in Tasks \ Kids(t) |-> IF u = t THEN interp ELSE task[u]]
  BY <1>1 DEF Tasks
<1>10. AllEnded(t)
  BY <1>1 DEF AllEnded
<1> HIDE DEF interp
<1>11. QED
  BY <1>1, <1>8, <1>9, <1>10, PlaceChange

\* A join.
LEMMA PlaceJoin ==
    ASSUME Inv, DepthInv, AgreeInv, PlaceInv, NEW t \in Tasks, Join(t)
    PROVE  PlaceInv'
<1> DEFINE interp == AfterJoin(t)
           S == PartOf(t)
           s == task[t].stack
<1>1. /\ ~Ended(t) /\ Kids(t) # {} /\ AllEnded(t) /\ UNCHANGED <<declared, entry, mode, expected>>
      /\ task' = [u \in Tasks \ Kids(t) |-> IF u = t THEN interp ELSE task[u]]
      /\ Working /\ Paused(task[t])
  BY JoinReady
<1>2. DOMAIN task[t] = {"stack", "depth", "trace", "outcome"}
  BY <1>1 DEF Paused, RunShape
<1>3. /\ IsSeq(s) /\ s # <<>> /\ Top(t) = s[1] /\ FrameOK(declared, Top(t))
  <2>1. IsSeq(s) /\ s # <<>> /\ \A i \in 1..Len(s) : FrameOK(declared, s[i])
    BY <1>1 DEF Inv, InterpOK
  <2>2. Len(s) \in Nat \ {0} /\ Head(s) = s[1]
    BY <2>1, Popped
  <2>3. 1 \in 1..Len(s)
    BY <2>2
  <2>4. QED
    BY <2>1, <2>2, <2>3 DEF Top
<1>4. Located(s, task[t].depth, S)
  BY <1>1 DEF PlaceInv, LocatedIn
<1>5. LocatedIn(interp, S)
  <2>1. CASE Failed(t) = {}
    <3> DEFINE v == Text([i \in 1..Cardinality(Kids(t)) |-> task[Append(t, i)].outcome.what])
               g == Give(Top(t), v)
    <3>1. interp.stack = <<g>> \o Tail(s) /\ interp.depth = task[t].depth
      BY <1>2, <2>1 DEF AfterJoin
    <3> HIDE DEF v, interp, S
    <3>2. Top(t).phase = "branch" => AtWorkIn(Top(t), S)
      <4>1. 1 \in 1..Len(s)
        BY <1>3, Popped
      <4>2. QED
        BY <1>3, <1>4, <4>1 DEF Located
    <3>3. SamePlace(s[1], g, S)
      BY <1>3, <3>2, GiveNodes DEF SamePlace, AtWorkIn
    <3> HIDE DEF g, s
    <3>4. Located(<<g>> \o Tail(s), task[t].depth, S)
      BY <1>3, <1>4, <3>3, LocatedTop
    <3>5. QED
      BY <3>1, <3>4 DEF LocatedIn
  <2>2. CASE Failed(t) # {}
    <3>1. interp.stack = <<>>
      BY <1>2, <2>2 DEF AfterJoin
    <3> HIDE DEF interp
    <3>2. QED
      BY <3>1, EmptyShape DEF LocatedIn, Located
  <2>3. QED
    BY <2>1, <2>2
<1> HIDE DEF interp
<1>6. QED
  BY <1>1, <1>5, PlaceChange

\* A branch begins in its part.
LEMMA BranchPlaced ==
    ASSUME NEW f, FrameOK(declared, f), NEW n \in Nodes, NEW d, d - 1 \in Nat, f.defn \in CalledWithin[d - 1]
    PROVE  Located(<<BranchFrame(f, n)>>, d, Subtree[n])
<1> DEFINE g == BranchFrame(f, n)
           a == Allowed(f)
           s == <<g>>
<1>1. g = [f EXCEPT !.phase = "branch", !.allowed = a, !.focus = n, !.work = <<>>]
  BY DEF BranchFrame
<1> HIDE DEF a
<1>2. g.defn = f.defn /\ g.phase = "branch" /\ g.focus = n /\ g.work = <<>>
  BY <1>1 DEF FrameOK
<1> HIDE DEF g
<1>3. NodesOf(g) \subseteq {n}
  BY <1>2, EmptyShape DEF NodesOf
<1>4. AtWorkIn(g, Subtree[n])
  BY <1>3 DEF AtWorkIn
<1>5. 1..Len(s) = {1} /\ s[1] = g
  BY OneFrame
<1> HIDE DEF s
<1>6. Located(s, d, Subtree[n])
  BY <1>2, <1>4, <1>5 DEF Located
<1>7. QED
  BY <1>6 DEF s, g

\* A spawn.
LEMMA PlaceSpawn ==
    ASSUME Inv, DepthInv, AgreeInv, PlaceInv, NEW t \in Tasks, Spawn(t)
    PROVE  PlaceInv'
<1> DEFINE f == Top(t)
           parts == Parts(t)
           kids == {Append(t, i) : i \in 1..Len(parts)}
           new(p) == Interp(<<BranchFrame(f, p)>>, task[t].depth)
<1>1. /\ Evaluating(t, {"concat"}) /\ ShouldParallelize(parts)
      /\ task' = [u \in Tasks \union kids |-> IF u \in kids THEN new(parts[u[Len(u)]]) ELSE task[u]]
      /\ UNCHANGED <<declared, entry, mode, printed, expected>>
  BY DEF Spawn, RunsInParallel, BranchDepth, Parts
<1>2. /\ Active(t) /\ f.focus \in Nodes /\ Kids(t) = {} /\ ~Ended(t) /\ FrameOK(declared, f)
      /\ Working /\ Paths /\ f = task[t].stack[1] /\ 1 \in 1..Len(task[t].stack)
  BY <1>1, FocusOK, ActiveOK DEF Inv
<1>3. t \in Seq(Nat) /\ Len(parts) \in Nat /\ \A i \in 1..Len(parts) : parts[i] \in Nodes
  BY <1>2, PartsAreNodes DEF Paths, Parts
<1>4. Tasks' = Tasks \union kids
  BY <1>1 DEF Tasks
<1>5. /\ \A u \in kids : u \notin Tasks /\ Kids(u)' = {}
      /\ Kids(t)' = kids
      /\ \A p \in Tasks : p # t => Kids(p)' = Kids(p)
  <2> HIDE DEF kids, parts
  <2>1. kids = {Append(t, i) : i \in 1..Len(parts)}
    BY DEF kids
  <2>2. QED
    BY <1>2, <1>3, <1>4, <2>1, SpawnedPaths
<1>6. \A u \in Tasks : task'[u] = task[u]
  <2> HIDE DEF kids, new
  <2>1. QED
    BY <1>1, <1>5
<1>7. /\ task[t].depth - 1 \in Nat /\ f.defn \in CalledWithin[task[t].depth - 1]
  BY <1>2 DEF PlaceInv, LocatedIn, Located
<1>8. \A u \in Tasks : Top(u)' = Top(u) /\ Parts(u)' = Parts(u)
  BY <1>6 DEF Top, Parts
<1>9. ASSUME NEW i \in 1..Len(parts)
      PROVE  LocatedIn(task'[Append(t, i)], PartOf(Append(t, i))')
  <2> DEFINE u == Append(t, i)
             n == parts[i]
  <2>1. u \in kids
    OBVIOUS
  <2>2. u[Len(u)] = i /\ Above(u, Len(t)) = t /\ Len(u) = Len(t) + 1 /\ Len(t) \in Nat
    BY <1>3, BranchPath
  <2>3. u # <<>> /\ Len(u) - 1 = Len(t)
    BY <2>2
  <2> HIDE DEF u
  <2>4. PartOf(u)' = Subtree[n]
    <3>1. Top(Above(u, Len(u) - 1))' = Top(t)
      BY <1>8, <2>2, <2>3
    <3>2. PartAt(u, Len(u))' = n
      BY <2>2, <3>1 DEF PartAt, Parts
    <3>3. QED
      BY <2>3, <3>2 DEF PartOf
  <2>5. task'[u] = new(n)
    <3> HIDE DEF new, kids
    <3>1. QED
      BY <1>1, <2>1, <2>2, <1>4
  <2>6. Located(<<BranchFrame(f, n)>>, task[t].depth, Subtree[n])
    <3>1. n \in Nodes
      BY <1>3
    <3> HIDE DEF f, n
    <3>2. QED
      BY <1>2, <1>7, <3>1, BranchPlaced
  <2>7. new(n).stack = <<BranchFrame(f, n)>> /\ new(n).depth = task[t].depth
    BY DEF Interp
  <2> HIDE DEF n, f, new
  <2>8. QED
    BY <2>4, <2>5, <2>6, <2>7 DEF LocatedIn, u
<1>10. ASSUME NEW u \in Tasks
       PROVE  LocatedIn(task'[u], PartOf(u)')
  <2>1. u # <<>> => Above(u, Len(u) - 1) \in Tasks
    BY LastStep
  <2>2. PartOf(u)' = PartOf(u)
    BY <1>6, <2>1, SamePart
  <2>3. QED
    BY <1>2, <1>6, <2>2 DEF PlaceInv
<1>11. \A u \in Tasks' : LocatedIn(task[u], PartOf(u))'
  <2>1. \A u \in kids : LocatedIn(task'[u], PartOf(u)')
    BY <1>9
  <2> HIDE DEF kids
  <2>2. \A u \in Tasks \union kids : LocatedIn(task'[u], PartOf(u)')
    BY <1>10, <2>1
  <2>3. QED
    BY <1>1, <1>4, <2>2, SamePlaces
<1>12. \A u \in Tasks' : Kids(u)' # {} => ShouldParallelize(Parts(u))'
  <2> HIDE DEF kids
  <2> SUFFICES ASSUME NEW u \in Tasks \union kids, Kids(u)' # {}
               PROVE  ShouldParallelize(Parts(u)')
    BY <1>1, <1>4, SamePlaces
  <2>1. u \in Tasks
    BY <1>5
  <2>2. CASE u = t
    BY <1>1, <1>8, <2>2
  <2>3. CASE u # t
    BY <1>2, <1>5, <1>8, <2>1, <2>3 DEF PlaceInv
  <2>4. QED
    BY <2>2, <2>3
<1>13. QED
  BY <1>11, <1>12 DEF PlaceInv

\* The two runs of the program begin at the entry.
LEMMA PlaceStart ==
    ASSUME Load \/ RunAgain
    PROVE  PlaceInv'
<1> SUFFICES ASSUME Working'
             PROVE  (\A t \in Tasks :
                       LocatedIn(task[t], PartOf(t)) /\ (Kids(t) # {} => ShouldParallelize(Parts(t))))'
  BY DEF PlaceInv
<1>1. task' = [t \in {<<>>} |-> EntryInterp] /\ UNCHANGED <<declared, entry>>
  BY DEF Load, RunAgain, Working
<1>2. Tasks' = {<<>>} /\ task'[<<>>] = EntryInterp
  BY <1>1 DEF Tasks
<1>3. Kids(<<>>)' = {}
  <2>1. Kids(<<>>)' = {u \in {<<>>} : Len(u) = Len(<<>>) + 1 /\ SubSeq(u, 1, Len(<<>>)) = <<>>}
    BY <1>2 DEF Kids
  <2>2. Len(<<>>) # Len(<<>>) + 1
    OBVIOUS
  <2>3. QED
    BY <2>1, <2>2
<1>4. ASSUME NEW S
      PROVE  LocatedIn(EntryInterp, S)
  <2>1. CASE entry.name \in DOMAIN Symbols
    <3> DEFINE g == NewFrame(Symbols[entry.name], entry.args)
               s == <<g>>
    <3>1. EntryInterp.stack = s /\ EntryInterp.depth = 1
      BY <2>1 DEF EntryInterp, Interp
    <3>2. g.defn = Symbols[entry.name] /\ g.phase # "branch"
      BY DEF NewFrame
    <3> HIDE DEF g
    <3>3. 1..Len(s) = {1} /\ s[1] = g
      BY OneFrame
    <3> HIDE DEF s
    <3>4. 1 - 1 \in Nat /\ 1 - 1 = 0
      OBVIOUS
    <3>5. g.defn \in CalledWithin[0]
      BY <3>2, CalledWithinOf
    <3>6. Located(s, 1, S)
      BY <3>2, <3>3, <3>4, <3>5 DEF Located
    <3>7. QED
      BY <3>1, <3>6 DEF LocatedIn
  <2>2. CASE entry.name \notin DOMAIN Symbols
    <3>1. EntryInterp.stack = <<>>
      BY <2>2 DEF EntryInterp, Interp
    <3>2. QED
      BY <3>1, EmptyShape DEF LocatedIn, Located
  <2>3. QED
    BY <2>1, <2>2
<1>5. LocatedIn(task[<<>>], PartOf(<<>>))'
  <2>1. LocatedIn(task'[<<>>], PartOf(<<>>)')
    BY <1>2, <1>4
  <2>2. QED
    BY <1>1, <2>1, SamePlaces
<1>6. QED
  BY <1>2, <1>3, <1>5

\* Any step of a task.
LEMMA PlaceStep ==
    ASSUME Inv, DepthInv, AgreeInv, PlaceInv, NEW t \in Tasks, Step(t)
    PROVE  PlaceInv'
<1>1. CASE Spawn(t)
  BY <1>1, PlaceSpawn
<1>2. CASE Join(t)
  BY <1>2, PlaceJoin
<1>3. CASE ~Spawn(t) /\ ~Join(t)
  BY <1>3, PlaceWalk
<1>4. QED
  BY <1>1, <1>2, <1>3

\* A step that changes nothing.
LEMMA PlaceStutter ==
    ASSUME PlaceInv, UNCHANGED vars
    PROVE  PlaceInv'
<1>1. UNCHANGED <<declared, entry, mode, task>>
  BY DEF vars
<1>2. /\ Tasks' = Tasks /\ Working' = Working
      /\ \A t : Kids(t)' = Kids(t) /\ Top(t)' = Top(t) /\ Parts(t)' = Parts(t)
  BY <1>1 DEF Tasks, Working, Kids, Top, Parts
<1>3. \A t : PartOf(t)' = PartOf(t)
  <2>1. \A t, k : PartAt(t, k)' = PartAt(t, k)
    BY <1>2 DEF PartAt
  <2>2. QED
    BY <2>1 DEF PartOf
<1>4. \A t : LocatedIn(task[t], PartOf(t))' <=> LocatedIn(task[t], PartOf(t))
  BY <1>1, <1>3, SamePlaces
<1>5. \A t : ShouldParallelize(Parts(t))' <=> ShouldParallelize(Parts(t))
  BY <1>1, <1>2, SamePlaces
<1>6. QED
  BY <1>2, <1>4, <1>5 DEF PlaceInv

\* The invariant holds.
LEMMA Placement == Spec => []PlaceInv
<1>1. Init => PlaceInv
  BY DEF Init, PlaceInv, Working
<1>2. Inv /\ DepthInv /\ AgreeInv /\ PlaceInv /\ [Next]_vars => PlaceInv'
  <2> SUFFICES ASSUME Inv, DepthInv, AgreeInv, PlaceInv, [Next]_vars
               PROVE  PlaceInv'
    OBVIOUS
  <2>1. CASE Load \/ RunAgain
    BY <2>1, PlaceStart
  <2>2. ASSUME NEW t \in Tasks, Step(t)
        PROVE  PlaceInv'
    BY <2>2, PlaceStep
  <2>3. CASE UNCHANGED vars
    BY <2>3, PlaceStutter
  <2>4. QED
    BY <2>1, <2>2, <2>3 DEF Next, Work, Rest
<1>3. QED
  BY <1>1, <1>2, Invariance, DepthInvariance, Agreement, PTL DEF Spec

-----------------------------------------------------------------------------
(***************************************************************************)
(* What a step prints, its definition or its part has declared.            *)
(***************************************************************************)

\* The task above waits at a concatenation.
LEMMA AboveWaits ==
    ASSUME Inv, DepthInv, AgreeInv, Working, NEW t \in Tasks, t # <<>>
    PROVE  \A p \in {Above(t, Len(t) - 1)} :
              /\ p \in Tasks /\ Kids(p) # {} /\ Family(p)
              /\ Top(p).focus \in Nodes /\ Owner[Top(p).focus] = Top(p).defn
              /\ Top(p) = task[p].stack[1] /\ 1 \in 1..Len(task[p].stack)
              /\ t[Len(t)] \in 1..Len(Parts(p)) /\ PartAt(t, Len(t)) = Parts(p)[t[Len(t)]]
<1> DEFINE p == Above(t, Len(t) - 1)
<1>1. t \in Seq(Nat) /\ Len(t) \in Nat \ {0} /\ Len(t) \in 1..Len(t) /\ p \in Tasks
  BY LastStep DEF Inv, Paths
<1>2. Len(t) - 1 \in 0..Len(t)
  BY <1>1
<1>3. Len(p) = Len(t) - 1
  BY <1>1, <1>2, AbovePath
<1>4. Len(t) = Len(p) + 1 /\ SubSeq(t, 1, Len(p)) = p
  BY <1>1, <1>3 DEF Above
<1>5. t \in Kids(p)
  BY <1>4 DEF Kids
<1>6. WaitingAt(p, t[Len(t)]) /\ Family(p)
  BY <1>1, <1>5 DEF Inv, Paths, AgreeInv, AllFamilies
<1>7. PartAt(t, Len(t)) = Parts(p)[t[Len(t)]]
  BY DEF PartAt, Parts
<1> HIDE DEF p
<1>8. Top(p).focus \in Nodes /\ t[Len(t)] \in 1..Len(Parts(p)) /\ ~Ended(p)
  BY <1>6 DEF WaitingAt, Parts
<1>9. /\ IsSeq(task[p].stack) /\ task[p].stack # <<>>
      /\ \A i \in 1..Len(task[p].stack) : FrameOK(declared, task[p].stack[i])
  BY <1>1, <1>8 DEF Inv, InterpOK
<1>10. Len(task[p].stack) \in Nat \ {0} /\ Top(p) = task[p].stack[1]
  BY <1>9, Popped DEF Top
<1>11. 1 \in 1..Len(task[p].stack)
  BY <1>10
<1>12. Owner[Top(p).focus] = Top(p).defn
  BY <1>8, <1>9, <1>10, <1>11, NodeAssumption DEF FrameOK
<1>13. QED
  BY <1>1, <1>5, <1>6, <1>7, <1>8, <1>10, <1>11, <1>12 DEF p

\* A branch that performs an effect before it makes a call does so in its part.
LEMMA BranchPerforms ==
    ASSUME Inv, DepthInv, AgreeInv, PlaceInv, NEW t \in Tasks, NEW e, AboutToPerform(t, e),
           Top(t).phase = "branch"
    PROVE  PartsPerform
<1> DEFINE p == Above(t, Len(t) - 1)
           n == Top(p).focus
           w == Head(Top(t).work).node
           d == Top(p).defn
           m == PartAt(t, Len(t))
<1>1. Active(t) /\ Ready(t) /\ e \in EffectsOf(w)
  BY DEF AboutToPerform
<1>2. w \in Nodes /\ w \in NodesOf(Top(t)) /\ Working /\ Top(t) = task[t].stack[1] /\ 1 \in 1..Len(task[t].stack)
  BY <1>1, ReadyOK, ActiveOK DEF BegunOK
<1>3. t # <<>>
  BY <1>2, AboveOK DEF StackOK
<1>4. /\ p \in Tasks /\ Kids(p) # {} /\ Family(p) /\ n \in Nodes /\ Owner[n] = d
      /\ Top(p) = task[p].stack[1] /\ 1 \in 1..Len(task[p].stack)
      /\ t[Len(t)] \in 1..Len(Parts(p)) /\ m = Parts(p)[t[Len(t)]]
  BY <1>2, <1>3, AboveWaits
<1> HIDE DEF p, w, m
<1>5. Node[n].kind = "concat" /\ ShouldParallelize(Node[n].parts)
  BY <1>2, <1>4 DEF Family, PlaceInv, Parts
<1>6. AtWorkIn(Top(t), Subtree[m])
  BY <1>2, <1>3 DEF PlaceInv, LocatedIn, Located, PartOf, m
<1>7. w \in Subtree[n]
  <2>1. w \in Subtree[w] /\ Subtree[w] \subseteq Subtree[m]
    BY <1>2, <1>6, SubtreeParts DEF AtWorkIn
  <2>2. Subtree[m] \subseteq Subtree[n]
    BY <1>4, SubtreeParts DEF Parts
  <2>3. QED
    BY <2>1, <2>2
<1>8. task[p].depth \in 0..MaxDepth /\ MaxDepth \in Nat \ {0}
  BY <1>4, AboveOK
<1>9. task[p].depth - 1 \in Nat /\ d \in CalledWithin[task[p].depth - 1]
  BY <1>2, <1>4 DEF PlaceInv, LocatedIn, Located
<1> HIDE DEF n, d
<1>10. d \in CalledWithin[MaxDepth]
  <2> DEFINE k == task[p].depth - 1
  <2>1. k \in Nat /\ MaxDepth \in Nat /\ k <= MaxDepth /\ d \in CalledWithin[k]
    BY <1>8, <1>9
  <2> HIDE DEF k
  <2>2. QED
    BY <2>1, CalledMore
<1>11. n \in AllExprsOf(d)
  BY <1>4 DEF AllExprsOf
<1>12. QED
  BY <1>1, <1>5, <1>7, <1>10, <1>11 DEF PartsPerform

\* A step prints nothing, or what it was about to.
LEMMA PrintsOnce ==
    ASSUME Inv, NEW t \in Tasks, Step(t), ~Spawn(t), ~Join(t), IsSeq(printed)
    PROVE  \/ printed' = printed /\ task'[t].trace[Printing] = Lines(t)
           \/ /\ AboutToPerform(t, Printing)
              /\ \E v : printed' = Append(printed, v) /\ task'[t].trace[Printing] = Append(Lines(t), v)
<1>1. Prints(t)
  BY StepPrints
<1>2. CASE AboutToPerform(t, Printing)
  BY <1>1, <1>2 DEF Prints
<1>3. CASE ~AboutToPerform(t, Printing)
  <2>1. printed' = printed
    <3>1. CASE CallPrimitive(t)
      BY <1>3, <3>1 DEF CallPrimitive, AboutToPerform, FinishingPrimitive, Finishing
    <3>2. CASE ~CallPrimitive(t)
      BY <3>2 DEF Step, BeginClause, NoGuard, ClauseDecided, ClauseFails, ClausesPassed, Dispatch,
         DispatchFails, BodyEnds, EvalLeaf, Begin, CallRefused, EvalPart, FinishLast, FinishConcat,
         FieldMissing, PrimitiveRaises, CallDefinition, RecursionLimit, Return,
         ReturnToHost, BranchEnds, Become, Raise
    <3>3. QED
      BY <3>1, <3>2
  <2>2. ASSUME NEW v, printed' = Append(printed, v)
        PROVE  FALSE
    <3>1. Len(Append(printed, v)) = Len(printed) + 1 /\ Len(printed) \in Nat
      BY AppendedSeq
    <3>2. Len(printed) = Len(printed) + 1
      BY <2>1, <2>2, <3>1
    <3>3. QED
      BY <3>1, <3>2
  <2>3. QED
    BY <1>1, <2>1, <2>2 DEF Prints
<1>4. QED
  BY <1>2, <1>3

\* What a task prints, every part that leads to it has declared.
LEMMA PrintDeclared ==
    ASSUME Inv, DepthInv, AgreeInv, PlaceInv, ImportsDeclare, ~PartsPerform,
           NEW t \in Tasks, AboutToPerform(t, Printing), NEW k \in 1..Len(t)
    PROVE  Printing \in ExprEffects(PartAt(t, k))
<1>1. Top(t).phase # "branch"
  BY BranchPerforms
<1>2. QED
  BY <1>1, Declared

-----------------------------------------------------------------------------
(***************************************************************************)
(* The invariant: the lines of each task have places in their order, each  *)
(* line is some task's, what a task has printed came after what the tasks  *)
(* above it have, and only tasks whose parts declare it print.             *)
(***************************************************************************)
Ordered(places) == \A t \in Tasks : InOrder(printed, Lines(t), places[t])

Complete(places) == \A i \in 1..Len(printed) : \E t \in Tasks : i \in places[t]

Nested(places) == \A t \in Tasks : \A k \in 1..Len(t) : Before(places[Above(t, k - 1)], places[t])

Licensed(places) ==
    \A t \in Tasks : places[t] # {} => \A k \in 1..Len(t) : Printing \in ExprEffects(PartAt(t, k))

OrderAll(places) == Ordered(places) /\ Complete(places) /\ Nested(places) /\ Licensed(places)

\* No task has failed, imports declare what they call, and no part performs an effect itself.
Sheltered == Unfailed /\ ImportsDeclare /\ ~PartsPerform

InTheirOrder == \E places : OrderAll(places)

OrderInv == Working /\ Sheltered => InTheirOrder

\* The hypotheses depend on the program and its entry only.
LEMMA SameShelter ==
    ASSUME UNCHANGED <<declared, entry>>
    PROVE  ImportsDeclare' = ImportsDeclare /\ PartsPerform' = PartsPerform
<1>1. CalledWithin' = CalledWithin
  BY DEF CalledWithin
<1>2. PartsPerform' = PartsPerform
  BY <1>1, SamePlaces DEF PartsPerform
<1>3. QED
  BY <1>2, SameDeclared

\* What a part declares, while the task above waits.
LEMMA SameLicence ==
    ASSUME NEW t, NEW k, task'[Above(t, k - 1)] = task[Above(t, k - 1)], UNCHANGED declared
    PROVE  ExprEffects(PartAt(t, k))' = ExprEffects(PartAt(t, k))
<1>1. Top(Above(t, k - 1))' = Top(Above(t, k - 1))
  BY DEF Top
<1>2. PartAt(t, k)' = PartAt(t, k)
  BY <1>1 DEF PartAt
<1>3. QED
  BY <1>2, SameDeclared

\* A step of the tree walker in a task.
LEMMA OrderWalk ==
    ASSUME Inv, DepthInv, AgreeInv, PlaceInv, PrintInv, OrderInv,
           NEW t \in Tasks, Step(t), ~Spawn(t), ~Join(t)
    PROVE  OrderInv'
<1>1. /\ Active(t) /\ Working /\ ~Ended(t) /\ Kids(t) = {} /\ RunShape(task[t])
      /\ task' = [task EXCEPT ![t] = task'[t]] /\ UNCHANGED <<declared, entry, mode>>
  BY StepWalks
<1>2. Tasks' = Tasks /\ \A u \in Tasks : u # t => task'[u] = task[u]
  BY <1>1 DEF Tasks
<1>3. IsSeq(printed)
  BY DEF PrintInv
<1>4. ASSUME Unfailed'
      PROVE  Unfailed
  BY <1>1, <1>2, <1>4, OutcomeKinds DEF Unfailed, Ended
<1> SUFFICES ASSUME Sheltered'
             PROVE  InTheirOrder'
  BY DEF OrderInv
<1>5. Sheltered
  <2>1. ImportsDeclare' = ImportsDeclare /\ PartsPerform' = PartsPerform
    BY <1>1, SameShelter
  <2>2. Unfailed' /\ ImportsDeclare' /\ ~PartsPerform'
    BY DEF Sheltered
  <2>3. QED
    BY <1>4, <2>1, <2>2 DEF Sheltered
<1>6. PICK places : OrderAll(places)
  BY <1>1, <1>5 DEF OrderInv, InTheirOrder
<1>7. \A u \in Tasks : u # t => Lines(u)' = Lines(u)
  BY <1>2 DEF Lines
<1>8. \A u \in Tasks : \A k \in 1..Len(u) : Above(u, k - 1) \in Tasks /\ Above(u, k - 1) # t
  <2>1. Paths
    BY DEF Inv
  <2>2. \A u \in Tasks : \A k \in 1..Len(u) : Above(u, k - 1) \in Tasks
    BY <2>1 DEF Paths, WaitingAt
  <2>3. \A u \in Tasks : \A k \in 1..Len(u) : Above(u, k - 1) # t
    BY <1>1, <2>1, NoneBelow
  <2>4. QED
    BY <2>2, <2>3
<1>9. \A u \in Tasks : \A k \in 1..Len(u) : ExprEffects(PartAt(u, k))' = ExprEffects(PartAt(u, k))
  BY <1>1, <1>2, <1>8, SameLicence
<1>10. ASSUME printed' = printed, Lines(t)' = Lines(t)
       PROVE  OrderAll(places)'
  <2>1. \A u \in Tasks : Lines(u)' = Lines(u)
    BY <1>7, <1>10
  <2>2. Ordered(places)'
    BY <1>2, <1>6, <1>10, <2>1 DEF OrderAll, Ordered
  <2>3. Complete(places)'
    BY <1>2, <1>6, <1>10 DEF OrderAll, Complete
  <2>4. Nested(places)'
    BY <1>2, <1>6 DEF OrderAll, Nested
  <2>5. Licensed(places)'
    BY <1>2, <1>6, <1>9 DEF OrderAll, Licensed
  <2>6. QED
    BY <2>2, <2>3, <2>4, <2>5 DEF OrderAll
<1>11. ASSUME AboutToPerform(t, Printing),
              NEW v, printed' = Append(printed, v), Lines(t)' = Append(Lines(t), v)
       PROVE  \E more : OrderAll(more)'
  <2> DEFINE n == Len(printed) + 1
  <2>0. PICK more : more = [u \in Tasks |-> IF u = t THEN places[t] \union {n} ELSE places[u]]
    OBVIOUS
  <2>1. IsSeq(Lines(t))
    BY <1>1, EvaluatorAssumption DEF RunShape, TraceShape, Lines
  <2>2. \A u \in Tasks : InOrder(printed, Lines(u), places[u])
    BY <1>6 DEF OrderAll, Ordered
  <2>3. \A u \in Tasks : InOrder(Append(printed, v), Lines(u), places[u]) /\ Before(places[u], {n})
    BY <1>3, <2>2, OrderedBefore
  <2>4. InOrder(Append(printed, v), Append(Lines(t), v), places[t] \union {n})
    BY <1>3, <2>1, <2>2, OrderedNow
  <2>5. more[t] = places[t] \union {n} /\ \A u \in Tasks : u # t => more[u] = places[u]
    BY <2>0
  <2>6. Len(printed') = n /\ n - 1 = Len(printed) /\ n \in Nat \ {0}
    BY <1>3, <1>11, AppendedSeq
  <2> HIDE DEF n
  <2>7. Ordered(more)'
    <3>1. \A u \in Tasks : InOrder(printed', Lines(u)', more[u])
      BY <1>7, <1>11, <2>3, <2>4, <2>5
    <3>2. QED
      BY <1>2, <3>1 DEF Ordered
  <2>8. Complete(more)'
    <3>1. \A i \in 1..n : i = n \/ i \in 1..Len(printed)
      BY <2>6
    <3>2. \A i \in 1..Len(printed) : \E u \in Tasks : i \in places[u]
      BY <1>6 DEF OrderAll, Complete
    <3>3. \A i \in 1..n : \E u \in Tasks : i \in more[u]
      BY <2>5, <3>1, <3>2
    <3>4. QED
      BY <1>2, <2>6, <3>3 DEF Complete
  <2>9. Nested(more)'
    <3> SUFFICES ASSUME NEW u \in Tasks, NEW k \in 1..Len(u)
                 PROVE  Before(more[Above(u, k - 1)], more[u])
      BY <1>2 DEF Nested
    <3> DEFINE a == Above(u, k - 1)
    <3>1. a \in Tasks /\ a # t
      BY <1>8
    <3>2. Before(places[a], places[u])
      BY <1>6 DEF OrderAll, Nested
    <3>3. more[a] = places[a] /\ Before(places[a], {n})
      BY <2>3, <2>5, <3>1
    <3> HIDE DEF a
    <3>4. Before(more[a], more[u])
      <4>1. CASE u = t
        BY <2>5, <3>2, <3>3, <4>1 DEF Before
      <4>2. CASE u # t
        BY <2>5, <3>2, <3>3, <4>2
      <4>3. QED
        BY <4>1, <4>2
    <3>5. QED
      BY <3>4 DEF a
  <2>10. Licensed(more)'
    <3>1. ASSUME NEW u \in Tasks, more[u] # {}, NEW k \in 1..Len(u)
          PROVE  Printing \in ExprEffects(PartAt(u, k))
      <4>1. CASE u = t
        BY <1>5, <1>11, <4>1, PrintDeclared DEF Sheltered
      <4>2. CASE u # t
        BY <1>6, <2>5, <3>1, <4>2 DEF OrderAll, Licensed
      <4>3. QED
        BY <4>1, <4>2
    <3>2. \A u \in Tasks : more[u] # {} => \A k \in 1..Len(u) : Printing \in ExprEffects(PartAt(u, k))'
      BY <1>9, <3>1
    <3>3. QED
      BY <1>2, <3>2 DEF Licensed
  <2>11. OrderAll(more)'
    BY <2>7, <2>8, <2>9, <2>10 DEF OrderAll
  <2>12. QED
    BY <2>11
<1>12. \/ printed' = printed /\ Lines(t)' = Lines(t)
       \/ /\ AboutToPerform(t, Printing)
          /\ \E v : printed' = Append(printed, v) /\ Lines(t)' = Append(Lines(t), v)
  BY <1>3, PrintsOnce DEF Lines
<1>13. QED
  BY <1>10, <1>11, <1>12 DEF InTheirOrder

\* A spawn: the branches have no lines yet.
LEMMA OrderSpawn ==
    ASSUME Inv, OrderInv, NEW t \in Tasks, Spawn(t)
    PROVE  OrderInv'
<1> DEFINE kids == {Append(t, i) : i \in 1..Len(Parts(t))}
           new(u) == Interp(<<BranchFrame(Top(t), Parts(t)[u[Len(u)]])>>, task[t].depth)
<1>1. /\ task' = [u \in Tasks \union kids |-> IF u \in kids THEN new(u) ELSE task[u]]
      /\ UNCHANGED <<declared, entry, mode, printed>> /\ mode = "parallel" /\ Active(t)
  BY DEF Spawn, RunsInParallel, BranchDepth, Parts, Evaluating
<1>2. \A u : new(u).trace = Silence /\ new(u).outcome = NoOutcome
  BY DEF Interp
<1> HIDE DEF new
<1>3. \A u \in kids : u \notin Tasks
  <2>1. t \in Seq(Nat) /\ Kids(t) = {}
    BY <1>1, ActiveOK DEF Inv, Paths
  <2>2. SUFFICES ASSUME NEW i \in 1..Len(Parts(t)), Append(t, i) \in Tasks
                 PROVE  FALSE
    OBVIOUS
  <2>3. i \in Nat
    OBVIOUS
  <2>4. Len(Append(t, i)) = Len(t) + 1 /\ Above(Append(t, i), Len(t)) = t
    BY <2>1, <2>3, BranchPath
  <2>5. QED
    BY <2>1, <2>2, <2>4 DEF Kids, Above
<1> HIDE DEF kids
<1>4. Tasks' = Tasks \union kids /\ \A u \in Tasks : task'[u] = task[u]
  BY <1>1, <1>3 DEF Tasks
<1>5. \A u \in kids : task'[u].trace = Silence
  BY <1>1, <1>2
<1>6. \A u \in Tasks : Lines(u)' = Lines(u)
  BY <1>4 DEF Lines
<1>7. \A u \in kids : Lines(u)' = <<>>
  BY <1>5, EvaluatorAssumption DEF Lines, Silence
<1>8. Working
  BY <1>1 DEF Working
<1>9. Unfailed' => Unfailed
  BY <1>4 DEF Unfailed
<1> SUFFICES ASSUME Sheltered'
             PROVE  InTheirOrder'
  BY DEF OrderInv
<1>10. Sheltered
  <2>1. ImportsDeclare' = ImportsDeclare /\ PartsPerform' = PartsPerform
    BY <1>1, SameShelter
  <2>2. Unfailed' /\ ImportsDeclare' /\ ~PartsPerform'
    BY DEF Sheltered
  <2>3. QED
    BY <1>9, <2>1, <2>2 DEF Sheltered
<1>11. PICK places : OrderAll(places)
  BY <1>8, <1>10 DEF OrderInv, InTheirOrder
<1>12. PICK more : (\A u \in Tasks : more[u] = places[u]) /\ \A u \in kids : more[u] = {}
  <2> DEFINE m == [u \in Tasks \union kids |-> IF u \in Tasks THEN places[u] ELSE {}]
  <2>1. (\A u \in Tasks : m[u] = places[u]) /\ \A u \in kids : m[u] = {}
    BY <1>3
  <2>2. QED
    BY <2>1
<1>13. \A u \in Tasks : \A k \in 1..Len(u) : Above(u, k - 1) \in Tasks
  BY DEF Inv, Paths, WaitingAt
<1>14. Ordered(more)'
  <2>1. ASSUME NEW u \in Tasks
        PROVE  InOrder(printed, Lines(u)', more[u])
    BY <1>6, <1>11, <1>12 DEF OrderAll, Ordered
  <2>2. ASSUME NEW u \in kids
        PROVE  InOrder(printed, Lines(u)', more[u])
    <3>1. InOrder(printed, <<>>, {})
      BY OrderedNone
    <3>2. QED
      BY <1>7, <1>12, <3>1
  <2>3. \A u \in Tasks' : InOrder(printed', Lines(u)', more[u])
    BY <1>1, <1>4, <2>1, <2>2
  <2>4. QED
    BY <2>3 DEF Ordered
<1>15. Complete(more)'
  <2>1. \A i \in 1..Len(printed) : \E u \in Tasks : i \in more[u]
    BY <1>11, <1>12 DEF OrderAll, Complete
  <2>2. QED
    BY <1>1, <1>4, <2>1 DEF Complete
<1>16. Nested(more)'
  <2> SUFFICES ASSUME NEW u \in Tasks \union kids, NEW k \in 1..Len(u)
               PROVE  Before(more[Above(u, k - 1)], more[u])
    BY <1>4 DEF Nested
  <2>1. CASE u \in Tasks
    <3>1. Before(places[Above(u, k - 1)], places[u])
      BY <1>11, <2>1 DEF OrderAll, Nested
    <3>2. QED
      BY <1>12, <1>13, <2>1, <3>1
  <2>2. CASE u \in kids
    BY <1>12, <2>2 DEF Before
  <2>3. QED
    BY <2>1, <2>2
<1>17. Licensed(more)'
  <2>1. \A u \in Tasks : \A k \in 1..Len(u) : ExprEffects(PartAt(u, k))' = ExprEffects(PartAt(u, k))
    BY <1>1, <1>4, <1>13, SameLicence
  <2>2. \A u \in Tasks : more[u] # {} => \A k \in 1..Len(u) : Printing \in ExprEffects(PartAt(u, k))
    BY <1>11, <1>12 DEF OrderAll, Licensed
  <2>3. \A u \in Tasks : more[u] # {} => \A k \in 1..Len(u) : Printing \in ExprEffects(PartAt(u, k))'
    BY <2>1, <2>2
  <2>4. \A u \in Tasks' : more[u] # {} => \A k \in 1..Len(u) : Printing \in ExprEffects(PartAt(u, k))'
    BY <1>4, <1>12, <2>3
  <2>5. QED
    BY <2>4 DEF Licensed
<1>18. OrderAll(more)'
  BY <1>14, <1>15, <1>16, <1>17 DEF OrderAll
<1>19. QED
  BY <1>18 DEF InTheirOrder

\* The branches of a task: what they are below, and which part each evaluates.
LEMMA KidsBelow ==
    ASSUME Inv, NEW t \in Tasks, Family(t), NEW i \in 1..Len(Parts(t))
    PROVE  \A u \in {Append(t, i)} :
              /\ u \in Tasks /\ u # t /\ AllDisjoint(Parts(t))
              /\ Len(t) \in Nat /\ Len(u) = Len(t) + 1
              /\ Len(u) \in 1..Len(u) /\ Above(u, Len(u) - 1) = t /\ PartAt(u, Len(u)) = Parts(t)[i]
              /\ \A k \in 1..Len(t) : /\ k \in 1..Len(u) /\ Above(u, k - 1) = Above(t, k - 1)
                                      /\ PartAt(u, k) = PartAt(t, k)
<1> DEFINE u == Append(t, i)
<1>1. u \in Kids(t)
  BY DEF Family
<1>2. u \in Tasks /\ Len(u) \in 1..Len(u) /\ Above(u, Len(u) - 1) = t /\ u # t
  BY <1>1, KidAbove DEF Inv
<1>3. WaitingAt(t, u[Len(u)])
  BY <1>2 DEF Inv, Paths
<1>4. t \in Seq(Nat) /\ Len(t) \in Nat /\ i \in Nat
  BY DEF Inv, Paths
<1>5. /\ Len(u) = Len(t) + 1 /\ u[Len(u)] = i /\ \A k \in 1..Len(t) : u[k] = t[k]
      /\ \A k \in 0..Len(t) : Above(u, k) = Above(t, k)
  BY <1>4, BranchPath
<1> HIDE DEF u
<1>6. AllDisjoint(Parts(t))
  BY <1>3 DEF WaitingAt, Parts
<1>7. PartAt(u, Len(u)) = Parts(t)[i]
  BY <1>2, <1>5 DEF PartAt, Parts
<1>8. ASSUME NEW k \in 1..Len(t)
      PROVE  k \in 1..Len(u) /\ Above(u, k - 1) = Above(t, k - 1) /\ PartAt(u, k) = PartAt(t, k)
  <2>1. k \in 1..Len(u) /\ k - 1 \in 0..Len(t)
    BY <1>4, <1>5
  <2>2. Above(u, k - 1) = Above(t, k - 1) /\ u[k] = t[k]
    BY <1>5, <2>1
  <2>3. QED
    BY <2>1, <2>2 DEF PartAt
<1>9. QED
  BY <1>2, <1>4, <1>5, <1>6, <1>7, <1>8 DEF u

\* At most one branch of a concatenation prints.
LEMMA OnePrints ==
    ASSUME Inv, NEW t \in Tasks, Family(t), NEW places, Licensed(places),
           NEW i \in 1..Len(Parts(t)), NEW j \in 1..Len(Parts(t)), i # j
    PROVE  places[Append(t, i)] = {} \/ places[Append(t, j)] = {}
<1>1. AllDisjoint(Parts(t))
  BY KidsBelow
<1>2. ASSUME NEW k \in 1..Len(Parts(t)), places[Append(t, k)] # {}
      PROVE  Printing \in ExprEffects(Parts(t)[k])
  <2> DEFINE u == Append(t, k)
  <2>1. u \in Tasks /\ Len(u) \in 1..Len(u) /\ PartAt(u, Len(u)) = Parts(t)[k]
    BY KidsBelow
  <2> HIDE DEF u
  <2>2. Printing \in ExprEffects(PartAt(u, Len(u)))
    BY <1>2, <2>1 DEF Licensed, u
  <2>3. QED
    BY <2>1, <2>2
<1>3. i < j \/ j < i
  OBVIOUS
<1>4. QED
  BY <1>1, <1>2, <1>3 DEF AllDisjoint

\* The lines of a task and of the branches looked at, merged in the order of the parts, have
\* places in that order.
LEMMA JoinedOrder ==
    ASSUME Inv, NEW t \in Tasks, FamilyEnded(t), Family(t), NEW places, OrderAll(places)
    PROVE  InOrder(printed, Merged(t)[Printing], PlacesUpto(t, places, Len(Parts(t))))
<1> DEFINE N == Len(Parts(t))
           Q(k) == PlacesUpto(t, places, k)
<1>1. /\ N \in Nat /\ Cardinality(Kids(t)) = N /\ TraceShape(task[t].trace)
      /\ \A i \in 1..N : TraceShape(task[Append(t, i)].trace)
  BY DEF FamilyEnded, Paused, RunShape
<1>2. PICK ms : /\ Upto(ms, 0) = task[t].trace /\ Upto(ms, N) = Merged(t)
                /\ \A k \in 1..N : Upto(ms, k) = IF k \in LookedAt(t)
                                                 THEN After(Upto(ms, k - 1), task[Append(t, k)].trace)
                                                 ELSE Upto(ms, k - 1)
  BY <1>1, MergeAll
<1>3. \A i \in 1..N : Append(t, i) \in Tasks /\ Before(places[t], places[Append(t, i)])
  <2> SUFFICES ASSUME NEW i \in 1..N
               PROVE  Append(t, i) \in Tasks /\ Before(places[t], places[Append(t, i)])
    OBVIOUS
  <2> DEFINE u == Append(t, i)
  <2>1. u \in Tasks /\ Len(u) \in 1..Len(u) /\ Above(u, Len(u) - 1) = t
    BY KidsBelow
  <2> HIDE DEF u
  <2>2. Before(places[Above(u, Len(u) - 1)], places[u])
    BY <2>1 DEF OrderAll, Nested
  <2>3. QED
    BY <2>1, <2>2 DEF u
<1>4. \A i, j \in 1..N : i # j => places[Append(t, i)] = {} \/ places[Append(t, j)] = {}
  BY OnePrints DEF OrderAll
<1> DEFINE S == {k \in 0..N : /\ TraceShape(Upto(ms, k))
                              /\ InOrder(printed, Upto(ms, k)[Printing], Q(k))}
<1>5. 0 \in S
  <2>1. Q(0) = places[t]
    BY DEF PlacesUpto
  <2>2. InOrder(printed, task[t].trace[Printing], places[t])
    BY DEF OrderAll, Ordered, Lines
  <2>3. QED
    BY <1>1, <1>2, <2>1, <2>2
<1>6. \A k \in 0..(N - 1) : k \in S => k + 1 \in S
  <2> SUFFICES ASSUME NEW k \in 0..(N - 1), TraceShape(Upto(ms, k)),
                      InOrder(printed, Upto(ms, k)[Printing], Q(k))
               PROVE  /\ k + 1 \in 0..N /\ TraceShape(Upto(ms, k + 1))
                      /\ InOrder(printed, Upto(ms, k + 1)[Printing], Q(k + 1))
    OBVIOUS
  <2> DEFINE i == k + 1
             u == Append(t, i)
  <2>1. /\ i \in 1..N /\ i - 1 = k /\ i \in 0..N /\ i \notin 1..k /\ 1..i = (1..k) \union {i}
        /\ 1..k \subseteq 1..N
    BY <1>1
  <2> HIDE DEF i, N
  <2>2. CASE i \in LookedAt(t)
    <3>1. Q(i) = Q(k) \union places[u]
      <4> DEFINE L == {j \in 1..k : j \in LookedAt(t)}
                 M == {j \in 1..i : j \in LookedAt(t)}
                 A == UNION {places[Append(t, j)] : j \in L}
                 B == UNION {places[Append(t, j)] : j \in M}
      <4>1. M = L \union {i}
        BY <2>1, <2>2
      <4>2. Q(i) = places[t] \union B /\ Q(k) = places[t] \union A
        BY DEF PlacesUpto
      <4> HIDE DEF L, M
      <4>3. B = A \union places[u]
        BY <4>1 DEF u
      <4> HIDE DEF A, B, Q, u
      <4>4. QED
        BY <4>2, <4>3
    <3>2. Upto(ms, i) = After(Upto(ms, k), task[u].trace)
      BY <1>2, <2>1, <2>2
    <3>3. Before(Q(k), places[u])
      <4>1. Before(places[t], places[u])
        BY <1>3, <2>1
      <4>2. \A j \in 1..k : places[Append(t, j)] = {} \/ places[u] = {}
        BY <1>4, <2>1
      <4> HIDE DEF u
      <4>3. \A x \in Q(k) : x \in places[t] \/ places[u] = {}
        BY <4>2 DEF PlacesUpto
      <4> HIDE DEF Q
      <4>4. QED
        BY <4>1, <4>3 DEF Before
    <3>4. InOrder(printed, task[u].trace[Printing], places[u]) /\ TraceShape(task[u].trace)
      BY <1>1, <1>3, <2>1 DEF OrderAll, Ordered, Lines
    <3>5. IsSeq(Upto(ms, k)[Printing]) /\ IsSeq(task[u].trace[Printing])
      BY <3>4, EvaluatorAssumption DEF TraceShape
    <3>6. Upto(ms, i)[Printing] = Upto(ms, k)[Printing] \o task[u].trace[Printing]
      BY <3>2, EvaluatorAssumption DEF After
    <3>7. TraceShape(Upto(ms, i))
      BY <3>2, <3>4, AfterShape
    <3> HIDE DEF Q, u
    <3>8. InOrder(printed, Upto(ms, i)[Printing], Q(i))
      BY <3>1, <3>3, <3>4, <3>5, <3>6, OrderedBoth
    <3>9. QED
      BY <2>1, <3>7, <3>8 DEF i
  <2>3. CASE i \notin LookedAt(t)
    <3>1. {j \in 1..i : j \in LookedAt(t)} = {j \in 1..k : j \in LookedAt(t)}
      BY <2>1, <2>3
    <3>2. Q(i) = Q(k)
      BY <3>1 DEF PlacesUpto
    <3>3. Upto(ms, i) = Upto(ms, k)
      BY <1>2, <2>1, <2>3
    <3>4. QED
      BY <2>1, <3>2, <3>3 DEF i
  <2>4. QED
    BY <2>2, <2>3
<1> HIDE DEF S
<1>7. N \in S
  <2>1. N \in 0..N
    BY <1>1
  <2>2. QED
    BY <1>1, <1>5, <1>6, <2>1, PathInduct
<1>8. QED
  BY <1>2, <1>7 DEF S

\* If a branch has failed, the task that joins fails.
LEMMA JoinFails ==
    ASSUME NEW t, Failed(t) # {}, Cardinality(Kids(t)) \in Nat,
           DOMAIN task[t] = {"stack", "depth", "trace", "outcome"}
    PROVE  AfterJoin(t).outcome.kind = "error"
<1> DEFINE interp == AfterJoin(t)
           first == CHOOSE i \in Failed(t) : \A j \in Failed(t) : i <= j
<1>1. first \in Failed(t)
  <2>1. Failed(t) \subseteq Nat
    BY DEF Failed
  <2>2. \E i \in Failed(t) : \A j \in Failed(t) : i <= j
    BY <2>1, Smallest
  <2>3. QED
    BY <2>2
<1>2. interp.outcome = task[Append(t, first)].outcome
  BY DEF AfterJoin
<1> HIDE DEF interp, first
<1>3. interp.outcome.kind = "error"
  BY <1>1, <1>2 DEF Failed
<1>4. QED
  BY <1>3 DEF interp

\* A join.
LEMMA OrderJoin ==
    ASSUME Inv, DepthInv, AgreeInv, OrderInv, NEW t \in Tasks, Join(t)
    PROVE  OrderInv'
<1> DEFINE interp == AfterJoin(t)
           T == Tasks \ Kids(t)
           N == Len(Parts(t))
<1>1. /\ ~Ended(t) /\ Kids(t) # {} /\ AllEnded(t) /\ UNCHANGED <<declared, entry, mode>>
      /\ task' = [u \in T |-> IF u = t THEN interp ELSE task[u]]
      /\ Working /\ Paused(task[t]) /\ Family(t) /\ \A u \in Kids(t) : RunShape(task[u])
  BY JoinReady
<1>2. FamilyEnded(t)
  BY <1>1, FamilyOver
<1>3. /\ N \in Nat /\ Cardinality(Kids(t)) = N
      /\ Kids(t) = {Append(t, i) : i \in 1..N}
      /\ DOMAIN task[t] = {"stack", "depth", "trace", "outcome"} /\ task[t].outcome = NoOutcome
  BY <1>1, <1>2 DEF FamilyEnded, Family, Paused, RunShape
<1>4. /\ T \subseteq Tasks /\ t \in T
      /\ \A u \in T : \A k \in 1..Len(u) : Above(u, k - 1) \in T /\ Above(u, k - 1) # t
  BY <1>1, RemainingOK
<1>5. Tasks' = T /\ task'[t] = interp /\ \A u \in T : u # t => task'[u] = task[u]
  BY <1>1, <1>4 DEF Tasks
<1>6. interp.trace = Merged(t)
  BY <1>3 DEF AfterJoin
<1>7. Failed(t) # {} => interp.outcome.kind = "error"
  BY <1>3, JoinFails
<1> HIDE DEF interp
<1>8. Unfailed' => Unfailed /\ Failed(t) = {}
  <2> SUFFICES ASSUME Unfailed'
               PROVE  Unfailed /\ Failed(t) = {}
    OBVIOUS
  <2>1. \A u \in T : task'[u].outcome.kind # "error"
    BY <1>5 DEF Unfailed
  <2>2. Failed(t) = {}
    BY <1>4, <1>5, <1>7, <2>1
  <2>3. ASSUME NEW u \in Tasks
        PROVE  task[u].outcome.kind # "error"
    <3>1. CASE u \in T /\ u # t
      BY <1>5, <2>1, <3>1
    <3>2. CASE u = t
      BY <1>3, <3>2, OutcomeKinds
    <3>3. CASE u \in Kids(t)
      <4>1. PICK j \in 1..N : u = Append(t, j)
        BY <1>3, <3>3
      <4>2. QED
        BY <1>3, <2>2, <4>1 DEF Failed
    <3>4. QED
      BY <3>1, <3>2, <3>3
  <2>4. QED
    BY <2>2, <2>3 DEF Unfailed
<1> SUFFICES ASSUME Sheltered'
             PROVE  InTheirOrder'
  BY DEF OrderInv
<1>9. Sheltered /\ Failed(t) = {}
  <2>1. ImportsDeclare' = ImportsDeclare /\ PartsPerform' = PartsPerform
    BY <1>1, SameShelter
  <2>2. Unfailed' /\ ImportsDeclare' /\ ~PartsPerform'
    BY DEF Sheltered
  <2>3. QED
    BY <1>8, <2>1, <2>2 DEF Sheltered
<1>10. PICK places : OrderAll(places)
  BY <1>1, <1>9 DEF OrderInv, InTheirOrder
<1>11. PICK more : more = [u \in T |-> IF u = t THEN PlacesUpto(t, places, N) ELSE places[u]]
  OBVIOUS
<1>12. more[t] = PlacesUpto(t, places, N) /\ \A u \in T : u # t => more[u] = places[u]
  BY <1>4, <1>11
<1>13. \A x : x \in more[t] <=> x \in places[t] \/ \E i \in 1..N : x \in places[Append(t, i)]
  <2>1. \A i \in 1..N : i \in LookedAt(t)
    BY <1>3, <1>9 DEF LookedAt
  <2> HIDE DEF N
  <2>2. QED
    BY <1>12, <2>1 DEF PlacesUpto
<1>14. \A i \in 1..N : /\ Append(t, i) \in Tasks
                       /\ \A k \in 1..Len(t) : /\ k \in 1..Len(Append(t, i))
                                               /\ Above(Append(t, i), k - 1) = Above(t, k - 1)
                                               /\ PartAt(Append(t, i), k) = PartAt(t, k)
  BY <1>1, KidsBelow
<1> HIDE DEF N, T
<1>15. printed' = printed
  BY DEF Join
<1>16. Ordered(more)'
  <2>1. Lines(t)' = Merged(t)[Printing]
    BY <1>5, <1>6 DEF Lines
  <2>2. InOrder(printed, Merged(t)[Printing], PlacesUpto(t, places, N))
    BY <1>1, <1>2, <1>10, JoinedOrder DEF N
  <2>3. ASSUME NEW u \in T, u # t
        PROVE  InOrder(printed, Lines(u)', more[u])
    BY <1>4, <1>5, <1>10, <1>12, <2>3 DEF Lines, OrderAll, Ordered
  <2>4. \A u \in T : InOrder(printed, Lines(u)', more[u])
    BY <1>12, <2>1, <2>2, <2>3
  <2>5. \A u \in Tasks' : InOrder(printed', Lines(u)', more[u])
    BY <1>5, <1>15, <2>4
  <2>6. QED
    BY <2>5 DEF Ordered
<1>17. Complete(more)'
  <2>1. ASSUME NEW i \in 1..Len(printed)
        PROVE  \E u \in T : i \in more[u]
    <3>1. PICK u \in Tasks : i \in places[u]
      BY <1>10 DEF OrderAll, Complete
    <3>2. CASE u \in Kids(t)
      BY <1>3, <1>4, <1>13, <3>1, <3>2
    <3>3. CASE u \notin Kids(t)
      BY <1>4, <1>12, <1>13, <3>1, <3>3 DEF T
    <3>4. QED
      BY <3>2, <3>3
  <2>2. QED
    BY <1>5, <1>15, <2>1 DEF Complete
<1>18. Nested(more)'
  <2>1. ASSUME NEW u \in T, NEW k \in 1..Len(u)
        PROVE  Before(more[Above(u, k - 1)], more[u])
    <3> DEFINE a == Above(u, k - 1)
    <3>1. a \in T /\ a # t /\ more[a] = places[a]
      BY <1>4, <1>12
    <3>2. Before(places[a], places[u])
      BY <1>4, <1>10 DEF OrderAll, Nested
    <3>3. \A i \in 1..N : u = t => Before(places[a], places[Append(t, i)])
      BY <1>10, <1>14 DEF OrderAll, Nested
    <3> HIDE DEF a
    <3>4. Before(more[a], more[u])
      <4>1. CASE u = t
        BY <1>13, <3>1, <3>2, <3>3, <4>1 DEF Before
      <4>2. CASE u # t
        BY <1>12, <3>1, <3>2, <4>2
      <4>3. QED
        BY <4>1, <4>2
    <3>5. QED
      BY <3>4 DEF a
  <2>2. \A u \in Tasks' : \A k \in 1..Len(u) : Before(more[Above(u, k - 1)], more[u])
    BY <1>5, <2>1
  <2>3. QED
    BY <2>2 DEF Nested
<1>19. Licensed(more)'
  <2>1. \A u \in T : \A k \in 1..Len(u) : ExprEffects(PartAt(u, k))' = ExprEffects(PartAt(u, k))
    BY <1>1, <1>4, <1>5, SameLicence
  <2>2. ASSUME NEW u \in T, more[u] # {}, NEW k \in 1..Len(u)
        PROVE  Printing \in ExprEffects(PartAt(u, k))
    <3>1. CASE u # t \/ places[u] # {}
      BY <1>4, <1>10, <1>12, <2>2, <3>1 DEF OrderAll, Licensed
    <3>2. CASE u = t /\ places[u] = {}
      <4>1. PICK x : x \in more[t]
        BY <2>2, <3>2
      <4>2. PICK i \in 1..N : x \in places[Append(t, i)]
        BY <1>13, <3>2, <4>1
      <4> DEFINE w == Append(t, i)
      <4>3. w \in Tasks /\ places[w] # {} /\ k \in 1..Len(w) /\ PartAt(w, k) = PartAt(t, k)
        BY <1>14, <3>2, <4>2
      <4> HIDE DEF w
      <4>4. Printing \in ExprEffects(PartAt(w, k))
        BY <1>10, <4>3 DEF OrderAll, Licensed
      <4>5. QED
        BY <3>2, <4>3, <4>4
    <3>3. QED
      BY <3>1, <3>2
  <2>3. \A u \in T : more[u] # {} => \A k \in 1..Len(u) : Printing \in ExprEffects(PartAt(u, k))'
    BY <2>1, <2>2
  <2>4. \A u \in Tasks' : more[u] # {} => \A k \in 1..Len(u) : Printing \in ExprEffects(PartAt(u, k))'
    BY <1>5, <2>3
  <2>5. QED
    BY <2>4 DEF Licensed
<1>20. OrderAll(more)'
  BY <1>16, <1>17, <1>18, <1>19 DEF OrderAll
<1>21. QED
  BY <1>20 DEF InTheirOrder

\* A run begins.
LEMMA OrderStart ==
    ASSUME PrintInv, Load \/ RunAgain
    PROVE  OrderInv'
<1>1. printed' = <<>>
  BY DEF Load, RunAgain, PrintInv
<1>2. ASSUME Working'
      PROVE  InTheirOrder'
  <2>1. task' = [t \in {<<>>} |-> EntryInterp]
    BY <1>2 DEF Load, RunAgain, Working
  <2>2. Tasks' = {<<>>} /\ task'[<<>>].trace = Silence
    BY <2>1 DEF Tasks, EntryInterp, Interp
  <2>3. Lines(<<>>)' = <<>>
    BY <2>2, EvaluatorAssumption DEF Lines, Silence
  <2>4. PICK places : places = [t \in {<<>>} |-> {}]
    OBVIOUS
  <2>5. places[<<>>] = {}
    BY <2>4
  <2>6. InOrder(<<>>, <<>>, {}) /\ 1..Len(<<>>) = {}
    BY OrderedNone, EmptyShape
  <2>7. \A t \in Tasks' : InOrder(printed, Lines(t), places[t])'
    BY <1>1, <2>2, <2>3, <2>5, <2>6
  <2>8. Ordered(places)'
    BY <2>7 DEF Ordered
  <2>9. Complete(places)'
    BY <1>1, <2>6 DEF Complete
  <2>10. Nested(places)' /\ Licensed(places)'
    BY <2>2, <2>6 DEF Nested, Licensed
  <2>11. OrderAll(places)'
    BY <2>8, <2>9, <2>10 DEF OrderAll
  <2>12. QED
    BY <2>11 DEF InTheirOrder
<1>3. QED
  BY <1>2 DEF OrderInv

\* Nothing happens.
LEMMA OrderStutter ==
    ASSUME OrderInv, UNCHANGED vars
    PROVE  OrderInv'
<1>1. UNCHANGED <<declared, entry, mode, task, printed>>
  BY DEF vars
<1>2. /\ Tasks' = Tasks /\ Working' = Working /\ Unfailed' = Unfailed
      /\ \A t : Lines(t)' = Lines(t) /\ \A k : ExprEffects(PartAt(t, k))' = ExprEffects(PartAt(t, k))
  <2>1. Tasks' = Tasks /\ Working' = Working /\ Unfailed' = Unfailed /\ \A t : Lines(t)' = Lines(t)
    BY <1>1 DEF Tasks, Working, Unfailed, Lines
  <2>2. \A t, k : ExprEffects(PartAt(t, k))' = ExprEffects(PartAt(t, k))
    BY <1>1, SameLicence
  <2>3. QED
    BY <2>1, <2>2
<1>3. Sheltered' = Sheltered
  <2>1. ImportsDeclare' = ImportsDeclare /\ PartsPerform' = PartsPerform
    BY <1>1, SameShelter
  <2>2. QED
    BY <1>2, <2>1 DEF Sheltered
<1>4. ASSUME NEW places, OrderAll(places)
      PROVE  OrderAll(places)'
  <2>1. Ordered(places)'
    BY <1>1, <1>2, <1>4 DEF OrderAll, Ordered
  <2>2. Complete(places)'
    BY <1>1, <1>2, <1>4 DEF OrderAll, Complete
  <2>3. Nested(places)'
    BY <1>2, <1>4 DEF OrderAll, Nested
  <2>4. Licensed(places)'
    BY <1>2, <1>4 DEF OrderAll, Licensed
  <2>5. QED
    BY <2>1, <2>2, <2>3, <2>4 DEF OrderAll
<1>5. InTheirOrder => InTheirOrder'
  BY <1>4 DEF InTheirOrder
<1>6. QED
  BY <1>2, <1>3, <1>5 DEF OrderInv

\* A step of a task.
LEMMA OrderStep ==
    ASSUME Inv, DepthInv, AgreeInv, PlaceInv, PrintInv, OrderInv, NEW t \in Tasks, Step(t)
    PROVE  OrderInv'
<1>1. CASE Spawn(t)
  BY <1>1, OrderSpawn
<1>2. CASE Join(t)
  BY <1>2, OrderJoin
<1>3. CASE ~Spawn(t) /\ ~Join(t)
  BY <1>3, OrderWalk
<1>4. QED
  BY <1>1, <1>2, <1>3

\* The order of the lines is kept by every step.
LEMMA Ordering == Spec => []OrderInv
<1>1. Init => OrderInv
  BY DEF Init, OrderInv, Working
<1>2. /\ Inv /\ DepthInv /\ AgreeInv /\ PlaceInv /\ PrintInv /\ OrderInv /\ [Next]_vars
      => OrderInv'
  <2> SUFFICES ASSUME Inv, DepthInv, AgreeInv, PlaceInv, PrintInv, OrderInv, [Next]_vars
               PROVE  OrderInv'
    OBVIOUS
  <2>1. CASE Load \/ RunAgain
    BY <2>1, OrderStart
  <2>2. ASSUME NEW t \in Tasks, Step(t)
        PROVE  OrderInv'
    BY <2>2, OrderStep
  <2>3. CASE UNCHANGED vars
    BY <2>3, OrderStutter
  <2>4. QED
    BY <2>1, <2>2, <2>3 DEF Next, Work, Rest
<1>3. QED
  BY <1>1, <1>2, Invariance, DepthInvariance, Agreement, Placement, PrintInvariance, PTL DEF Spec

\* Branches print as they go and only their traces are sorted, and yet standard output has the
\* lines of the trace in its order, when imports declare what they call and no part of a
\* concatenation that may run in parallel performs an effect itself.
THEOREM OrderKept == Spec => []PrintedInOrder
<1>1. Inv /\ AgreeInv /\ PrintInv /\ OrderInv => PrintedInOrder
  <2> SUFFICES ASSUME Inv, AgreeInv, PrintInv, OrderInv,
                      RunOver, task[<<>>].outcome.kind = "value", ImportsDeclare, ~PartsPerform
               PROVE  printed = task[<<>>].trace[Printing]
    BY DEF PrintedInOrder
  <2>1. Working /\ Tasks = {<<>>}
    BY NoneLeft DEF RunOver, Working
  <2>2. Sheltered
    BY <2>1 DEF Sheltered, Unfailed
  <2>3. PICK places : OrderAll(places)
    BY <2>1, <2>2 DEF OrderInv, InTheirOrder
  <2>4. IsSeq(printed) /\ IsSeq(Lines(<<>>))
    BY <2>1, EvaluatorAssumption DEF PrintInv, AgreeInv, AllShaped, RunShape, TraceShape, Lines
  <2>5. InOrder(printed, Lines(<<>>), places[<<>>])
    BY <2>1, <2>3 DEF OrderAll, Ordered
  <2>6. \A i \in 1..Len(printed) : i \in places[<<>>]
    BY <2>1, <2>3 DEF OrderAll, Complete
  <2>7. places[<<>>] = 1..Len(printed)
    BY <2>5, <2>6 DEF InOrder
  <2>8. QED
    BY <2>4, <2>5, <2>7, OrderedAll DEF Lines
<1>2. QED
  BY <1>1, Invariance, Agreement, PrintInvariance, Ordering, PTL

-----------------------------------------------------------------------------
(***************************************************************************)
(* Types: what frames hold are strings and refusals.                       *)
(***************************************************************************)

\* Scalars are strings: the empty string is one, and two put together make one.
StringsJoin == "" \in Scalars /\ \A u, v \in Scalars : u \o v \in Scalars

Vals == Scalars \union {Bottom}

\* A concatenation is a string, whether there are refusals among its parts or not.
LEMMA TextTyped ==
    ASSUME StringsJoin, NEW vs \in Seq(Vals)
    PROVE  Text(vs) \in Scalars
<1> DEFINE N == Len(vs)
           P(a, v) == a \o (IF v = Bottom THEN Mark ELSE v)
           w == [i \in 1..N |-> IF vs[i] = Bottom THEN Mark ELSE vs[i]]
           it == CHOOSE g : g = [s \in SUBSET (DOMAIN vs) |->
                                     IF s = {} THEN "" ELSE P(g[s \ {Max(s)}], vs[Max(s)])]
<1>1. Text(vs) = it[DOMAIN vs]
  <2>1. Text(vs) = FoldLeft(LAMBDA s, v : s \o (IF v = Bottom THEN Mark ELSE v), "", vs)
    BY DEF Text
  <2>2. QED
    BY <2>1 DEF FoldLeft, MapThenFoldSet
<1>2. N \in Nat /\ DOMAIN vs = 1..N /\ \A i \in 1..N : w[i] \in Scalars
  BY EvaluatorAssumption DEF Vals
<1>3. ASSUME NEW g
      PROVE  Folding(g, N, "", 1..N, w) <=>
               g = [s \in SUBSET (DOMAIN vs) |-> IF s = {} THEN "" ELSE P(g[s \ {Max(s)}], vs[Max(s)])]
  <2>1. \A i \in 1..N : w[i] = IF vs[i] = Bottom THEN Mark ELSE vs[i]
    OBVIOUS
  <2> HIDE DEF w
  <2>2. \A s \in SUBSET (1..N) : s # {} => Max(s) \in 1..N
    BY <1>2, LargestIn
  <2>3. \A s \in SUBSET (1..N) :
           (IF s = {} THEN "" ELSE P(g[s \ {Max(s)}], vs[Max(s)]))
             = IF s = {} THEN ""
               ELSE IF Max(s) \in 1..N THEN g[s \ {Max(s)}] \o w[Max(s)] ELSE g[s \ {Max(s)}]
    BY <2>1, <2>2
  <2>4. QED
    BY <1>2, <2>3 DEF Folding
<1> DEFINE e == ""
           L == 1..N
<1>4. Folding(it, N, e, L, w)
  BY <1>2, <1>3, FoldingExists
<1>5. e \in Scalars /\ \A u, v \in Scalars : u \o v \in Scalars
  BY DEF StringsJoin
<1>6. \A i \in 1..N : i \in L
  OBVIOUS
<1> HIDE DEF it, w, N, e, L
<1>7. /\ it[1..0] = e
      /\ \A i \in 1..N : it[1..i] = IF i \in L THEN it[1..(i - 1)] \o w[i] ELSE it[1..(i - 1)]
  BY <1>2, <1>4, FoldingSteps
<1> DEFINE S == {k \in 0..N : it[1..k] \in Scalars}
<1>8. 0 \in S
  <2>1. it[1..0] \in Scalars
    BY <1>5, <1>7
  <2>2. 0 \in 0..N
    BY <1>2
  <2>3. QED
    BY <2>1, <2>2
<1>9. \A k \in 0..(N - 1) : k \in S => k + 1 \in S
  <2> SUFFICES ASSUME NEW k \in 0..(N - 1), it[1..k] \in Scalars
               PROVE  k + 1 \in 0..N /\ it[1..(k + 1)] \in Scalars
    OBVIOUS
  <2>1. k + 1 \in 1..N /\ (k + 1) - 1 = k
    BY <1>2
  <2>2. it[1..(k + 1)] = it[1..k] \o w[k + 1]
    BY <1>6, <1>7, <2>1
  <2>3. w[k + 1] \in Scalars
    BY <1>2, <2>1
  <2>4. it[1..k] \o w[k + 1] \in Scalars
    BY <1>5, <2>3, Zenon
  <2>5. it[1..(k + 1)] \in Scalars
    BY <2>2, <2>4, Zenon
  <2>6. QED
    BY <2>1, <2>5
<1> HIDE DEF S
<1>10. \A k \in 0..N : k \in S
  BY <1>2, <1>8, <1>9, PathInduct
<1>11. N \in S
  BY <1>2, <1>10
<1>12. QED
  BY <1>1, <1>2, <1>11 DEF S

LocalsTyped(l) == l \in [Names -> Vals \union {Unbound}]

\* A frame that has a result to check or to return has a value.
FrameTyped(f) ==
    /\ LocalsTyped(f.locals)
    /\ f.given \in Vals \union {NoValue} /\ f.result \in Vals \union {NoValue}
    /\ f.phase \in {"post", "return"} => f.result \in Vals
    /\ \A i \in 1..Len(f.work) : f.work[i].done \in Seq(Vals) /\ LocalsTyped(f.work[i].outer)

\* A value, for the frame or for the expression it belongs to.
LEMMA GiveTyped ==
    ASSUME NEW f, FrameShape(f), FrameTyped(f), NEW v \in Vals
    PROVE  FrameTyped(Give(f, v))
<1>1. CASE f.work = <<>>
  <2> DEFINE g == [f EXCEPT !.focus = NoNode, !.given = v]
  <2>1. Give(f, v) = g
    BY <1>1 DEF Give
  <2>2. g.given = v /\ g.result = f.result /\ g.phase = f.phase /\ g.locals = f.locals /\ g.work = f.work
    BY DEF FrameShape, Fields
  <2> HIDE DEF g
  <2>3. FrameTyped(g)
    BY <2>2 DEF FrameTyped
  <2>4. QED
    BY <2>1, <2>3
<1>2. CASE f.work # <<>>
  <2> DEFINE h == Head(f.work)
             w == [h EXCEPT !.done = Append(@, v)]
             ws == <<w>> \o Tail(f.work)
             g == [f EXCEPT !.focus = NoNode, !.work = ws]
  <2>1. Give(f, v) = g
    BY <1>2 DEF Give
  <2>2. /\ g.given = f.given /\ g.result = f.result /\ g.phase = f.phase /\ g.locals = f.locals
        /\ g.work = ws
    BY DEF FrameShape, Fields
  <2> HIDE DEF g
  <2>3. /\ IsSeq(f.work) /\ h = f.work[1] /\ 1 \in 1..Len(f.work)
        /\ DOMAIN h = {"node", "done", "outer"}
    BY <1>2, Popped DEF FrameShape
  <2>4. h.done \in Seq(Vals) /\ LocalsTyped(h.outer)
    BY <2>3 DEF FrameTyped
  <2>5. w.done = Append(h.done, v) /\ w.outer = h.outer
    BY <2>3
  <2> HIDE DEF w
  <2>6. w.done \in Seq(Vals) /\ LocalsTyped(w.outer)
    BY <2>4, <2>5
  <2>7. /\ Len(ws) = Len(f.work) /\ Len(f.work) \in Nat \ {0} /\ ws[1] = w
        /\ \A i \in 2..Len(f.work) : ws[i] = f.work[i]
    BY <1>2, <2>3, Replaced
  <2> HIDE DEF ws, h
  <2>8. \A i \in 1..Len(ws) : ws[i].done \in Seq(Vals) /\ LocalsTyped(ws[i].outer)
    <3> SUFFICES ASSUME NEW i \in 1..Len(ws)
                 PROVE  ws[i].done \in Seq(Vals) /\ LocalsTyped(ws[i].outer)
      OBVIOUS
    <3>1. CASE i = 1
      BY <2>6, <2>7, <3>1
    <3>2. CASE i # 1
      <4>1. i \in 1..Len(f.work) /\ ws[i] = f.work[i]
        BY <2>7, <3>2
      <4>2. QED
        BY <4>1 DEF FrameTyped
    <3>3. QED
      BY <3>1, <3>2
  <2>9. FrameTyped(g)
    BY <2>2, <2>8 DEF FrameTyped
  <2>10. QED
    BY <2>1, <2>9
<1>3. QED
  BY <1>1, <1>2

\* The innermost expression is done.
LEMMA FinishTyped ==
    ASSUME NEW f, FrameShape(f), FrameTyped(f), f.work # <<>>, NEW v \in Vals
    PROVE  FrameTyped(Finish(f, v))
<1> DEFINE ws == Tail(f.work)
           l == Head(f.work).outer
           g == [f EXCEPT !.work = ws, !.locals = l]
<1>1. f.given = NoValue /\ f.phase # "return"
  BY DEF FrameShape
<1>2. /\ IsSeq(ws) /\ \A i \in 1..Len(ws) : i + 1 \in 1..Len(f.work) /\ ws[i] = f.work[i + 1]
      /\ Head(f.work) = f.work[1] /\ 1 \in 1..Len(f.work)
  BY Popped DEF FrameShape
<1>3. Finish(f, v) = Give(g, v)
  BY DEF Finish
<1>4. LocalsTyped(l)
  BY <1>2 DEF FrameTyped
<1> HIDE DEF ws, l
<1>5. /\ DOMAIN g = Fields /\ g.given = f.given /\ g.result = f.result /\ g.phase = f.phase
      /\ g.work = ws /\ g.locals = l
  BY DEF FrameShape, Fields
<1> HIDE DEF g
<1>6. FrameShape(g)
  BY <1>1, <1>2, <1>5 DEF FrameShape
<1>7. \A i \in 1..Len(ws) : ws[i].done \in Seq(Vals) /\ LocalsTyped(ws[i].outer)
  BY <1>2 DEF FrameTyped
<1>8. FrameTyped(g)
  BY <1>4, <1>5, <1>7 DEF FrameTyped
<1>9. QED
  BY <1>3, <1>6, <1>8, GiveTyped

\* An expression with parts is begun.
LEMMA BegunTyped ==
    ASSUME NEW f, FrameShape(f), FrameTyped(f), f.focus # NoNode
    PROVE  FrameTyped(WithBegun(f))
<1> DEFINE w == [node |-> f.focus, done |-> <<>>, outer |-> f.locals]
           ws == <<w>> \o f.work
           g == [f EXCEPT !.focus = NoNode, !.work = ws]
<1>1. WithBegun(f) = g
  BY DEF WithBegun
<1>2. w.done = <<>> /\ w.outer = f.locals /\ <<>> \in Seq(Vals)
  OBVIOUS
<1>3. /\ g.given = f.given /\ g.result = f.result /\ g.phase = f.phase /\ g.work = ws
      /\ g.locals = f.locals
  BY DEF FrameShape, Fields
<1> HIDE DEF g, w
<1>4. /\ ws[1] = w /\ Len(f.work) \in Nat /\ Len(ws) = Len(f.work) + 1
      /\ \A i \in 2..Len(ws) : i - 1 \in 1..Len(f.work) /\ ws[i] = f.work[i - 1]
  <2> DEFINE r == f.work
  <2>1. IsSeq(r)
    BY DEF FrameShape
  <2> HIDE DEF r
  <2>2. /\ (<<w>> \o r)[1] = w /\ Len(r) \in Nat /\ Len(<<w>> \o r) = Len(r) + 1
        /\ \A i \in 2..Len(<<w>> \o r) : i - 1 \in 1..Len(r) /\ (<<w>> \o r)[i] = r[i - 1]
    BY <2>1, Pushed
  <2>3. QED
    BY <2>2 DEF r
<1> HIDE DEF ws
<1>5. \A i \in 1..Len(ws) : ws[i].done \in Seq(Vals) /\ LocalsTyped(ws[i].outer)
  <2> SUFFICES ASSUME NEW i \in 1..Len(ws)
               PROVE  ws[i].done \in Seq(Vals) /\ LocalsTyped(ws[i].outer)
    OBVIOUS
  <2>1. CASE i = 1
    BY <1>2, <1>4, <2>1 DEF FrameTyped
  <2>2. CASE i # 1
    <3>1. i \in 2..Len(ws)
      BY <1>4, <2>2
    <3>2. QED
      BY <1>4, <3>1 DEF FrameTyped
  <2>3. QED
    BY <2>1, <2>2
<1>6. FrameTyped(g)
  BY <1>3, <1>5 DEF FrameTyped
<1>7. QED
  BY <1>1, <1>6

\* The next part is evaluated; a name is bound for the body of its binding.
LEMMA PartTyped ==
    ASSUME NEW f, FrameShape(f), FrameTyped(f), f.work # <<>>, Head(f.work).node \in Nodes
    PROVE  FrameTyped(WithPart(f))
<1> DEFINE w == Head(f.work)
           l == IF Node[w.node].kind = "binding" /\ Len(w.done) = 1
                THEN [f.locals EXCEPT ![Node[w.node].name] = w.done[1]] ELSE f.locals
           x == NextPart(w)
           g == [f EXCEPT !.focus = x, !.locals = l]
<1>1. WithPart(f) = g
  BY DEF WithPart
<1>2. Head(f.work) = f.work[1] /\ 1 \in 1..Len(f.work)
  BY Popped DEF FrameShape
<1>3. w.done \in Seq(Vals) /\ LocalsTyped(f.locals)
  BY <1>2 DEF FrameTyped
<1>4. Node[w.node].name \in Names
  BY NodeAssumption DEF NodeRecords
<1>5. LocalsTyped(l)
  BY <1>3, <1>4 DEF LocalsTyped
<1> HIDE DEF l, x
<1>6. /\ g.given = f.given /\ g.result = f.result /\ g.phase = f.phase /\ g.work = f.work
      /\ g.locals = l
  BY DEF FrameShape, Fields
<1> HIDE DEF g
<1>7. FrameTyped(g)
  BY <1>5, <1>6 DEF FrameTyped
<1>8. QED
  BY <1>1, <1>7

\* A call: the parameters are bound to the arguments.
LEMMA NewTyped ==
    ASSUME NEW d \in Definitions, NEW vs \in Seq(Vals)
    PROVE  FrameTyped(NewFrame(d, vs))
<1> DEFINE l == [x \in Names |->
               IF \E i \in 1..Len(Params[d]) : Params[d][i] = x
               THEN LET i == CHOOSE i \in 1..Len(Params[d]) : Params[d][i] = x
                    IN  IF i <= Len(vs) THEN vs[i] ELSE Bottom
               ELSE Unbound]
           f == [defn |-> d, phase |-> "pre", at |-> 1, allowed |-> {}, satisfied |-> {},
                 focus |-> NoNode, work |-> <<>>, given |-> NoValue, result |-> NoValue,
                 locals |-> l]
<1>1. NewFrame(d, vs) = f
  BY DEF NewFrame
<1>2. ASSUME NEW x \in Names
      PROVE  l[x] \in Vals \union {Unbound}
  <2>1. CASE \E i \in 1..Len(Params[d]) : Params[d][i] = x
    <3> DEFINE i == CHOOSE i \in 1..Len(Params[d]) : Params[d][i] = x
    <3>1. i \in 1..Len(Params[d])
      BY <2>1
    <3>2. l[x] = IF i <= Len(vs) THEN vs[i] ELSE Bottom
      BY <2>1
    <3> HIDE DEF i
    <3>3. i <= Len(vs) => i \in 1..Len(vs)
      BY <3>1
    <3>4. i <= Len(vs) => vs[i] \in Vals
      BY <3>3
    <3>5. QED
      BY <3>2, <3>4 DEF Vals
  <2>2. CASE ~\E i \in 1..Len(Params[d]) : Params[d][i] = x
    BY <2>2
  <2>3. QED
    BY <2>1, <2>2
<1>3. l = [x \in Names |-> l[x]]
  OBVIOUS
<1> HIDE DEF l
<1>4. LocalsTyped(l)
  BY <1>2, <1>3 DEF LocalsTyped
<1>5. f.phase = "pre" /\ f.work = <<>> /\ f.given = NoValue /\ f.result = NoValue /\ f.locals = l
  OBVIOUS
<1> HIDE DEF f
<1>6. 1..Len(<<>>) = {}
  BY EmptyShape DEF StackShape
<1>7. FrameTyped(f)
  BY <1>4, <1>5, <1>6 DEF FrameTyped
<1>8. QED
  BY <1>1, <1>7

\* An expression whose parts are done has the value of the last of them.
LEMMA LastDone ==
    ASSUME NEW w, w.node \in Nodes, w.done \in Seq(Vals), NextPart(w) = NoNode,
           Node[w.node].kind \in {"sequence", "conditional", "binding"}
    PROVE  w.done[Len(w.done)] \in Vals
<1> DEFINE n == Node[w.node]
           k == Len(w.done)
<1>1. n \in NodeRecords /\ n.parts \in Seq(Nodes) /\ \A i \in 1..Len(n.parts) : n.parts[i] # NoNode
  BY NodeAssumption, PartsAreNodes
<1>2. Len(n.parts) \in Nat \ {0}
  <2>1. Len(n.parts) \in Nat
    BY <1>1
  <2>2. /\ n.kind = "binding" => Len(n.parts) = 2
        /\ n.kind = "conditional" => Len(n.parts) = 3
        /\ n.kind = "sequence" => Len(n.parts) > 0
    BY <1>1 DEF NodeRecords
  <2>3. QED
    BY <2>1, <2>2
<1>3. k \in Nat /\ (k = 0 => NextPart(w) = n.parts[1])
  BY <1>2 DEF NextPart
<1>4. 1 \in 1..Len(n.parts)
  BY <1>2
<1>5. k # 0
  BY <1>1, <1>3, <1>4
<1>6. k \in 1..k
  BY <1>3, <1>5
<1>7. QED
  BY <1>6

\* What a primitive returns is no refusal.
LEMMA ResultTyped ==
    ASSUME NEW p, NEW vs \in Seq(Vals), Refused(vs) => p = "is_bottom"
    PROVE  Result(p, vs) \in Scalars
<1>1. CASE p = "is_bottom"
  <2>1. \A b \in BOOLEAN : \E x \in Scalars : Truthy(x) <=> b
    BY ValueAssumption, EvaluatorAssumption DEF Truthy
  <2>2. \A b \in BOOLEAN : Truth(b) \in Scalars
    BY <2>1 DEF Truth
  <2>3. Refused(vs) \in BOOLEAN
    BY DEF Refused
  <2>4. Result(p, vs) = Truth(Refused(vs))
    BY <1>1 DEF Result
  <2>5. QED
    BY <2>2, <2>3, <2>4
<1>2. CASE p # "is_bottom" /\ vs = <<>>
  BY <1>2, ValueAssumption DEF Result
<1>3. CASE p # "is_bottom" /\ vs # <<>>
  <2>1. 1 \in 1..Len(vs)
    BY <1>3
  <2>2. vs[1] \in Vals /\ vs[1] # Bottom
    BY <1>3, <2>1 DEF Refused
  <2>3. QED
    BY <1>3, <2>2 DEF Result, Vals
<1>4. QED
  BY <1>1, <1>2, <1>3

\* A move to a frame with values in it, with an outcome that is one.
MoveTyped(m) ==
    /\ m.does \in {"goes on", "performs", "invokes"} => FrameTyped(m.frame)
    /\ m.does = "performs" => m.what \in Scalars
    /\ m.does = "fails" => m.what \in ErrorKinds
    /\ m.does \in {"ends", "returns"} => m.what \in Vals

\* Moves of each kind.
LEMMA TypedMoves ==
    /\ \A g : FrameTyped(g) => MoveTyped(GoesOn(g)) /\ MoveTyped(Invokes(g))
    /\ \A g, e : \A v \in Scalars : FrameTyped(g) => MoveTyped(Performs(g, v, e))
    /\ \A f : \A e \in ErrorKinds : MoveTyped(Fails(f, e))
    /\ \A f : \A v \in Vals : MoveTyped(Ends(f, v))
    /\ \A f : f.result \in Vals => MoveTyped(Returns(f))
    /\ \A f : MoveTyped(Waits(f))
<1>1. \A g : FrameTyped(g) => MoveTyped(GoesOn(g)) /\ MoveTyped(Invokes(g))
  <2> SUFFICES ASSUME NEW g, FrameTyped(g)
               PROVE  MoveTyped(GoesOn(g)) /\ MoveTyped(Invokes(g))
    OBVIOUS
  <2>1. \A m : m.does \in {"goes on", "invokes"} /\ m.frame = g => MoveTyped(m)
    BY DEF MoveTyped
  <2>2. QED
    BY <2>1, MoveRecords
<1>2. ASSUME NEW g, FrameTyped(g), NEW e, NEW v \in Scalars
      PROVE  MoveTyped(Performs(g, v, e))
  <2>1. \A m : m.does = "performs" /\ m.frame = g /\ m.what = v => MoveTyped(m)
    BY <1>2 DEF MoveTyped
  <2>2. Performs(g, v, e).does = "performs" /\ Performs(g, v, e).frame = g /\ Performs(g, v, e).what = v
    BY DEF Performs
  <2>3. QED
    BY <2>1, <2>2
<1>3. ASSUME NEW f, NEW e \in ErrorKinds
      PROVE  MoveTyped(Fails(f, e))
  <2>1. \A m : m.does = "fails" /\ m.what = e => MoveTyped(m)
    BY <1>3 DEF MoveTyped
  <2>2. Fails(f, e).does = "fails" /\ Fails(f, e).what = e
    BY DEF Fails
  <2>3. QED
    BY <2>1, <2>2
<1>4. ASSUME NEW f, NEW v \in Vals
      PROVE  MoveTyped(Ends(f, v)) /\ (f.result = v => MoveTyped(Returns(f)))
  <2>1. \A m : m.does \in {"ends", "returns"} /\ m.what = v => MoveTyped(m)
    BY DEF MoveTyped
  <2>2. /\ Ends(f, v).does = "ends" /\ Ends(f, v).what = v
        /\ Returns(f).does = "returns" /\ Returns(f).what = f.result
    BY DEF Ends, Returns
  <2>3. QED
    BY <2>1, <2>2
<1>5. ASSUME NEW f
      PROVE  MoveTyped(Waits(f))
  <2>1. \A m : m.does = "waits" => MoveTyped(m)
    BY DEF MoveTyped
  <2>2. QED
    BY <2>1, MoveRecords
<1>6. QED
  BY <1>1, <1>2, <1>3, <1>4, <1>5

\* An expression to evaluate.
LEMMA IntoTyped ==
    ASSUME NEW f, FrameShape(f), FrameTyped(f), f.focus \in Nodes, f.focus # NoNode
    PROVE  MoveTyped(MoveInto(f))
<1> DEFINE n == Node[f.focus]
           v == LeafValue(f)
<1>1. n \in NodeRecords
  BY NodeAssumption
<1>2. {"General", "Effect"} \subseteq ErrorKinds
  BY DEF ErrorKinds
<1>3. n.kind \in LeafKinds => v \in Vals \union {Unbound}
  BY <1>1 DEF LeafValue, LeafKinds, NodeRecords, FrameTyped, LocalsTyped, Vals
<1>4. n.kind \in LeafKinds /\ v # Unbound => FrameTyped(Give(f, v))
  BY <1>3, GiveTyped
<1>5. FrameTyped(WithBegun(f))
  BY BegunTyped
<1>6. \/ MoveInto(f) = Fails(f, "General") \/ MoveInto(f) = Fails(f, "Effect")
      \/ MoveInto(f) = GoesOn(WithBegun(f))
      \/ n.kind \in LeafKinds /\ v # Unbound /\ MoveInto(f) = GoesOn(Give(f, v))
  BY DEF MoveInto
<1> HIDE DEF v, n
<1>7. QED
  BY <1>2, <1>4, <1>5, <1>6, TypedMoves

\* An expression whose parts are done.
LEMMA OutOfTyped ==
    ASSUME StringsJoin, NEW f, FrameShape(f), FrameTyped(f), f.work # <<>>,
           NEW w, w = Head(f.work), w.node \in Nodes, NextPart(w) = NoNode, NEW d
    PROVE  MoveTyped(MoveOutOf(f, d))
<1> DEFINE n == Node[w.node]
           m == MoveOutOf(f, d)
           c == Lookup(n.name)
           r == Result(n.name, w.done)
           last == w.done[Len(w.done)]
<1>1. w = f.work[1] /\ 1 \in 1..Len(f.work)
  BY Popped DEF FrameShape
<1>2. w.done \in Seq(Vals)
  BY <1>1 DEF FrameTyped
<1>3. Text(w.done) \in Vals
  BY <1>2, TextTyped DEF Vals
<1>4. n.kind \in {"sequence", "conditional", "binding"} => last \in Vals
  BY <1>2, LastDone
<1>5. ~(Refused(w.done) /\ n.name # "is_bottom") => r \in Scalars /\ r \in Vals
  BY <1>2, ResultTyped DEF Vals
<1>6. IsDefinition(n.name) => c \in Definitions
  BY NameAssumption DEF IsDefinition, Lookup
<1>7. {"General", "BottomPropagation", "Primitive", "RecursionLimit"} \subseteq ErrorKinds
  BY DEF ErrorKinds
<1>8. \/ n.kind \in {"sequence", "conditional", "binding"} /\ m = GoesOn(Finish(f, last))
      \/ m = GoesOn(Finish(f, Text(w.done)))
      \/ \E e \in {"General", "BottomPropagation", "Primitive", "RecursionLimit"} : m = Fails(f, e)
      \/ /\ ~(Refused(w.done) /\ n.name # "is_bottom")
         /\ m = Performs(Finish(f, r), r, EffectsOf(w.node))
      \/ IsDefinition(n.name) /\ m = Invokes(NewFrame(c, w.done))
      \/ m = Waits(f)
  BY DEF MoveOutOf
<1> HIDE DEF m, r, c, last, n
<1>9. \A v \in Vals : FrameTyped(Finish(f, v))
  BY FinishTyped
<1>10. IsDefinition(n.name) => FrameTyped(NewFrame(c, w.done))
  BY <1>2, <1>6, NewTyped
<1>11. MoveTyped(m)
  BY <1>3, <1>4, <1>5, <1>7, <1>8, <1>9, <1>10, TypedMoves
<1>12. QED
  BY <1>11 DEF m

\* A clause, a body or a part that is done.
LEMMA AfterTyped ==
    ASSUME NEW f, FrameShape(f), FrameTyped(f), f.given # NoValue
    PROVE  MoveTyped(MoveAfter(f))
<1> DEFINE m == MoveAfter(f)
           s == IF f.phase = "guard" /\ Truthy(f.given) THEN f.satisfied \union {f.at} ELSE f.satisfied
           p == IF f.given = Bottom THEN "return" ELSE "post"
           k == NextClause(f)
           g == [f EXCEPT !.given = NoValue, !.at = k, !.satisfied = s]
           h == [f EXCEPT !.phase = p, !.at = 1, !.given = NoValue, !.result = f.given]
<1>1. f.given \in Vals /\ "Contract" \in ErrorKinds
  BY DEF FrameTyped, ErrorKinds
<1>2. m = GoesOn(g) \/ m = Fails(f, "Contract") \/ m = GoesOn(h) \/ m = Ends(f, f.given) \/ m = Waits(f)
  BY DEF MoveAfter
<1> HIDE DEF m, s, p, k
<1>3. FrameTyped(g)
  <2>1. /\ g.given = NoValue /\ g.result = f.result /\ g.phase = f.phase /\ g.work = f.work
        /\ g.locals = f.locals
    BY DEF FrameShape, Fields
  <2> HIDE DEF g
  <2>2. QED
    BY <2>1 DEF FrameTyped
<1>4. FrameTyped(h)
  <2>1. /\ h.given = NoValue /\ h.result = f.given /\ h.work = f.work /\ h.locals = f.locals
    BY DEF FrameShape, Fields
  <2> HIDE DEF h
  <2>2. QED
    BY <1>1, <2>1 DEF FrameTyped
<1> HIDE DEF g, h
<1>5. MoveTyped(m)
  BY <1>1, <1>2, <1>3, <1>4, TypedMoves
<1>6. QED
  BY <1>5 DEF m

\* Nothing at work: the next clause, the choice of a candidate, the return.
LEMMA OnTyped ==
    ASSUME NEW f, FrameShape(f), FrameTyped(f)
    PROVE  MoveTyped(MoveOn(f))
<1> DEFINE m == MoveOn(f)
           k == NextClause(f)
           c == Cheapest(f.defn, f.satisfied)
           n == Candidates[f.defn][c].body
           e == Clause(f)
           l == IF f.phase = "post" THEN [f.locals EXCEPT !["result"] = f.result] ELSE f.locals
           p == IF f.phase = "pre" THEN "guard" ELSE "return"
           g1 == [f EXCEPT !.at = k, !.satisfied = @ \union {f.at}]
           g2 == [f EXCEPT !.focus = e, !.locals = l]
           g3 == [f EXCEPT !.phase = p, !.at = 1]
           g4 == [f EXCEPT !.phase = "body", !.at = c, !.focus = n]
<1>1. \/ m = GoesOn(g1) \/ m = GoesOn(g2) \/ m = GoesOn(g4)
      \/ f.phase \in {"pre", "post"} /\ m = GoesOn(g3)
      \/ m = Fails(f, "Dispatch")
      \/ f.phase = "return" /\ m = Returns(f)
      \/ m = Waits(f)
  BY DEF MoveOn, PastClauses, ClausePhases
<1>2. LocalsTyped(l)
  BY NameAssumption DEF FrameTyped, LocalsTyped
<1>3. f.phase = "post" => f.result \in Vals
  BY DEF FrameTyped
<1> HIDE DEF m, k, c, n, e, l
<1>4. FrameTyped(g1)
  <2>1. /\ g1.given = f.given /\ g1.result = f.result /\ g1.phase = f.phase /\ g1.work = f.work
        /\ g1.locals = f.locals
    BY DEF FrameShape, Fields
  <2> HIDE DEF g1
  <2>2. QED
    BY <2>1 DEF FrameTyped
<1>5. FrameTyped(g2)
  <2>1. /\ g2.given = f.given /\ g2.result = f.result /\ g2.phase = f.phase /\ g2.work = f.work
        /\ g2.locals = l
    BY DEF FrameShape, Fields
  <2> HIDE DEF g2
  <2>2. QED
    BY <1>2, <2>1 DEF FrameTyped
<1>6. f.phase \in {"pre", "post"} => FrameTyped(g3)
  <2>1. p \in {"post", "return"} => p = "return" /\ f.phase # "pre"
    OBVIOUS
  <2> HIDE DEF p
  <2>2. /\ g3.given = f.given /\ g3.result = f.result /\ g3.phase = p /\ g3.work = f.work
        /\ g3.locals = f.locals
    BY DEF FrameShape, Fields
  <2> HIDE DEF g3
  <2>3. QED
    BY <1>3, <2>1, <2>2 DEF FrameTyped
<1>7. FrameTyped(g4)
  <2>1. /\ g4.given = f.given /\ g4.result = f.result /\ g4.phase = "body" /\ g4.work = f.work
        /\ g4.locals = f.locals
    BY DEF FrameShape, Fields
  <2> HIDE DEF g4
  <2>2. QED
    BY <2>1 DEF FrameTyped
<1> HIDE DEF g1, g2, g3, g4, p
<1>8. f.phase = "return" => f.result \in Vals
  BY DEF FrameTyped
<1>9. "Dispatch" \in ErrorKinds
  BY DEF ErrorKinds
<1>10. MoveTyped(m)
  BY <1>1, <1>4, <1>5, <1>6, <1>7, <1>8, <1>9, TypedMoves
<1>11. QED
  BY <1>10 DEF m

\* The tree walker moves from values to values.
LEMMA MovesTyped ==
    ASSUME StringsJoin, NEW f, FrameShape(f), FrameTyped(f), NEW d,
           f.focus # NoNode => f.focus \in Nodes, f.work # <<>> => Head(f.work).node \in Nodes
    PROVE  MoveTyped(Move(f, d))
<1>1. CASE f.focus # NoNode
  BY <1>1, IntoTyped DEF Move
<1>2. CASE f.focus = NoNode /\ f.work # <<>>
  <2>1. CASE NextPart(Head(f.work)) # NoNode
    <3>1. FrameTyped(WithPart(f))
      BY <1>2, PartTyped
    <3>2. MoveTyped(GoesOn(WithPart(f)))
      BY <3>1, TypedMoves
    <3>3. QED
      BY <1>2, <2>1, <3>2 DEF Move
  <2>2. CASE NextPart(Head(f.work)) = NoNode
    BY <1>2, <2>2, OutOfTyped DEF Move
  <2>3. QED
    BY <2>1, <2>2
<1>3. CASE f.focus = NoNode /\ f.work = <<>> /\ f.given # NoValue
  BY <1>3, AfterTyped DEF Move
<1>4. CASE f.focus = NoNode /\ f.work = <<>> /\ f.given = NoValue
  BY <1>4, OnTyped DEF Move
<1>5. QED
  BY <1>1, <1>2, <1>3, <1>4

-----------------------------------------------------------------------------
(***************************************************************************)
(* Interpreters, with values in their frames.                              *)
(***************************************************************************)
OutcomeTyped(o) ==
    \/ o = NoOutcome
    \/ \E v \in Vals : o = Ok(v)
    \/ \E e \in ErrorKinds : o = Err(e)

StackTyped(s) == \A i \in 1..Len(s) : FrameTyped(s[i])

RunTyped(I) == StackTyped(I.stack) /\ I.trace \in Traces /\ OutcomeTyped(I.outcome)

\* The innermost frame is another one, a call is made, a call returns.
LEMMA StackMoves ==
    ASSUME NEW s, StackShape(s), StackTyped(s), s # <<>>
    PROVE  /\ FrameTyped(Head(s)) /\ StackTyped(Tail(s))
           /\ \A g : FrameTyped(g) => StackTyped(<<g>> \o Tail(s)) /\ StackTyped(<<g>> \o s)
<1>1. IsSeq(s)
  BY DEF StackShape
<1>2. /\ Len(s) \in Nat \ {0} /\ Head(s) = s[1] /\ 1 \in 1..Len(s)
      /\ \A i \in 1..Len(Tail(s)) : i + 1 \in 1..Len(s) /\ Tail(s)[i] = s[i + 1]
  BY <1>1, Popped
<1>3. FrameTyped(Head(s)) /\ StackTyped(Tail(s))
  BY <1>2 DEF StackTyped
<1>4. ASSUME NEW g, FrameTyped(g)
      PROVE  StackTyped(<<g>> \o Tail(s))
  <2> DEFINE u == <<g>> \o Tail(s)
  <2>1. Len(u) = Len(s) /\ u[1] = g /\ \A i \in 2..Len(s) : u[i] = s[i]
    BY <1>1, Replaced
  <2> HIDE DEF u
  <2>2. \A i \in 1..Len(u) : i = 1 \/ i \in 2..Len(s)
    BY <1>2, <2>1
  <2>3. \A i \in 2..Len(s) : i \in 1..Len(s)
    OBVIOUS
  <2>4. StackTyped(u)
    BY <1>4, <2>1, <2>2, <2>3 DEF StackTyped
  <2>5. QED
    BY <2>4 DEF u
<1>5. ASSUME NEW g, FrameTyped(g)
      PROVE  StackTyped(<<g>> \o s)
  <2> DEFINE u == <<g>> \o s
  <2>1. /\ Len(u) = Len(s) + 1 /\ u[1] = g
        /\ \A i \in 2..Len(u) : i - 1 \in 1..Len(s) /\ u[i] = s[i - 1]
    BY <1>1, Pushed
  <2> HIDE DEF u
  <2>2. \A i \in 1..Len(u) : i = 1 \/ i \in 2..Len(u)
    BY <1>2, <2>1
  <2>3. StackTyped(u)
    BY <1>5, <2>1, <2>2 DEF StackTyped
  <2>4. QED
    BY <2>3 DEF u
<1>6. QED
  BY <1>3, <1>4, <1>5

\* A line in the trace.
LEMMA NotedTyped ==
    ASSUME NEW trace \in Traces, NEW v \in Scalars, NEW e
    PROVE  [x \in Effects |-> IF x \in e THEN Append(trace[x], v) ELSE trace[x]] \in Traces
<1>1. ASSUME NEW x \in Effects
      PROVE  trace[x] \in Seq(Scalars) /\ Append(trace[x], v) \in Seq(Scalars)
  BY DEF Traces
<1>2. QED
  BY <1>1 DEF Traces

\* The tree walker keeps the types.
LEMMA WalkTyped ==
    ASSUME StringsJoin, NEW I, RunShape(I), RunTyped(I), NEW f, f = Head(I.stack),
           I.outcome = NoOutcome,
           f.focus # NoNode => f.focus \in Nodes, f.work # <<>> => Head(f.work).node \in Nodes
    PROVE  RunTyped(TreeWalk(I))
<1> DEFINE s == I.stack
           m == Move(f, I.depth)
           rest == Tail(s)
<1>1. TreeWalk(I) = Moved(I, m)
  BY DEF TreeWalk
<1>2. /\ DOMAIN I = {"stack", "depth", "trace", "outcome"} /\ StackShape(s) /\ s # <<>>
  BY DEF RunShape
<1>3. StackTyped(s) /\ I.trace \in Traces /\ OutcomeTyped(I.outcome)
  BY DEF RunTyped
<1>4. /\ FrameShape(f) /\ StackShape(rest)
      /\ rest # <<>> => Head(rest).work # <<>> /\ FrameShape(Head(rest))
  BY <1>2, PopShape
<1>5. /\ FrameTyped(f) /\ StackTyped(rest)
      /\ \A g : FrameTyped(g) => StackTyped(<<g>> \o rest) /\ StackTyped(<<g>> \o s)
  BY <1>2, <1>3, StackMoves
<1>6. MoveTyped(m)
  BY <1>4, <1>5, MovesTyped
<1>7. Proper(f, m)
  BY <1>4, MoveShape
<1> HIDE DEF m
<1>8. CASE m.does = "goes on"
  <2> DEFINE u == <<m.frame>> \o rest
             J == [I EXCEPT !.stack = u]
  <2>1. TreeWalk(I) = J
    BY <1>1, <1>8 DEF Moved
  <2>2. StackTyped(u)
    BY <1>5, <1>6, <1>8 DEF MoveTyped
  <2> HIDE DEF u
  <2>3. J.stack = u /\ J.trace = I.trace /\ J.outcome = I.outcome
    BY <1>2
  <2> HIDE DEF J
  <2>4. QED
    BY <1>3, <2>1, <2>2, <2>3 DEF RunTyped
<1>9. CASE m.does = "performs"
  <2> DEFINE u == <<m.frame>> \o rest
             tr == [x \in Effects |-> IF x \in m.effects THEN Append(I.trace[x], m.what) ELSE I.trace[x]]
             J == [I EXCEPT !.stack = u, !.trace = tr]
  <2>1. TreeWalk(I) = J
    BY <1>1, <1>9 DEF Moved
  <2>2. StackTyped(u) /\ m.what \in Scalars
    BY <1>5, <1>6, <1>9 DEF MoveTyped
  <2>3. tr \in Traces
    BY <1>3, <2>2, NotedTyped
  <2> HIDE DEF u, tr
  <2>4. J.stack = u /\ J.trace = tr /\ J.outcome = I.outcome
    BY <1>2
  <2> HIDE DEF J
  <2>5. QED
    BY <1>3, <2>1, <2>2, <2>3, <2>4 DEF RunTyped
<1>10. CASE m.does = "invokes"
  <2> DEFINE u == <<m.frame>> \o s
             J == [I EXCEPT !.stack = u, !.depth = @ + 1]
  <2>1. TreeWalk(I) = J
    BY <1>1, <1>10 DEF Moved
  <2>2. StackTyped(u)
    BY <1>5, <1>6, <1>10 DEF MoveTyped
  <2> HIDE DEF u
  <2>3. J.stack = u /\ J.trace = I.trace /\ J.outcome = I.outcome
    BY <1>2
  <2> HIDE DEF J
  <2>4. QED
    BY <1>3, <2>1, <2>2, <2>3 DEF RunTyped
<1>11. ASSUME NEW o, OutcomeTyped(o), TreeWalk(I) = Stopped(I, o)
       PROVE  RunTyped(TreeWalk(I))
  <2> DEFINE J == Stopped(I, o)
  <2>1. J.stack = <<>> /\ J.trace = I.trace /\ J.outcome = o
    BY <1>2 DEF Stopped
  <2> HIDE DEF J
  <2>2. 1..Len(<<>>) = {}
    BY EmptyShape DEF StackShape
  <2>3. RunTyped(J)
    BY <1>3, <1>11, <2>1, <2>2 DEF RunTyped, StackTyped
  <2>4. QED
    BY <1>11, <2>3 DEF J
<1>12. \A v \in Vals : OutcomeTyped(Ok(v))
  BY DEF OutcomeTyped
<1>13. \A e \in ErrorKinds : OutcomeTyped(Err(e))
  BY DEF OutcomeTyped
<1>14. "Refusal" \in ErrorKinds
  BY DEF ErrorKinds
<1>15. CASE m.does = "fails"
  <2>1. TreeWalk(I) = Stopped(I, Err(m.what)) /\ m.what \in ErrorKinds
    BY <1>1, <1>6, <1>15 DEF Moved, MoveTyped
  <2>2. QED
    BY <1>11, <1>13, <2>1
<1>16. CASE m.does = "ends"
  <2>1. TreeWalk(I) = Stopped(I, Ok(m.what)) /\ m.what \in Vals
    BY <1>1, <1>6, <1>16 DEF Moved, MoveTyped
  <2>2. QED
    BY <1>11, <1>12, <2>1
<1>17. CASE m.does = "returns" /\ rest = <<>>
  <2> DEFINE o == IF m.what = Bottom THEN Err("Refusal") ELSE Ok(m.what)
  <2>1. TreeWalk(I) = Stopped(I, o) /\ m.what \in Vals
    BY <1>1, <1>6, <1>17 DEF Moved, MoveTyped
  <2>2. OutcomeTyped(o)
    BY <1>12, <1>13, <1>14, <2>1
  <2> HIDE DEF o
  <2>3. QED
    BY <1>11, <2>1, <2>2
<1>18. CASE m.does = "returns" /\ rest # <<>>
  <2> DEFINE g == Finish(Head(rest), m.what)
             u == <<g>> \o Tail(rest)
             J == [I EXCEPT !.stack = u, !.depth = @ - 1]
  <2>1. TreeWalk(I) = J
    BY <1>1, <1>18 DEF Moved
  <2>2. m.what \in Vals
    BY <1>6, <1>18 DEF MoveTyped
  <2>3. FrameTyped(Head(rest))
    BY <1>4, <1>5, <1>18, StackMoves
  <2>4. FrameTyped(g)
    BY <1>4, <1>18, <2>2, <2>3, FinishTyped
  <2> HIDE DEF g
  <2>5. StackTyped(u)
    BY <1>4, <1>5, <1>18, <2>4, StackMoves
  <2> HIDE DEF u
  <2>6. J.stack = u /\ J.trace = I.trace /\ J.outcome = I.outcome
    BY <1>2
  <2> HIDE DEF J
  <2>7. QED
    BY <1>3, <2>1, <2>5, <2>6 DEF RunTyped
<1>19. CASE m.does = "waits"
  BY <1>1, <1>19 DEF Moved
<1>20. QED
  BY <1>7, <1>8, <1>9, <1>10, <1>15, <1>16, <1>17, <1>18, <1>19 DEF Proper

-----------------------------------------------------------------------------
(***************************************************************************)
(* The invariant: every task holds values, whatever it does.               *)
(***************************************************************************)
TypeInv ==
    /\ declared \in Declarations /\ mode \in {"new", "tree walker", "parallel", "refused"}
    /\ \A t \in Tasks : RunTyped(task[t])
    /\ printed \in Seq(Scalars)
    /\ expected.trace \in Traces /\ OutcomeTyped(expected.outcome)

\* What a run ends with is typed, whatever its depth.
LEMMA SeenTyped ==
    ASSUME NEW I, RunShape(I), RunTyped(Seen(I))
    PROVE  RunTyped(I)
<1>1. DOMAIN I = {"stack", "depth", "trace", "outcome"}
  BY DEF RunShape
<1>2. Seen(I).stack = I.stack /\ Seen(I).trace = I.trace /\ Seen(I).outcome = I.outcome
  BY <1>1 DEF Seen
<1>3. QED
  BY <1>2 DEF RunTyped

\* A step of the tree walker in a task.
LEMMA TypeWalk ==
    ASSUME StringsJoin, Inv, AgreeInv, TypeInv, NEW t \in Tasks, Step(t), ~Spawn(t), ~Join(t)
    PROVE  TypeInv'
<1> DEFINE K == task'[t]
           f == Top(t)
<1>1. /\ Active(t) /\ RunShape(task[t]) /\ ~Ended(t)
      /\ Seen(K) = TreeWalk(task[t]) /\ task' = [task EXCEPT ![t] = K]
      /\ UNCHANGED <<declared, entry, mode, expected>>
  BY StepWalks
<1>2. f = Head(task[t].stack) /\ FrameOK(declared, f) /\ task[t].outcome = NoOutcome
  BY <1>1, ActiveOK DEF Top, Ended
<1>3. f.focus # NoNode => f.focus \in Nodes
  BY <1>2 DEF FrameOK
<1>4. f.work # <<>> => Head(f.work).node \in Nodes
  <2> SUFFICES ASSUME f.work # <<>>
               PROVE  Head(f.work).node \in Nodes
    OBVIOUS
  <2>1. Head(f.work) = f.work[1] /\ 1 \in 1..Len(f.work)
    BY <1>2, Popped DEF FrameOK
  <2>2. QED
    BY <1>2, <2>1 DEF FrameOK, BegunOK
<1>5. RunTyped(task[t])
  BY DEF TypeInv
<1> HIDE DEF f
<1>6. RunTyped(Seen(K))
  BY <1>1, <1>2, <1>3, <1>4, <1>5, WalkTyped
<1>7. RunShape(Seen(K))
  BY <1>1, WalkKeeps
<1> HIDE DEF K
<1>8. RunTyped(K)
  BY <1>6, <1>7, SeenShape, SeenTyped
<1>9. Tasks' = Tasks /\ \A u \in Tasks : task'[u] = IF u = t THEN K ELSE task[u]
  BY <1>1 DEF Tasks
<1>10. \A u \in Tasks' : RunTyped(task[u])'
  <2>1. \A u \in Tasks : RunTyped(task'[u])
    BY <1>8, <1>9 DEF TypeInv
  <2>2. \A u \in Tasks' : RunTyped(task'[u])
    BY <1>9, <2>1
  <2>3. QED
    BY <2>2
<1>11. printed' \in Seq(Scalars)
  <2>1. printed \in Seq(Scalars)
    BY DEF TypeInv
  <2>2. CASE printed' = printed
    BY <2>1, <2>2
  <2>3. ASSUME NEW v, printed' = Append(printed, v), K.trace[Printing] = Append(Lines(t), v)
        PROVE  printed' \in Seq(Scalars)
    <3>1. Append(Lines(t), v) \in Seq(Scalars)
      BY <1>8, <2>3, EvaluatorAssumption DEF RunTyped, Traces
    <3>2. Lines(t) \in Seq(Scalars)
      BY <1>5, EvaluatorAssumption DEF RunTyped, Traces, Lines
    <3>3. Append(Lines(t), v)[Len(Lines(t)) + 1] = v /\ Len(Append(Lines(t), v)) = Len(Lines(t)) + 1
      BY <3>2
    <3>4. v \in Scalars
      <4>1. Len(Lines(t)) + 1 \in 1..Len(Append(Lines(t), v))
        BY <3>2, <3>3
      <4>2. QED
        BY <3>1, <3>3, <4>1
    <3>5. QED
      BY <2>1, <2>3, <3>4
  <2>4. QED
    BY <2>2, <2>3, StepPrints DEF Prints, K
<1>12. QED
  BY <1>1, <1>10, <1>11 DEF TypeInv

\* A spawn: a branch has the values of the frame it copies.
LEMMA TypeSpawn ==
    ASSUME Inv, AgreeInv, TypeInv, NEW t \in Tasks, Spawn(t)
    PROVE  TypeInv'
<1> DEFINE kids == {Append(t, i) : i \in 1..Len(Parts(t))}
           f == Top(t)
           new(u) == Interp(<<BranchFrame(f, Parts(t)[u[Len(u)]])>>, task[t].depth)
<1>1. /\ task' = [u \in Tasks \union kids |-> IF u \in kids THEN new(u) ELSE task[u]]
      /\ UNCHANGED <<declared, mode, printed, expected>> /\ mode = "parallel" /\ Active(t)
  BY DEF Spawn, RunsInParallel, BranchDepth, Parts, Evaluating
<1>2. FrameShape(f) /\ FrameTyped(f)
  <2>1. /\ RunShape(task[t]) /\ RunTyped(task[t]) /\ task[t].stack # <<>>
    BY <1>1, ActiveOK DEF AgreeInv, AllShaped, TypeInv
  <2>2. QED
    BY <2>1, PopShape, StackMoves DEF RunShape, RunTyped, Top
<1>3. ASSUME NEW n
      PROVE  FrameTyped(BranchFrame(f, n))
  <2> DEFINE b == Allowed(f)
             g == [f EXCEPT !.phase = "branch", !.allowed = b, !.focus = n, !.work = <<>>]
  <2>1. BranchFrame(f, n) = g
    BY DEF BranchFrame
  <2> HIDE DEF b
  <2>2. /\ g.given = f.given /\ g.result = f.result /\ g.phase = "branch" /\ g.locals = f.locals
        /\ g.work = <<>>
    BY <1>2 DEF FrameShape, Fields
  <2> HIDE DEF g
  <2>3. 1..Len(<<>>) = {}
    BY EmptyShape DEF StackShape
  <2>4. FrameTyped(g)
    BY <1>2, <2>2, <2>3 DEF FrameTyped
  <2>5. QED
    BY <2>1, <2>4
<1>4. ASSUME NEW u
      PROVE  RunTyped(new(u))
  <2> DEFINE g == BranchFrame(f, Parts(t)[u[Len(u)]])
             s == <<g>>
             I == Interp(s, task[t].depth)
  <2>1. FrameTyped(g)
    BY <1>3
  <2> HIDE DEF g
  <2>2. 1..Len(s) = {1} /\ s[1] = g
    BY OneFrame
  <2> HIDE DEF s
  <2>3. StackTyped(s)
    BY <2>1, <2>2 DEF StackTyped
  <2>4. I.stack = s /\ I.trace = Silence /\ I.outcome = NoOutcome
    BY DEF Interp
  <2> HIDE DEF I
  <2>5. Silence \in Traces
    BY DEF Silence, Traces
  <2>6. RunTyped(I)
    BY <2>3, <2>4, <2>5 DEF RunTyped, OutcomeTyped
  <2>7. QED
    BY <2>6 DEF I, s, g
<1> HIDE DEF new, kids
<1>5. \A u \in Tasks \union kids : RunTyped(task'[u])
  <2>1. \A u \in Tasks : RunTyped(task[u])
    BY DEF TypeInv
  <2>2. \A u \in Tasks \union kids : task'[u] = new(u) \/ (u \in Tasks /\ task'[u] = task[u])
    BY <1>1
  <2>3. QED
    BY <1>4, <2>1, <2>2
<1>6. Tasks' = Tasks \union kids
  BY <1>1 DEF Tasks
<1>7. \A u \in Tasks' : RunTyped(task[u])'
  BY <1>5, <1>6
<1>8. QED
  BY <1>1, <1>7 DEF TypeInv

\* The merged traces.
LEMMA MergedTyped ==
    ASSUME NEW t, Cardinality(Kids(t)) \in Nat, TraceShape(task[t].trace), task[t].trace \in Traces,
           \A i \in 1..Cardinality(Kids(t)) : task[Append(t, i)].trace \in Traces
    PROVE  Merged(t) \in Traces
<1> DEFINE N == Cardinality(Kids(t))
<1>1. PICK ms : /\ Upto(ms, 0) = task[t].trace /\ Upto(ms, N) = Merged(t)
                /\ \A k \in 1..N : Upto(ms, k) = IF k \in LookedAt(t)
                                                 THEN After(Upto(ms, k - 1), task[Append(t, k)].trace)
                                                 ELSE Upto(ms, k - 1)
  BY MergeAll
<1>2. ASSUME NEW T \in Traces, NEW U \in Traces
      PROVE  After(T, U) \in Traces
  <2>1. \A e \in Effects : T[e] \o U[e] \in Seq(Scalars)
    BY DEF Traces
  <2>2. QED
    BY <2>1 DEF Traces, After
<1> HIDE DEF N
<1> DEFINE S == {k \in 0..N : Upto(ms, k) \in Traces}
<1>3. N \in Nat /\ \A i \in 1..N : task[Append(t, i)].trace \in Traces
  BY DEF N
<1>4. 0 \in S
  BY <1>1, <1>3
<1>5. \A k \in 0..(N - 1) : k \in S => k + 1 \in S
  <2> SUFFICES ASSUME NEW k \in 0..(N - 1), Upto(ms, k) \in Traces
               PROVE  k + 1 \in 0..N /\ Upto(ms, k + 1) \in Traces
    OBVIOUS
  <2>1. k + 1 \in 1..N /\ (k + 1) - 1 = k
    BY <1>3
  <2>2. Upto(ms, k + 1) = IF k + 1 \in LookedAt(t)
                          THEN After(Upto(ms, k), task[Append(t, k + 1)].trace) ELSE Upto(ms, k)
    BY <1>1, <2>1
  <2>3. QED
    BY <1>2, <1>3, <2>1, <2>2
<1> HIDE DEF S
<1>6. \A k \in 0..N : k \in S
  BY <1>3, <1>4, <1>5, PathInduct
<1>7. N \in S
  BY <1>3, <1>6
<1>8. QED
  BY <1>1, <1>7 DEF S

\* A join: the parts are put together, or the error of one is passed on.
LEMMA TypeJoin ==
    ASSUME StringsJoin, Inv, DepthInv, AgreeInv, TypeInv, NEW t \in Tasks, Join(t)
    PROVE  TypeInv'
<1> DEFINE interp == AfterJoin(t)
           T == Tasks \ Kids(t)
           N == Cardinality(Kids(t))
           kid(i) == task[Append(t, i)]
           given == [i \in 1..N |-> kid(i).outcome.what]
           first == CHOOSE i \in Failed(t) : \A j \in Failed(t) : i <= j
           f == Top(t)
           s == task[t].stack
<1>1. /\ Kids(t) # {} /\ AllEnded(t) /\ UNCHANGED <<declared, mode, expected>>
      /\ task' = [u \in T |-> IF u = t THEN interp ELSE task[u]]
      /\ Paused(task[t]) /\ Family(t) /\ \A u \in Kids(t) : RunShape(task[u])
  BY JoinReady
<1>2. printed' = printed
  BY DEF Join
<1>3. FamilyEnded(t)
  BY <1>1, FamilyOver
<1>4. /\ N \in Nat /\ Kids(t) = {Append(t, i) : i \in 1..N}
      /\ \A i \in 1..N : kid(i).outcome # NoOutcome
      /\ DOMAIN task[t] = {"stack", "depth", "trace", "outcome"} /\ task[t].outcome = NoOutcome
      /\ StackShape(s) /\ s # <<>> /\ TraceShape(task[t].trace)
  BY <1>1, <1>3 DEF FamilyEnded, Family, Paused, RunShape
<1>5. RunTyped(task[t]) /\ \A i \in 1..N : RunTyped(kid(i))
  <2>1. \A i \in 1..N : Append(t, i) \in Tasks
    BY <1>4 DEF Kids
  <2>2. QED
    BY <2>1 DEF TypeInv
<1>6. Merged(t) \in Traces
  BY <1>4, <1>5, MergedTyped DEF RunTyped
<1>7. FrameShape(f) /\ FrameTyped(f) /\ \A g : FrameTyped(g) => StackTyped(<<g>> \o Tail(s))
  BY <1>4, <1>5, PopShape, StackMoves DEF RunTyped, Top
<1>8. ASSUME Failed(t) = {}
      PROVE  RunTyped(interp)
  <2>1. ASSUME NEW i \in 1..N
        PROVE  kid(i).outcome.what \in Vals
    <3>1. kid(i).outcome.kind # "error"
      BY <1>8 DEF Failed
    <3>2. OutcomeTyped(kid(i).outcome) /\ kid(i).outcome # NoOutcome
      BY <1>4, <1>5 DEF RunTyped
    <3> HIDE DEF kid
    <3>3. ASSUME NEW e, kid(i).outcome = Err(e)
          PROVE  FALSE
      BY <3>1, <3>3 DEF Err
    <3>4. PICK v \in Vals : kid(i).outcome = Ok(v)
      BY <3>2, <3>3 DEF OutcomeTyped
    <3>5. QED
      BY <3>4 DEF Ok
  <2> HIDE DEF kid, N
  <2>2. given \in Seq(Vals)
    BY <1>4, <2>1
  <2>3. Text(given) \in Vals
    BY <2>2, TextTyped DEF Vals
  <2> DEFINE g == Give(f, Text(given))
             u == <<g>> \o Tail(s)
             J == [task[t] EXCEPT !.stack = u, !.trace = Merged(t)]
  <2>4. interp = J
    BY <1>8 DEF AfterJoin, kid, N
  <2> HIDE DEF given
  <2>5. FrameTyped(g)
    BY <1>7, <2>3, GiveTyped
  <2> HIDE DEF g, interp
  <2>6. StackTyped(u)
    BY <1>7, <2>5
  <2> HIDE DEF u
  <2>7. J.stack = u /\ J.trace = Merged(t) /\ J.outcome = task[t].outcome
    BY <1>4
  <2> HIDE DEF J
  <2>8. QED
    BY <1>5, <1>6, <2>4, <2>6, <2>7 DEF RunTyped
<1>9. ASSUME Failed(t) # {}
      PROVE  RunTyped(interp)
  <2>1. first \in Failed(t)
    <3>1. Failed(t) \subseteq Nat
      BY <1>4 DEF Failed
    <3>2. \E i \in Failed(t) : \A j \in Failed(t) : i <= j
      BY <1>9, <3>1, Smallest
    <3>3. QED
      BY <3>2
  <2>2. OutcomeTyped(kid(first).outcome)
    BY <1>5, <2>1 DEF Failed, RunTyped
  <2> DEFINE o == kid(first).outcome
             c == Calls(s)
             J == [task[t] EXCEPT !.stack = <<>>, !.depth = @ - c, !.trace = Merged(t), !.outcome = o]
  <2>3. interp = J
    BY <1>9 DEF AfterJoin
  <2> HIDE DEF interp, first, o, c
  <2>4. J.stack = <<>> /\ J.trace = Merged(t) /\ J.outcome = o
    BY <1>4
  <2> HIDE DEF J
  <2>5. 1..Len(<<>>) = {}
    BY EmptyShape DEF StackShape
  <2>6. StackTyped(<<>>)
    BY <2>5 DEF StackTyped
  <2>7. OutcomeTyped(o)
    BY <2>2 DEF o
  <2>8. QED
    BY <1>6, <2>3, <2>4, <2>6, <2>7 DEF RunTyped
<1>10. RunTyped(interp)
  BY <1>8, <1>9
<1> HIDE DEF interp
<1>11. Tasks' = T /\ \A u \in T : task'[u] = IF u = t THEN interp ELSE task[u]
  BY <1>1 DEF Tasks
<1>12. \A u \in T : RunTyped(task'[u])
  BY <1>10, <1>11 DEF TypeInv
<1>13. \A u \in Tasks' : RunTyped(task[u])'
  BY <1>11, <1>12
<1>14. QED
  BY <1>1, <1>2, <1>13 DEF TypeInv

\* The interpreter of the entry has the arguments the host passes.
LEMMA EntryTyped ==
    ASSUME entry \in Entries
    PROVE  RunTyped(EntryInterp)
<1>1. Silence \in Traces
  BY DEF Silence, Traces
<1>2. CASE entry.name \in DOMAIN Symbols
  <2> DEFINE f == NewFrame(Symbols[entry.name], entry.args)
             s == <<f>>
             I == Interp(s, 1)
  <2>1. EntryInterp = I
    BY <1>2 DEF EntryInterp
  <2>2. Symbols[entry.name] \in Definitions /\ entry.args \in Seq(Scalars)
    BY <1>2, NameAssumption, EvaluatorAssumption
  <2>3. entry.args \in Seq(Vals)
    BY <2>2 DEF Vals
  <2>4. FrameTyped(f)
    BY <2>2, <2>3, NewTyped
  <2> HIDE DEF f
  <2>5. 1..Len(s) = {1} /\ s[1] = f
    BY OneFrame
  <2> HIDE DEF s
  <2>6. StackTyped(s)
    BY <2>4, <2>5 DEF StackTyped
  <2>7. I.stack = s /\ I.trace = Silence /\ I.outcome = NoOutcome
    BY DEF Interp
  <2> HIDE DEF I
  <2>8. QED
    BY <1>1, <2>1, <2>6, <2>7 DEF RunTyped, OutcomeTyped
<1>3. CASE entry.name \notin DOMAIN Symbols
  <2> DEFINE I == [Interp(<<>>, 0) EXCEPT !.outcome = Err("General")]
  <2>1. EntryInterp = I
    BY <1>3 DEF EntryInterp
  <2>2. I.stack = <<>> /\ I.trace = Silence /\ I.outcome = Err("General")
    BY DEF Interp
  <2> HIDE DEF I
  <2>3. StackTyped(<<>>)
    BY EmptyShape DEF StackShape, StackTyped
  <2>4. OutcomeTyped(Err("General"))
    BY DEF OutcomeTyped, ErrorKinds
  <2>5. QED
    BY <1>1, <2>1, <2>2, <2>3, <2>4 DEF RunTyped
<1>4. QED
  BY <1>2, <1>3

\* The two runs of the program.
LEMMA TypeStart ==
    ASSUME Inv, TypeInv, Load \/ RunAgain
    PROVE  TypeInv'
<1>1. entry \in Entries /\ declared' = declared
  BY DEF Inv, Load, RunAgain
<1>2. ASSUME task' = [t \in {<<>>} |-> EntryInterp]
      PROVE  \A u \in Tasks' : RunTyped(task[u])'
  <2>1. Tasks' = {<<>>} /\ task'[<<>>] = EntryInterp
    BY <1>2 DEF Tasks
  <2>2. \A u \in Tasks' : RunTyped(task'[u])
    BY <1>1, <2>1, EntryTyped
  <2>3. QED
    BY <2>2
<1>3. CASE Load
  <2>1. UNCHANGED <<printed, expected>> /\ mode' \in {"tree walker", "refused"}
    BY <1>3 DEF Load
  <2>2. \A u \in Tasks' : RunTyped(task[u])'
    <3>1. CASE EffectsDeclared
      BY <1>2, <1>3, <3>1 DEF Load
    <3>2. CASE ~EffectsDeclared
      <4>1. task' = task
        BY <1>3, <3>2 DEF Load
      <4>2. QED
        BY <4>1 DEF TypeInv, Tasks
    <3>3. QED
      BY <3>1, <3>2
  <2>3. QED
    BY <1>1, <2>1, <2>2 DEF TypeInv
<1>4. CASE RunAgain
  <2>1. /\ mode' = "parallel" /\ printed' = <<>> /\ task' = [t \in {<<>>} |-> EntryInterp]
        /\ expected' = [outcome |-> task[<<>>].outcome, trace |-> task[<<>>].trace]
    BY <1>4 DEF RunAgain
  <2>2. RunTyped(task[<<>>])
    BY DEF Inv, Paths, TypeInv
  <2>3. expected'.trace \in Traces /\ OutcomeTyped(expected'.outcome)
    BY <2>1, <2>2 DEF RunTyped
  <2>4. \A u \in Tasks' : RunTyped(task[u])'
    BY <1>2, <2>1
  <2>5. <<>> \in Seq(Scalars)
    OBVIOUS
  <2>6. QED
    BY <1>1, <2>1, <2>3, <2>4, <2>5 DEF TypeInv
<1>5. QED
  BY <1>3, <1>4

\* Any step of a task.
LEMMA TypeStep ==
    ASSUME StringsJoin, Inv, DepthInv, AgreeInv, TypeInv, NEW t \in Tasks, Step(t)
    PROVE  TypeInv'
<1>1. CASE Spawn(t)
  BY <1>1, TypeSpawn
<1>2. CASE Join(t)
  BY <1>2, TypeJoin
<1>3. CASE ~Spawn(t) /\ ~Join(t)
  BY <1>3, TypeWalk
<1>4. QED
  BY <1>1, <1>2, <1>3

\* It holds at first.
LEMMA TypeInit ==
    ASSUME Init
    PROVE  TypeInv
<1> DEFINE I == Interp(<<>>, 0)
<1>1. Silence \in Traces /\ OutcomeTyped(NoOutcome)
  BY DEF Silence, Traces, OutcomeTyped
<1>2. I.stack = <<>> /\ I.trace = Silence /\ I.outcome = NoOutcome
  BY DEF Interp
<1>3. StackTyped(<<>>)
  BY EmptyShape DEF StackShape, StackTyped
<1>4. task = [t \in {<<>>} |-> I] /\ expected = [outcome |-> NoOutcome, trace |-> Silence]
  BY DEF Init
<1> HIDE DEF I
<1>5. RunTyped(I)
  BY <1>1, <1>2, <1>3 DEF RunTyped
<1>6. \A u \in Tasks : RunTyped(task[u])
  BY <1>4, <1>5 DEF Tasks
<1>7. expected.trace \in Traces /\ OutcomeTyped(expected.outcome)
  BY <1>1, <1>4
<1>8. printed \in Seq(Scalars) /\ declared \in Declarations /\ mode \in {"new", "tree walker", "parallel", "refused"}
  BY DEF Init
<1>9. QED
  BY <1>6, <1>7, <1>8 DEF TypeInv

\* The invariant holds.
LEMMA Typing ==
    ASSUME StringsJoin
    PROVE  Spec => []TypeInv
<1>1. Init => TypeInv
  BY TypeInit
<1>2. Inv /\ DepthInv /\ AgreeInv /\ TypeInv /\ [Next]_vars => TypeInv'
  <2> SUFFICES ASSUME Inv, DepthInv, AgreeInv, TypeInv, [Next]_vars
               PROVE  TypeInv'
    OBVIOUS
  <2>1. CASE Load \/ RunAgain
    BY <2>1, TypeStart
  <2>2. ASSUME NEW t \in Tasks, Step(t)
        PROVE  TypeInv'
    BY <2>2, TypeStep
  <2>3. CASE UNCHANGED vars
    <3>1. UNCHANGED <<declared, mode, task, printed, expected>>
      BY <2>3 DEF vars
    <3>2. QED
      BY <3>1 DEF TypeInv, Tasks
  <2>4. QED
    BY <2>1, <2>2, <2>3 DEF Next, Work, Rest
<1>3. QED
  BY <1>1, <1>2, Invariance, DepthInvariance, Agreement, PTL DEF Spec

\* Whatever the program and the order in which its branches run, a task holds and prints
\* strings only, ends with a value or an error of a known kind, keeps within the limit,
\* and has above it the task that waits for it, whose call its last frame is a copy of.
THEOREM TypeCorrect ==
    ASSUME StringsJoin
    PROVE  Spec => []TypeOK
<1>1. Inv /\ DepthInv /\ TypeInv => TypeOK
  <2> SUFFICES ASSUME Inv, DepthInv, TypeInv
               PROVE  TypeOK
    OBVIOUS
  <2>1. \A o : OutcomeTyped(o) => o \in Outcomes
    <3> SUFFICES ASSUME NEW o, OutcomeTyped(o)
                 PROVE  o \in Outcomes
      OBVIOUS
    <3>1. CASE o = NoOutcome
      BY <3>1 DEF NoOutcome, Outcomes
    <3>2. ASSUME NEW v \in Vals, o = Ok(v)
          PROVE  o \in Outcomes
      BY <3>2 DEF Ok, Outcomes, Vals, Values
    <3>3. ASSUME NEW e \in ErrorKinds, o = Err(e)
          PROVE  o \in Outcomes
      BY <3>3 DEF Err, Outcomes
    <3>4. QED
      BY <3>1, <3>2, <3>3 DEF OutcomeTyped
  <2>2. entry \in Entries /\ <<>> \in Tasks
    BY DEF Inv, Paths
  <2>3. ASSUME NEW t \in Tasks, t # <<>>
        PROVE  Front(t) \in Tasks /\ mode = "parallel" /\ ~Ended(Front(t))
    BY <2>3, FrontOK DEF Inv, Paths
  <2>4. ASSUME NEW t \in Tasks
        PROVE  /\ task[t].depth \in 0..MaxDepth
               /\ task[t].trace \in Traces /\ task[t].outcome \in Outcomes
               /\ \A i \in 1..Len(task[t].stack) :
                     (task[t].stack[i].phase = "branch") <=> (t # <<>> /\ i = Len(task[t].stack))
    BY <2>1, AboveOK DEF TypeInv, RunTyped, StackOK
  <2>5. /\ declared \in Declarations /\ mode \in {"new", "tree walker", "parallel", "refused"}
        /\ printed \in Seq(Scalars) /\ expected.trace \in Traces /\ expected.outcome \in Outcomes
    BY <2>1 DEF TypeInv
  <2>6. QED
    BY <2>2, <2>3, <2>4, <2>5 DEF TypeOK
<1>2. QED
  BY <1>1, Invariance, DepthInvariance, Typing, PTL

=============================================================================
