-------------------------- MODULE AgreementProofs --------------------------
(***************************************************************************)
(* Evaluation in parallel is evaluation from left to right, for any        *)
(* program and any order in which the branches run.                        *)
(*                                                                         *)
(* A branch is at every moment as far as the tree walker would be, had it  *)
(* evaluated the part itself: its stack, on top of the frame that waits    *)
(* for it, is a stack of the tree walker.  When a task joins its branches, *)
(* their walks, one after the other, are the walk it would have made.      *)
(***************************************************************************)
EXTENDS TreeWalkProofs

-----------------------------------------------------------------------------
(***************************************************************************)
(* A branch on top of the frame that waits for it.  The frame F has a      *)
(* concatenation in focus; vs are the values of its parts so far.          *)
(***************************************************************************)
Hold(F, vs) == [node |-> F.focus, done |-> vs, outer |-> F.locals]

Waiting(F, vs) == <<Hold(F, vs)>> \o F.work

Held(F, vs) == [F EXCEPT !.focus = NoNode, !.work = Waiting(F, vs)]

Framed(F, focus, work, locals) == [F EXCEPT !.focus = focus, !.work = work, !.locals = locals]

\* Frame b of a branch, as the tree walker would have it.
OnTop(F, vs, b) ==
    IF b.given # NoValue THEN Held(F, Append(vs, b.given))
    ELSE Framed(F, b.focus, b.work \o Waiting(F, vs), b.locals)

\* b is a frame of a branch of F.
BranchOf(F, b) ==
    /\ FrameShape(b) /\ b.phase = "branch" /\ b.allowed = Allowed(F)
    /\ Base(b) = F.locals

\* A branch that has nothing to do: it neither goes on nor ends.
Stuck(b) == b.focus = NoNode /\ b.work = <<>> /\ b.given = NoValue

\* Something in front of a sequence.
LEMMA Ahead ==
    ASSUME NEW s, IsSeq(s), s # <<>>, NEW r, IsSeq(r)
    PROVE  s \o r # <<>> /\ Head(s \o r) = Head(s) /\ Tail(s \o r) = Tail(s) \o r
BY Joined

\* The expression F has in focus, begun.
LEMMA Holding ==
    ASSUME NEW F, FrameShape(F), F.focus # NoNode, NEW vs
    PROVE  /\ IsSeq(Waiting(F, vs)) /\ Waiting(F, vs) # <<>>
           /\ Head(Waiting(F, vs)) = Hold(F, vs) /\ Tail(Waiting(F, vs)) = F.work
           /\ F.given = NoValue /\ F.phase # "return" /\ IsSeq(F.work)
           /\ \A v : [Hold(F, vs) EXCEPT !.done = Append(@, v)] = Hold(F, Append(vs, v))
<1>1. F.given = NoValue /\ F.phase # "return" /\ IsSeq(F.work)
  BY DEF FrameShape
<1>0. Waiting(F, vs) = <<Hold(F, vs)>> \o F.work
  BY DEF Waiting
<1>2. \A v : [Hold(F, vs) EXCEPT !.done = Append(@, v)] = Hold(F, Append(vs, v))
  BY DEF Hold
<1> DEFINE h == Hold(F, vs)
           r == F.work
<1> HIDE DEF h, r
<1>3. IsSeq(<<h>> \o r) /\ <<h>> \o r # <<>> /\ Head(<<h>> \o r) = h
  BY <1>1, Pushed DEF r
<1>4. Tail(<<h>> \o r) = r
  BY <1>1, Pushes DEF r
<1>5. QED
  BY <1>0, <1>1, <1>2, <1>3, <1>4 DEF h, r

\* What a frame on top has of the branch, and what of the frame below.
LEMMA OnTopOK ==
    ASSUME NEW F, FrameShape(F), F.focus # NoNode, NEW vs,
           NEW b, BranchOf(F, b), b.given = NoValue,
           NEW o, o = OnTop(F, vs, b), NEW r, r = Waiting(F, vs)
    PROVE  /\ o = Framed(F, b.focus, b.work \o r, b.locals)
           /\ DOMAIN o = Fields /\ o.focus = b.focus /\ o.locals = b.locals
           /\ o.work = b.work \o r /\ o.work # <<>>
           /\ Allowed(o) = Allowed(b) /\ o.given = NoValue
           /\ b.work # <<>> => Head(o.work) = Head(b.work)
<1> DEFINE ws == b.work \o r
           p == Framed(F, b.focus, ws, b.locals)
<1>1. o = p
  BY DEF OnTop
<1>2. IsSeq(r) /\ r # <<>> /\ F.given = NoValue /\ IsSeq(b.work)
  BY Holding DEF BranchOf, FrameShape
<1>3. /\ ws # <<>>
      /\ b.work # <<>> => Head(ws) = Head(b.work)
  <2>1. CASE b.work = <<>>
    <3>1. <<>> \o r = r
      BY <1>2, Joined
    <3>2. ws = r
      BY <2>1, <3>1
    <3>3. QED
      BY <1>2, <2>1, <3>2
  <2>2. CASE b.work # <<>>
    BY <1>2, <2>2, Ahead
  <2>3. QED
    BY <2>1, <2>2
<1> HIDE DEF ws
<1>4. /\ DOMAIN p = Fields /\ p.focus = b.focus /\ p.locals = b.locals /\ p.work = ws
      /\ p.given = F.given /\ p.phase = F.phase /\ p.defn = F.defn /\ p.allowed = F.allowed
  BY DEF FrameShape, Fields, Framed
<1> HIDE DEF p
<1>5. Allowed(o) = Allowed(b)
  BY <1>1, <1>4 DEF Allowed, BranchOf
<1>6. o = Framed(F, b.focus, b.work \o r, b.locals)
  BY <1>1 DEF p, ws
<1>7. QED
  BY <1>1, <1>2, <1>3, <1>4, <1>5, <1>6 DEF ws

\* A value for an expression of a branch.
LEMMA GiveOnTop ==
    ASSUME NEW F, FrameShape(F), F.focus # NoNode, NEW vs,
           NEW b, BranchOf(F, b), b.given = NoValue, NEW v, NEW o, o = OnTop(F, vs, b)
    PROVE  /\ BranchOf(F, Give(b, v))
           /\ Stuck(Give(b, v)) \/ Give(o, v) = OnTop(F, vs, Give(b, v))
<1> DEFINE g == Give(b, v)
           r == Waiting(F, vs)
<1>0. o = OnTop(F, vs, b)
  OBVIOUS
<1>r. r = Waiting(F, vs)
  OBVIOUS
<1> HIDE DEF r
<1>1. /\ FrameShape(g) /\ g.phase = b.phase /\ g.allowed = b.allowed /\ Base(g) = Base(b)
      /\ g.focus = NoNode /\ g.locals = b.locals
      /\ b.work = <<>> => g.work = <<>> /\ g.given = v
      /\ b.work # <<>> => /\ g.work = <<[Head(b.work) EXCEPT !.done = Append(@, v)]>> \o Tail(b.work)
                          /\ g.given = NoValue
  BY GiveShape DEF BranchOf
<1>2. BranchOf(F, g)
  BY <1>1 DEF BranchOf
<1>3. /\ o = Framed(F, b.focus, b.work \o r, b.locals)
      /\ DOMAIN o = Fields /\ o.work = b.work \o r /\ o.work # <<>>
      /\ b.work # <<>> => Head(o.work) = Head(b.work) /\ Tail(o.work) = Tail(b.work) \o r
  <2>1. o = Framed(F, b.focus, b.work \o r, b.locals)
    BY <1>0, <1>r, OnTopOK
  <2>2. DOMAIN o = Fields /\ o.work = b.work \o r /\ o.work # <<>>
    BY <1>0, <1>r, OnTopOK
  <2>3. ASSUME b.work # <<>>
        PROVE  Head(o.work) = Head(b.work) /\ Tail(o.work) = Tail(b.work) \o r
    <3>1. Head(o.work) = Head(b.work)
      BY <1>0, <1>r, <2>3, OnTopOK
    <3>2. IsSeq(r) /\ IsSeq(b.work)
      BY <1>r, Holding DEF BranchOf, FrameShape
    <3>3. Tail(b.work \o r) = Tail(b.work) \o r
      BY <2>3, <3>2, Ahead
    <3>4. Tail(o.work) = Tail(b.work) \o r
      BY <2>2, <3>3
    <3>5. QED
      BY <3>1, <3>4
  <2>4. QED
    BY <2>1, <2>2, <2>3
<1>4. IsSeq(r) /\ IsSeq(b.work)
  BY <1>r, Holding DEF BranchOf, FrameShape
<1>5. DOMAIN F = Fields /\ o = [F EXCEPT !.focus = b.focus, !.work = b.work \o r, !.locals = b.locals]
  BY <1>3 DEF FrameShape, Framed
<1>6. Give(o, v) = [o EXCEPT !.focus = NoNode,
                             !.work = <<[Head(o.work) EXCEPT !.done = Append(@, v)]>> \o Tail(o.work)]
  BY <1>3 DEF Give
<1>7. CASE b.work = <<>> /\ v # NoValue
  <2>1. OnTop(F, vs, g) = Held(F, Append(vs, v))
    BY <1>1, <1>7 DEF OnTop
  <2>2. o.work = r
    BY <1>3, <1>4, <1>7, Joined
  <2>3. Head(r) = Hold(F, vs) /\ Tail(r) = F.work /\ [Hold(F, vs) EXCEPT !.done = Append(@, v)] = Hold(F, Append(vs, v))
    BY <1>r, Holding
  <2>4. b.locals = F.locals
    BY <1>7 DEF BranchOf, Base
  <2> DEFINE q == Waiting(F, Append(vs, v))
  <2>5. Give(o, v) = [o EXCEPT !.focus = NoNode, !.work = q]
    <3>1. [Head(o.work) EXCEPT !.done = Append(@, v)] = Hold(F, Append(vs, v)) /\ Tail(o.work) = F.work
      BY <2>2, <2>3
    <3>2. QED
      BY <1>6, <3>1 DEF Waiting
  <2>6. Held(F, Append(vs, v)) = [F EXCEPT !.focus = NoNode, !.work = q]
    BY DEF Held
  <2> HIDE DEF q
  <2>7. [o EXCEPT !.focus = NoNode, !.work = q] = [F EXCEPT !.focus = NoNode, !.work = q]
    BY <1>3, <1>5, <2>4 DEF Fields
  <2>8. QED
    BY <1>2, <2>1, <2>5, <2>6, <2>7
<1>8. CASE b.work = <<>> /\ v = NoValue
  BY <1>1, <1>2, <1>8 DEF Stuck
<1>9. CASE b.work # <<>>
  <2> DEFINE h == [Head(b.work) EXCEPT !.done = Append(@, v)]
             ws == <<h>> \o Tail(b.work)
  <2>1. OnTop(F, vs, g) = Framed(F, g.focus, g.work \o r, g.locals)
    BY <1>r, <1>1, <1>9 DEF OnTop
  <2>2. g.work = ws /\ g.focus = NoNode /\ g.locals = b.locals
    BY <1>1, <1>9
  <2>3. Give(o, v) = [o EXCEPT !.focus = NoNode, !.work = <<h>> \o (Tail(b.work) \o r)]
    BY <1>3, <1>6, <1>9
  <2>4. ws \o r = <<h>> \o (Tail(b.work) \o r)
    <3> HIDE DEF h
    <3> DEFINE z == Tail(b.work)
    <3>1. IsSeq(z)
      BY <1>4, <1>9, Popped
    <3> HIDE DEF z
    <3>2. (<<h>> \o z) \o r = <<h>> \o (z \o r)
      BY <1>4, <3>1, Pushes
    <3>3. QED
      BY <3>2 DEF z
  <2> DEFINE q == <<h>> \o (Tail(b.work) \o r)
  <2> HIDE DEF ws, q
  <2>5. Give(o, v) = [o EXCEPT !.focus = NoNode, !.work = q]
    BY <2>3 DEF q
  <2>6. OnTop(F, vs, g) = Framed(F, NoNode, q, b.locals)
    BY <2>1, <2>2, <2>4 DEF q
  <2>7. [o EXCEPT !.focus = NoNode, !.work = q] = Framed(F, NoNode, q, b.locals)
    BY <1>3, <1>5 DEF Fields, Framed
  <2>8. QED
    BY <1>2, <2>5, <2>6, <2>7
<1>10. QED
  BY <1>7, <1>8, <1>9

\* An expression of a branch is done.
LEMMA FinishOnTop ==
    ASSUME NEW F, FrameShape(F), F.focus # NoNode, NEW vs,
           NEW b, BranchOf(F, b), b.work # <<>>, NEW v, NEW o, o = OnTop(F, vs, b)
    PROVE  /\ BranchOf(F, Finish(b, v)) /\ b.given = NoValue
           /\ Stuck(Finish(b, v)) \/ Finish(o, v) = OnTop(F, vs, Finish(b, v))
<1> DEFINE r == Waiting(F, vs)
           h == Head(b.work)
           z == Tail(b.work)
           c == [b EXCEPT !.work = z, !.locals = h.outer]
           p == [o EXCEPT !.work = z \o r, !.locals = h.outer]
<1>1. FrameShape(b) /\ b.given = NoValue /\ IsSeq(b.work) /\ DOMAIN b = Fields
  BY DEF BranchOf, FrameShape
<1>2. /\ DOMAIN c = Fields /\ c.given = NoValue /\ c.phase = b.phase /\ c.allowed = b.allowed
      /\ c.work = z /\ c.locals = h.outer /\ c.focus = b.focus
  BY <1>1 DEF Fields
<1>3. /\ IsSeq(z) /\ \A i \in 1..Len(z) : i + 1 \in 1..Len(b.work) /\ z[i] = b.work[i + 1]
  BY <1>1, Popped
<1>4. Base(c) = Base(b)
  <2> HIDE DEF c
  <2>1. QED
    BY <1>1, <1>2, LastOf DEF Base
<1>5. FrameShape(c)
  <2> HIDE DEF c, z
  <2>1. QED
    BY <1>1, <1>2, <1>3 DEF FrameShape, BranchOf
<1>6. BranchOf(F, c)
  <2> HIDE DEF c, z
  <2>1. QED
    BY <1>2, <1>4, <1>5 DEF BranchOf
<1>7. o = Framed(F, b.focus, b.work \o r, b.locals) /\ DOMAIN o = Fields /\ o.work = b.work \o r
  <2>1. o = Framed(F, b.focus, b.work \o r, b.locals)
    BY <1>1, OnTopOK
  <2>2. DOMAIN o = Fields /\ o.work = b.work \o r
    BY <1>1, OnTopOK
  <2>3. QED
    BY <2>1, <2>2
<1>8. Head(o.work) = h /\ Tail(o.work) = z \o r
  <2>1. IsSeq(r)
    BY Holding
  <2>2. Head(b.work \o r) = h
    BY <1>1, <2>1, Ahead
  <2>3. Tail(b.work \o r) = z \o r
    BY <1>1, <2>1, Ahead
  <2>4. QED
    BY <1>7, <2>2, <2>3
<1>9. Finish(o, v) = Give(p, v) /\ Finish(b, v) = Give(c, v)
  BY <1>8 DEF Finish
<1>10. p = OnTop(F, vs, c)
  <2>1. OnTop(F, vs, c) = Framed(F, b.focus, z \o r, h.outer)
    <3> HIDE DEF c
    <3>1. QED
      BY <1>2 DEF OnTop
  <2> HIDE DEF h, z, r
  <2>2. p = Framed(F, b.focus, z \o r, h.outer)
    BY <1>7 DEF Framed, Fields, FrameShape
  <2>3. QED
    BY <2>1, <2>2
<1> HIDE DEF p, c
<1>11. BranchOf(F, Give(c, v)) /\ (Stuck(Give(c, v)) \/ Give(p, v) = OnTop(F, vs, Give(c, v)))
  BY <1>2, <1>6, <1>10, GiveOnTop
<1>12. QED
  BY <1>1, <1>9, <1>11

\* An expression of a branch is begun.
LEMMA BegunOnTop ==
    ASSUME NEW F, FrameShape(F), F.focus # NoNode, NEW vs,
           NEW b, BranchOf(F, b), b.focus # NoNode, NEW o, o = OnTop(F, vs, b)
    PROVE  BranchOf(F, WithBegun(b)) /\ WithBegun(o) = OnTop(F, vs, WithBegun(b))
<1> DEFINE r == Waiting(F, vs)
           g == WithBegun(b)
           h == [node |-> b.focus, done |-> <<>>, outer |-> b.locals]
<1>1. FrameShape(b) /\ b.given = NoValue /\ IsSeq(b.work) /\ DOMAIN b = Fields
  BY DEF BranchOf, FrameShape
<1>2. /\ FrameShape(g) /\ g.phase = b.phase /\ g.allowed = b.allowed /\ Base(g) = Base(b)
      /\ g.work = <<h>> \o b.work
      /\ g.focus = NoNode /\ g.given = NoValue /\ g.locals = b.locals
  BY <1>1, BegunShape
<1> HIDE DEF g
<1>3. BranchOf(F, g)
  BY <1>2 DEF BranchOf
<1>4. o = Framed(F, b.focus, b.work \o r, b.locals)
  BY <1>1, OnTopOK
<1>5. DOMAIN o = Fields /\ o.work = b.work \o r /\ o.focus = b.focus /\ o.locals = b.locals
  BY <1>1, OnTopOK
<1>6. OnTop(F, vs, g) = Framed(F, NoNode, (<<h>> \o b.work) \o r, b.locals)
  <2> HIDE DEF h, r
  <2>1. QED
    BY <1>2 DEF OnTop, r
<1>7. (<<h>> \o b.work) \o r = <<h>> \o o.work
  <2>1. IsSeq(r)
    BY Holding
  <2> HIDE DEF h, r
  <2>2. (<<h>> \o b.work) \o r = <<h>> \o (b.work \o r)
    <3> DEFINE z == b.work
    <3>1. IsSeq(z)
      BY <1>1
    <3> HIDE DEF z
    <3>2. (<<h>> \o z) \o r = <<h>> \o (z \o r)
      BY <2>1, <3>1, Pushes
    <3>3. QED
      BY <3>2 DEF z
  <2>3. QED
    BY <1>5, <2>2
<1>8. WithBegun(o) = [o EXCEPT !.focus = NoNode, !.work = <<h>> \o o.work]
  BY <1>5 DEF WithBegun
<1> DEFINE q == <<h>> \o o.work
<1> HIDE DEF q, r, h
<1>9. [o EXCEPT !.focus = NoNode, !.work = q] = Framed(F, NoNode, q, b.locals)
  BY <1>4, <1>5 DEF Framed, Fields, FrameShape
<1>10. QED
  BY <1>3, <1>6, <1>7, <1>8, <1>9 DEF q, g

\* The next part of an expression of a branch.
LEMMA PartOnTop ==
    ASSUME NEW F, FrameShape(F), F.focus # NoNode, NEW vs,
           NEW b, BranchOf(F, b), b.work # <<>>, NEW o, o = OnTop(F, vs, b)
    PROVE  BranchOf(F, WithPart(b)) /\ WithPart(o) = OnTop(F, vs, WithPart(b))
<1> DEFINE r == Waiting(F, vs)
           w == Head(b.work)
           l == IF Node[w.node].kind = "binding" /\ Len(w.done) = 1
                THEN [b.locals EXCEPT ![Node[w.node].name] = w.done[1]] ELSE b.locals
           x == NextPart(w)
           g == [b EXCEPT !.focus = x, !.locals = l]
<1>1. FrameShape(b) /\ b.given = NoValue /\ IsSeq(b.work) /\ DOMAIN b = Fields
  BY DEF BranchOf, FrameShape
<1>2. /\ FrameShape(WithPart(b)) /\ WithPart(b).phase = b.phase /\ WithPart(b).allowed = b.allowed
      /\ Base(WithPart(b)) = Base(b)
  BY <1>1, PartShape
<1>3. BranchOf(F, WithPart(b))
  BY <1>2 DEF BranchOf
<1>4. o = Framed(F, b.focus, b.work \o r, b.locals)
  BY <1>1, OnTopOK
<1>5. DOMAIN o = Fields /\ o.work = b.work \o r /\ o.focus = b.focus /\ o.locals = b.locals
  BY <1>1, OnTopOK
<1>6. Head(o.work) = w
  BY <1>1, OnTopOK
<1>7. WithPart(b) = g /\ WithPart(o) = [o EXCEPT !.focus = x, !.locals = l]
  BY <1>5, <1>6 DEF WithPart
<1> HIDE DEF l, x
<1>8. g.given = NoValue /\ g.focus = x /\ g.work = b.work /\ g.locals = l
  BY <1>1 DEF Fields
<1> HIDE DEF g, r
<1>9. OnTop(F, vs, g) = Framed(F, x, b.work \o r, l)
  BY <1>8 DEF OnTop, r
<1>10. [o EXCEPT !.focus = x, !.locals = l] = Framed(F, x, b.work \o r, l)
  <2> DEFINE q == b.work \o r
  <2> HIDE DEF q
  <2>1. o = Framed(F, b.focus, q, b.locals)
    BY <1>4 DEF q
  <2>2. [o EXCEPT !.focus = x, !.locals = l] = Framed(F, x, q, l)
    BY <2>1 DEF Framed, Fields, FrameShape
  <2>3. QED
    BY <2>2 DEF q
<1>11. QED
  BY <1>3, <1>7, <1>9, <1>10

\* A move of a branch is one of the frame it is on top of.
Alike(F, vs, m, k) ==
    \/ /\ m.does \in {"goes on", "performs"} /\ BranchOf(F, m.frame)
       /\ Stuck(m.frame) \/ k.frame = OnTop(F, vs, m.frame)
       /\ k.does = m.does /\ k.what = m.what /\ k.effects = m.effects
    \/ m.does = "invokes" /\ k = m
    \/ m.does = "fails" /\ k.does = "fails" /\ k.what = m.what
    \/ m.does = "waits"

\* Moves of each kind are alike in a branch and on top of the frame that waits for it.
LEMMA AlikeMoves ==
    ASSUME NEW F, NEW vs, NEW b, NEW o
    PROVE  /\ \A g, p : BranchOf(F, g) /\ (Stuck(g) \/ p = OnTop(F, vs, g)) =>
                  Alike(F, vs, GoesOn(g), GoesOn(p))
           /\ \A g, p, v, e : BranchOf(F, g) /\ (Stuck(g) \/ p = OnTop(F, vs, g)) =>
                  Alike(F, vs, Performs(g, v, e), Performs(p, v, e))
           /\ \A g : Alike(F, vs, Invokes(g), Invokes(g))
           /\ \A e : Alike(F, vs, Fails(b, e), Fails(o, e))
           /\ \A k : Alike(F, vs, Waits(b), k)
<1>1. ASSUME NEW g, NEW p, NEW v, NEW e, BranchOf(F, g), Stuck(g) \/ p = OnTop(F, vs, g)
      PROVE  Alike(F, vs, GoesOn(g), GoesOn(p)) /\ Alike(F, vs, Performs(g, v, e), Performs(p, v, e))
  <2>1. Alike(F, vs, GoesOn(g), GoesOn(p))
    <3>1. /\ GoesOn(g).does = "goes on" /\ GoesOn(g).frame = g /\ GoesOn(p).does = "goes on"
          /\ GoesOn(p).frame = p /\ GoesOn(g).what = GoesOn(p).what /\ GoesOn(g).effects = GoesOn(p).effects
      BY DEF GoesOn
    <3>2. QED
      BY <1>1, <3>1 DEF Alike
  <2>2. Alike(F, vs, Performs(g, v, e), Performs(p, v, e))
    <3>1. /\ Performs(g, v, e).does = "performs" /\ Performs(g, v, e).frame = g
          /\ Performs(p, v, e).does = "performs" /\ Performs(p, v, e).frame = p
          /\ Performs(g, v, e).what = Performs(p, v, e).what
          /\ Performs(g, v, e).effects = Performs(p, v, e).effects
      BY DEF Performs
    <3>2. QED
      BY <1>1, <3>1 DEF Alike
  <2>3. QED
    BY <2>1, <2>2
<1>2. \A g : Alike(F, vs, Invokes(g), Invokes(g))
  BY MoveRecords DEF Alike
<1>3. \A e : Alike(F, vs, Fails(b, e), Fails(o, e))
  BY DEF Alike, Fails
<1>4. \A k : Alike(F, vs, Waits(b), k)
  BY MoveRecords DEF Alike
<1>5. QED
  BY <1>1, <1>2, <1>3, <1>4

\* A branch moves as the tree walker does with its frame on top of the one that waits.
LEMMA MoveOnTop ==
    ASSUME NEW F, FrameShape(F), F.focus # NoNode, NEW vs,
           NEW b, BranchOf(F, b), b.given = NoValue, ~Stuck(b), NEW o, o = OnTop(F, vs, b), NEW d
    PROVE  Alike(F, vs, Move(b, d), Move(o, d))
<1>1. o.focus = b.focus /\ o.locals = b.locals /\ o.work # <<>> /\ Allowed(o) = Allowed(b)
  BY OnTopOK
<1>2. CASE b.focus # NoNode
  <2>1. Move(b, d) = MoveInto(b) /\ Move(o, d) = MoveInto(o) /\ LeafValue(o) = LeafValue(b)
    BY <1>1, <1>2 DEF Move, LeafValue
  <2>2. \/ \E e : Move(b, d) = Fails(b, e) /\ Move(o, d) = Fails(o, e)
        \/ \E v : Move(b, d) = GoesOn(Give(b, v)) /\ Move(o, d) = GoesOn(Give(o, v))
        \/ Move(b, d) = GoesOn(WithBegun(b)) /\ Move(o, d) = GoesOn(WithBegun(o))
    BY <1>1, <2>1 DEF MoveInto
  <2>3. CASE \E e : Move(b, d) = Fails(b, e) /\ Move(o, d) = Fails(o, e)
    BY <2>3, AlikeMoves
  <2>4. CASE \E v : Move(b, d) = GoesOn(Give(b, v)) /\ Move(o, d) = GoesOn(Give(o, v))
    <3>1. PICK v : Move(b, d) = GoesOn(Give(b, v)) /\ Move(o, d) = GoesOn(Give(o, v))
      BY <2>4
    <3>2. BranchOf(F, Give(b, v)) /\ (Stuck(Give(b, v)) \/ Give(o, v) = OnTop(F, vs, Give(b, v)))
      BY GiveOnTop
    <3>3. QED
      BY <3>1, <3>2, AlikeMoves
  <2>5. CASE Move(b, d) = GoesOn(WithBegun(b)) /\ Move(o, d) = GoesOn(WithBegun(o))
    <3>1. BranchOf(F, WithBegun(b)) /\ WithBegun(o) = OnTop(F, vs, WithBegun(b))
      BY <1>2, BegunOnTop
    <3>2. QED
      BY <2>5, <3>1, AlikeMoves
  <2>6. QED
    BY <2>2, <2>3, <2>4, <2>5
<1>3. CASE b.focus = NoNode
  <2>1. b.work # <<>>
    BY <1>3 DEF Stuck
  <2>2. Head(o.work) = Head(b.work)
    BY <2>1, OnTopOK
  <2>3. \/ Move(b, d) = GoesOn(WithPart(b)) /\ Move(o, d) = GoesOn(WithPart(o))
        \/ Move(b, d) = MoveOutOf(b, d) /\ Move(o, d) = MoveOutOf(o, d)
    BY <1>1, <1>3, <2>1, <2>2 DEF Move
  <2>4. CASE Move(b, d) = GoesOn(WithPart(b)) /\ Move(o, d) = GoesOn(WithPart(o))
    <3>1. BranchOf(F, WithPart(b)) /\ WithPart(o) = OnTop(F, vs, WithPart(b))
      BY <2>1, PartOnTop
    <3>2. QED
      BY <2>4, <3>1, AlikeMoves
  <2>5. CASE Move(b, d) = MoveOutOf(b, d) /\ Move(o, d) = MoveOutOf(o, d)
    <3>1. \/ \E e : MoveOutOf(b, d) = Fails(b, e) /\ MoveOutOf(o, d) = Fails(o, e)
          \/ \E v : MoveOutOf(b, d) = GoesOn(Finish(b, v)) /\ MoveOutOf(o, d) = GoesOn(Finish(o, v))
          \/ \E v, e : /\ MoveOutOf(b, d) = Performs(Finish(b, v), v, e)
                        /\ MoveOutOf(o, d) = Performs(Finish(o, v), v, e)
          \/ \E g : MoveOutOf(b, d) = Invokes(g) /\ MoveOutOf(o, d) = Invokes(g)
          \/ MoveOutOf(b, d) = Waits(b)
      BY <2>2 DEF MoveOutOf
    <3>2. CASE \E e : MoveOutOf(b, d) = Fails(b, e) /\ MoveOutOf(o, d) = Fails(o, e)
      BY <2>5, <3>2, AlikeMoves
    <3>3. CASE \E v : MoveOutOf(b, d) = GoesOn(Finish(b, v)) /\ MoveOutOf(o, d) = GoesOn(Finish(o, v))
      <4>1. PICK v : MoveOutOf(b, d) = GoesOn(Finish(b, v)) /\ MoveOutOf(o, d) = GoesOn(Finish(o, v))
        BY <3>3
      <4>2. /\ BranchOf(F, Finish(b, v))
            /\ Stuck(Finish(b, v)) \/ Finish(o, v) = OnTop(F, vs, Finish(b, v))
        BY <2>1, FinishOnTop
      <4>3. QED
        BY <2>5, <4>1, <4>2, AlikeMoves
    <3>4. CASE \E v, e : /\ MoveOutOf(b, d) = Performs(Finish(b, v), v, e)
                         /\ MoveOutOf(o, d) = Performs(Finish(o, v), v, e)
      <4>1. PICK v, e : /\ MoveOutOf(b, d) = Performs(Finish(b, v), v, e)
                        /\ MoveOutOf(o, d) = Performs(Finish(o, v), v, e)
        BY <3>4
      <4>2. /\ BranchOf(F, Finish(b, v))
            /\ Stuck(Finish(b, v)) \/ Finish(o, v) = OnTop(F, vs, Finish(b, v))
        BY <2>1, FinishOnTop
      <4>3. QED
        BY <2>5, <4>1, <4>2, AlikeMoves
    <3>5. CASE \E g : MoveOutOf(b, d) = Invokes(g) /\ MoveOutOf(o, d) = Invokes(g)
      BY <2>5, <3>5, AlikeMoves
    <3>6. CASE MoveOutOf(b, d) = Waits(b)
      BY <2>5, <3>6, AlikeMoves
    <3>7. QED
      BY <3>1, <3>2, <3>3, <3>4, <3>5, <3>6
  <2>6. QED
    BY <2>3, <2>4, <2>5
<1>4. QED
  BY <1>2, <1>3

-----------------------------------------------------------------------------
(***************************************************************************)
(* The run of a branch on top of the interpreter that waits for it.        *)
(***************************************************************************)
Run(stack, depth, trace, outcome) ==
    [stack |-> stack, depth |-> depth, trace |-> trace, outcome |-> outcome]

Noted(trace, v, e) == [x \in Effects |-> IF x \in e THEN Append(trace[x], v) ELSE trace[x]]

After(T, trace) == [e \in Effects |-> T[e] \o trace[e]]

\* What a move makes of an interpreter with the frame f on top of rest.
Onward(f, rest, depth, trace, m) ==
    IF m.does = "goes on" THEN Run(<<m.frame>> \o rest, depth, trace, NoOutcome)
    ELSE IF m.does = "performs"
    THEN Run(<<m.frame>> \o rest, depth, Noted(trace, m.what, m.effects), NoOutcome)
    ELSE IF m.does = "invokes" THEN Run(<<m.frame>> \o (<<f>> \o rest), depth + 1, trace, NoOutcome)
    ELSE IF m.does = "fails" THEN Run(<<>>, 0, trace, Err(m.what))
    ELSE IF m.does = "ends" THEN Run(<<>>, 0, trace, Ok(m.what))
    ELSE IF m.does = "waits" THEN Run(<<f>> \o rest, depth, trace, NoOutcome)
    ELSE IF rest = <<>>
    THEN Run(<<>>, 0, trace, IF m.what = Bottom THEN Err("Refusal") ELSE Ok(m.what))
    ELSE Run(<<Finish(Head(rest), m.what)>> \o Tail(rest), depth - 1, trace, NoOutcome)

\* The next step of a run is the move of the frame on top of its stack.
LEMMA RunMoves ==
    ASSUME NEW f, NEW rest, IsSeq(rest), NEW depth, NEW trace
    PROVE  TreeWalk(Run(<<f>> \o rest, depth, trace, NoOutcome))
             = Onward(f, rest, depth, trace, Move(f, depth))
<1> DEFINE m == Move(f, depth)
           s == <<f>> \o rest
           I == [stack |-> s, depth |-> depth, trace |-> trace, outcome |-> NoOutcome]
           J == TreeWalk(Run(s, depth, trace, NoOutcome))
<1>1. Head(s) = f /\ Tail(s) = rest
  BY Pushes
<1> HIDE DEF s
<1>2. J = Moved(I, m)
  BY <1>1 DEF TreeWalk, Run
<1>00. SUFFICES J = Onward(f, rest, depth, trace, m)
  BY DEF s
<1> HIDE DEF m, J
<1>3. CASE m.does = "goes on"
  <2>1. J = Run(<<m.frame>> \o rest, depth, trace, NoOutcome)
    BY <1>1, <1>2, <1>3 DEF Moved, Stopped, Run
  <2>2. QED
    BY <1>3, <2>1 DEF Onward, s
<1>4. CASE m.does = "performs"
  <2> DEFINE tr == [x \in Effects |-> IF x \in m.effects THEN Append(trace[x], m.what) ELSE trace[x]]
  <2>1. J = [I EXCEPT !.stack = <<m.frame>> \o rest, !.trace = tr]
    BY <1>1, <1>2, <1>4 DEF Moved
  <2>2. tr = Noted(trace, m.what, m.effects)
    BY DEF Noted
  <2> HIDE DEF tr
  <2>3. J = Run(<<m.frame>> \o rest, depth, tr, NoOutcome)
    BY <2>1 DEF Run
  <2>4. QED
    BY <1>4, <2>2, <2>3 DEF Onward
<1>5. CASE m.does = "invokes"
  <2>1. J = Run(<<m.frame>> \o s, depth + 1, trace, NoOutcome)
    BY <1>2, <1>5 DEF Moved, Run
  <2>2. QED
    BY <1>5, <2>1 DEF s, Onward
<1>6. CASE m.does = "fails"
  <2>1. J = Run(<<>>, 0, trace, Err(m.what))
    BY <1>1, <1>2, <1>6 DEF Moved, Stopped, Run
  <2>2. QED
    BY <1>6, <2>1 DEF Onward, s
<1>7. CASE m.does = "ends"
  <2>1. J = Run(<<>>, 0, trace, Ok(m.what))
    BY <1>1, <1>2, <1>7 DEF Moved, Stopped, Run
  <2>2. QED
    BY <1>7, <2>1 DEF Onward, s
<1>8. CASE m.does = "waits"
  <2>1. J = Run(s, depth, trace, NoOutcome)
    BY <1>1, <1>2, <1>8 DEF Moved, Stopped, Run
  <2>2. QED
    BY <1>8, <2>1 DEF Onward, s
<1>9. CASE m.does \notin {"goes on", "performs", "invokes", "fails", "ends", "waits"} /\ rest # <<>>
  <2>1. J = Run(<<Finish(Head(rest), m.what)>> \o Tail(rest), depth - 1, trace, NoOutcome)
    BY <1>1, <1>2, <1>9 DEF Moved, Stopped, Run
  <2>2. QED
    BY <1>9, <2>1 DEF Onward, s
<1>10. CASE m.does \notin {"goes on", "performs", "invokes", "fails", "ends", "waits"} /\ rest = <<>>
  <2>1. J = Run(<<>>, 0, trace, IF m.what = Bottom THEN Err("Refusal") ELSE Ok(m.what))
    BY <1>1, <1>2, <1>10 DEF Moved, Stopped, Run
  <2>2. QED
    BY <1>10, <2>1 DEF Onward, s
<1>11. QED
  BY <1>3, <1>4, <1>5, <1>6, <1>7, <1>8, <1>9, <1>10

\* A stuck branch stays as it is.
LEMMA StuckStays ==
    ASSUME NEW b, Stuck(b), b.phase = "branch", NEW depth, NEW trace
    PROVE  \A M \in {Run(<<b>>, depth, trace, NoOutcome)} : TreeWalk(M) = M
<1>1. Move(b, depth) = Waits(b)
  BY DEF Stuck, Move, MoveOn, InClauses, PastClauses, ClausePhases
<1>2. Move(b, depth).does = "waits"
  BY <1>1 DEF Waits
<1>3. IsSeq(<<>>) /\ <<b>> \o <<>> = <<b>>
  BY EmptyShape, Pushes
<1>4. TreeWalk(Run(<<b>> \o <<>>, depth, trace, NoOutcome)) = Run(<<b>> \o <<>>, depth, trace, NoOutcome)
  BY <1>2, <1>3, RunMoves DEF Onward
<1>5. QED
  BY <1>3, <1>4

\* What is noted at the end of a trace.
LEMMA NotedAfter ==
    ASSUME NEW T, TraceShape(T), NEW trace, TraceShape(trace), NEW v, NEW e
    PROVE  Noted(After(T, trace), v, e) = After(T, Noted(trace, v, e)) /\ TraceShape(Noted(trace, v, e))
<1>1. ASSUME NEW x \in Effects
      PROVE  Append(T[x] \o trace[x], v) = T[x] \o Append(trace[x], v)
  <2> DEFINE s == T[x]
             r == trace[x]
  <2>1. IsSeq(s) /\ IsSeq(r)
    BY DEF TraceShape
  <2> HIDE DEF s, r
  <2>2. PICK U : s \in Seq(U) /\ r \in Seq(U)
    BY <2>1, Together
  <2> DEFINE V == U \union {v}
  <2>3. s \in Seq(V) /\ r \in Seq(V) /\ v \in V
    BY <2>2
  <2> HIDE DEF V
  <2>4. Append(s \o r, v) = s \o Append(r, v)
    BY <2>3
  <2>5. QED
    BY <2>4 DEF s, r
<1>2. Noted(After(T, trace), v, e) = After(T, Noted(trace, v, e))
  <2> SUFFICES ASSUME NEW x \in Effects
               PROVE  (IF x \in e THEN Append(After(T, trace)[x], v) ELSE After(T, trace)[x])
                        = T[x] \o Noted(trace, v, e)[x]
    BY DEF Noted, After
  <2>1. After(T, trace)[x] = T[x] \o trace[x]
    BY DEF After
  <2>2. Noted(trace, v, e)[x] = IF x \in e THEN Append(trace[x], v) ELSE trace[x]
    BY DEF Noted
  <2>3. CASE x \in e
    BY <2>1, <2>2, <2>3, <1>1
  <2>4. CASE x \notin e
    BY <2>1, <2>2, <2>4
  <2>5. QED
    BY <2>3, <2>4
<1>3. TraceShape(Noted(trace, v, e))
  BY Appended DEF Noted, TraceShape
<1>4. QED
  BY <1>2, <1>3

\* Interpreter I with the values vs of the parts of its concatenation, and trace T.
At(I, vs, T) == Run(<<Held(Head(I.stack), vs)>> \o Tail(I.stack), I.depth, T, NoOutcome)

\* E is at work on a part, and X is what I would be, had it evaluated the part itself:
\* the calls C of the branch are on top of its frame b, which is on top of that of I.
OnTopOf(I, vs, T, E, X) ==
    \E C, b, tr :
        /\ IsSeq(C) /\ BranchOf(Head(I.stack), b)
        /\ E = Run(C \o <<b>>, I.depth + Len(C), tr, NoOutcome)
        /\ X = Run(C \o (<<OnTop(Head(I.stack), vs, b)>> \o Tail(I.stack)),
                   I.depth + Len(C), After(T, tr), NoOutcome)

\* The branch E and the interpreter X above: at work, stuck, or at an end.
Embeds(I, vs, T, E, X) ==
    \/ OnTopOf(I, vs, T, E, X)
    \/ E.outcome = NoOutcome /\ TreeWalk(E) = E
    \/ E.outcome.kind = "error" /\ X = Run(<<>>, 0, After(T, E.trace), E.outcome)
    \/ E.outcome.kind = "value" /\ X = At(I, Append(vs, E.outcome.what), After(T, E.trace))

\* The fields of a run.
LEMMA RunFields ==
    \A s, d, tr, o : /\ Run(s, d, tr, o).stack = s /\ Run(s, d, tr, o).depth = d
                     /\ Run(s, d, tr, o).trace = tr /\ Run(s, d, tr, o).outcome = o
                     /\ DOMAIN Run(s, d, tr, o) = {"stack", "depth", "trace", "outcome"}
BY DEF Run

\* Outcomes of different kinds are different.
LEMMA OutcomeKinds ==
    /\ \A e : Err(e).kind = "error" /\ Err(e).what = e /\ Err(e) # NoOutcome
    /\ \A v : Ok(v).kind = "value" /\ Ok(v).what = v /\ Ok(v) # NoOutcome
    /\ NoOutcome.kind = "none"
BY DEF Err, Ok, NoOutcome

\* The frame of the branch is innermost.
LEMMA EmbedTop ==
    ASSUME NEW I, NEW F, F = Head(I.stack), FrameShape(F), F.focus # NoNode,
           NEW R, R = Tail(I.stack), IsSeq(R), NEW d, d = I.depth, d \in Nat,
           NEW vs, NEW T, TraceShape(T),
           NEW b, BranchOf(F, b), NEW tr, TraceShape(tr),
           NEW E, E = Run(<<b>>, d, tr, NoOutcome), NEW M, M = TreeWalk(E),
           NEW X, X = Run(<<OnTop(F, vs, b)>> \o R, d, After(T, tr), NoOutcome), NEW Y, Y = TreeWalk(X)
    PROVE  Embeds(I, vs, T, M, Y) \/ Embeds(I, vs, T, M, X)
<1> DEFINE m == Move(b, d)
           o == OnTop(F, vs, b)
           k == Move(o, d)
<1>1. FrameShape(b) /\ b.phase = "branch"
  BY DEF BranchOf
<1>2. IsSeq(<<>>) /\ <<b>> \o <<>> = <<b>> /\ Len(<<>>) = 0 /\ d + 0 = d
  BY EmptyShape, Pushes
<1>3. ASSUME NEW g, NEW tr1, BranchOf(F, g), M = Run(<<g>>, d, tr1, NoOutcome),
             Y = Run(<<OnTop(F, vs, g)>> \o R, d, After(T, tr1), NoOutcome)
      PROVE  OnTopOf(I, vs, T, M, Y)
  <2> DEFINE S == <<OnTop(F, vs, g)>> \o R
  <2>1. IsSeq(S) /\ IsSeq(<<g>>)
    BY Pushed, OneFrame
  <2> HIDE DEF S
  <2>2. <<>> \o S = S /\ <<>> \o <<g>> = <<g>>
    BY <1>2, <2>1, Joined
  <2>3. M = Run(<<>> \o <<g>>, I.depth + Len(<<>>), tr1, NoOutcome)
    BY <1>2, <1>3, <2>2
  <2>4. Y = Run(<<>> \o S, I.depth + Len(<<>>), After(T, tr1), NoOutcome)
    BY <1>2, <1>3, <2>2 DEF S
  <2>5. QED
    BY <1>2, <1>3, <2>3, <2>4 DEF OnTopOf, S
<1>4. ASSUME NEW g, NEW tr1, BranchOf(F, g), Stuck(g), M = Run(<<g>>, d, tr1, NoOutcome)
      PROVE  Embeds(I, vs, T, M, Y)
  <2>1. TreeWalk(M) = M
    BY <1>4, StuckStays DEF BranchOf
  <2>2. M.outcome = NoOutcome
    BY <1>4, RunFields
  <2>3. QED
    BY <2>1, <2>2 DEF Embeds
<1>5. CASE b.given # NoValue
  <2>1. m = Ends(b, b.given)
    BY <1>1, <1>5 DEF FrameShape, Move, MoveAfter, InClauses, ClausePhases
  <2>2. m.does = "ends" /\ m.what = b.given
    BY <2>1 DEF Ends
  <2> HIDE DEF m
  <2>3. M = Run(<<>>, 0, tr, Ok(b.given))
    <3>1. M = Onward(b, <<>>, d, tr, m)
      BY <1>2, RunMoves DEF m
    <3>2. QED
      BY <2>2, <3>1 DEF Onward
  <2>4. M.outcome = Ok(b.given) /\ M.trace = tr
    BY <2>3, RunFields
  <2>5. M.outcome.kind = "value" /\ M.outcome.what = b.given
    BY <2>4, OutcomeKinds
  <2>6. X = At(I, Append(vs, b.given), After(T, tr))
    BY <1>5 DEF OnTop, At
  <2>7. QED
    BY <2>4, <2>5, <2>6 DEF Embeds
<1>6. CASE Stuck(b)
  <2>1. M = E
    BY <1>1, <1>6, StuckStays
  <2>2. QED
    BY <1>4, <1>6, <2>1
<1>7. CASE b.given = NoValue /\ ~Stuck(b)
  <2>1. Alike(F, vs, m, k)
    BY <1>7, MoveOnTop
  <2>2. M = Onward(b, <<>>, d, tr, m)
    BY <1>2, RunMoves
  <2>3. Y = Onward(o, R, d, After(T, tr), k)
    BY RunMoves
  <2> HIDE DEF m, k
  <2>4. CASE m.does = "goes on"
    <3>1. /\ BranchOf(F, m.frame) /\ (Stuck(m.frame) \/ k.frame = OnTop(F, vs, m.frame))
          /\ k.does = "goes on"
      BY <2>1, <2>4 DEF Alike
    <3>2. M = Run(<<m.frame>> \o <<>>, d, tr, NoOutcome)
      BY <2>2, <2>4 DEF Onward
    <3>3. M = Run(<<m.frame>>, d, tr, NoOutcome)
      BY <1>2, <3>2, Pushes
    <3>4. Y = Run(<<k.frame>> \o R, d, After(T, tr), NoOutcome)
      BY <2>3, <3>1 DEF Onward
    <3>5. QED
      BY <1>3, <1>4, <3>1, <3>3, <3>4 DEF Embeds
  <2>5. CASE m.does = "performs"
    <3>1. /\ BranchOf(F, m.frame) /\ (Stuck(m.frame) \/ k.frame = OnTop(F, vs, m.frame))
          /\ k.does = "performs" /\ k.what = m.what /\ k.effects = m.effects
      BY <2>1, <2>5 DEF Alike
    <3> DEFINE tr1 == Noted(tr, m.what, m.effects)
    <3>2. M = Run(<<m.frame>> \o <<>>, d, tr1, NoOutcome)
      BY <2>2, <2>5 DEF Onward
    <3>3. M = Run(<<m.frame>>, d, tr1, NoOutcome)
      BY <1>2, <3>2, Pushes
    <3>4. Y = Run(<<k.frame>> \o R, d, Noted(After(T, tr), m.what, m.effects), NoOutcome)
      BY <2>3, <3>1 DEF Onward
    <3>5. Noted(After(T, tr), m.what, m.effects) = After(T, tr1)
      BY NotedAfter
    <3> HIDE DEF tr1
    <3>6. QED
      BY <1>3, <1>4, <3>1, <3>3, <3>4, <3>5 DEF Embeds
  <2>6. CASE m.does = "invokes"
    <3>1. k = m
      BY <2>1, <2>6 DEF Alike
    <3> DEFINE g == m.frame
               S == <<o>> \o R
    <3>2. M = Run(<<g>> \o (<<b>> \o <<>>), d + 1, tr, NoOutcome)
      BY <2>2, <2>6 DEF Onward
    <3>3. Y = Run(<<g>> \o S, d + 1, After(T, tr), NoOutcome)
      BY <2>3, <2>6, <3>1 DEF Onward
    <3> HIDE DEF g, S
    <3>4. IsSeq(<<g>>) /\ Len(<<g>>) = 1
      BY <1>2, Pushes
    <3>5. M = Run(<<g>> \o <<b>>, I.depth + Len(<<g>>), tr, NoOutcome)
      BY <1>2, <3>2, <3>4
    <3>6. Y = Run(<<g>> \o S, I.depth + Len(<<g>>), After(T, tr), NoOutcome)
      BY <3>3, <3>4
    <3>7. OnTopOf(I, vs, T, M, Y)
      BY <3>4, <3>5, <3>6 DEF OnTopOf, S
    <3>8. QED
      BY <3>7 DEF Embeds
  <2>7. CASE m.does = "fails"
    <3>1. k.does = "fails" /\ k.what = m.what
      BY <2>1, <2>7 DEF Alike
    <3>2. M = Run(<<>>, 0, tr, Err(m.what))
      BY <2>2, <2>7 DEF Onward
    <3>3. Y = Run(<<>>, 0, After(T, tr), Err(m.what))
      BY <2>3, <3>1 DEF Onward
    <3>4. M.outcome = Err(m.what) /\ M.trace = tr
      BY <3>2, RunFields
    <3>5. M.outcome.kind = "error"
      BY <3>4, OutcomeKinds
    <3>6. QED
      BY <3>3, <3>4, <3>5 DEF Embeds
  <2>8. CASE m.does = "waits"
    <3>1. M = Run(<<b>> \o <<>>, d, tr, NoOutcome)
      BY <2>2, <2>8 DEF Onward
    <3>2. M = E /\ M.outcome = NoOutcome
      BY <1>2, <3>1, RunFields
    <3>3. QED
      BY <3>2 DEF Embeds
  <2>9. QED
    BY <2>1, <2>4, <2>5, <2>6, <2>7, <2>8 DEF Alike
<1>8. QED
  BY <1>5, <1>6, <1>7 DEF Stuck

\* A call of the branch, in front of the others and of what is below them.
TwoPiles(B, S) ==
    \A g, D : IsSeq(D) =>
        /\ (<<g>> \o D) \o B = <<g>> \o (D \o B) /\ (<<g>> \o D) \o S = <<g>> \o (D \o S)
        /\ IsSeq(<<g>> \o D) /\ Len(<<g>> \o D) = Len(D) + 1

\* What is put in front of one pile is put in front of both.
LEMMA InFrontOfBoth ==
    ASSUME NEW B, IsSeq(B), NEW S, IsSeq(S)
    PROVE  TwoPiles(B, S)
<1> SUFFICES ASSUME NEW g, NEW D, IsSeq(D)
             PROVE  /\ (<<g>> \o D) \o B = <<g>> \o (D \o B) /\ (<<g>> \o D) \o S = <<g>> \o (D \o S)
                    /\ IsSeq(<<g>> \o D) /\ Len(<<g>> \o D) = Len(D) + 1
  BY DEF TwoPiles
<1>1. (<<g>> \o D) \o B = <<g>> \o (D \o B)
  BY Pushes
<1>2. (<<g>> \o D) \o S = <<g>> \o (D \o S)
  BY Pushes
<1>3. IsSeq(<<g>> \o D) /\ Len(<<g>> \o D) = Len(D) + 1
  BY Pushed
<1>4. QED
  BY <1>1, <1>2, <1>3

\* A sequence is its head and its tail.
LEMMA Apart ==
    ASSUME NEW C, IsSeq(C), C # <<>>
    PROVE  C = <<Head(C)>> \o Tail(C) /\ IsSeq(Tail(C)) /\ Len(Tail(C)) = Len(C) - 1 /\ Len(C) \in Nat \ {0}
<1> DEFINE U == {C[i] : i \in 1..Len(C)}
<1>1. C \in Seq(U)
  BY DEF IsSeq
<1> HIDE DEF U
<1>2. C = <<Head(C)>> \o Tail(C)
  BY <1>1
<1>3. QED
  BY <1>2, Popped

\* Depths on the two sides of a call.
LEMMA Counting ==
    \A d, n \in Nat : /\ d + ((n + 1) + 1) = (d + (n + 1)) + 1
                      /\ d + ((n - 1) + 1) = (d + (n + 1)) - 1
OBVIOUS

\* A call of the branch is innermost.
LEMMA EmbedBelow ==
    ASSUME NEW I, NEW F, F = Head(I.stack), FrameShape(F), F.focus # NoNode,
           NEW R, R = Tail(I.stack), IsSeq(R), NEW d, d = I.depth, d \in Nat,
           NEW vs, NEW T, TraceShape(T),
           NEW c, NEW C, IsSeq(C), NEW b, BranchOf(F, b), NEW tr, TraceShape(tr),
           StackShape(<<c>> \o (C \o <<b>>)),
           NEW E, E = Run(<<c>> \o (C \o <<b>>), d + (Len(C) + 1), tr, NoOutcome), NEW M, M = TreeWalk(E),
           NEW X, X = Run(<<c>> \o (C \o (<<OnTop(F, vs, b)>> \o R)), d + (Len(C) + 1), After(T, tr), NoOutcome),
           NEW Y, Y = TreeWalk(X)
    PROVE  Embeds(I, vs, T, M, Y)
<1> DEFINE o == OnTop(F, vs, b)
           B == <<b>>
           S == <<o>> \o R
           e == d + (Len(C) + 1)
           m == Move(c, e)
<1>1. IsSeq(B) /\ B # <<>> /\ IsSeq(S) /\ S # <<>> /\ Head(B) = b /\ Tail(B) = <<>> /\ Head(S) = o /\ Tail(S) = R
  BY OneFrame, Pushed, Pushes, EmptyShape
<1>0. IsSeq(B) /\ IsSeq(S)
  BY <1>1
<1> HIDE DEF B, S
<1>a. TwoPiles(B, S)
  BY <1>0, InFrontOfBoth
<1>2. /\ IsSeq(C \o B) /\ IsSeq(C \o S) /\ C \o B # <<>> /\ C \o S # <<>> /\ Len(C) \in Nat
      /\ C = <<>> => C \o B = B /\ C \o S = S
  <2>1. IsSeq(C \o B) /\ IsSeq(C \o S) /\ Len(C) \in Nat
    BY <1>1, Joined
  <2>2. C = <<>> => C \o B = B /\ C \o S = S
    BY <1>1, Joined
  <2>3. C # <<>> => C \o B # <<>> /\ C \o S # <<>>
    BY <1>1, Ahead
  <2>4. QED
    BY <1>1, <2>1, <2>2, <2>3
<1>3. /\ Head(<<c>> \o (C \o B)) = c /\ Tail(<<c>> \o (C \o B)) = C \o B /\ <<c>> \o (C \o B) # <<>>
  BY <1>2, Pushes
<1>4. FrameShape(c) /\ c.phase # "branch" /\ Head(C \o B).work # <<>>
  <2> DEFINE s == <<c>> \o (C \o B)
  <2>1. StackShape(s)
    BY DEF B
  <2>2. Head(s) = c /\ Tail(s) = C \o B /\ s # <<>> /\ Tail(s) # <<>>
    BY <1>2, <1>3
  <2> HIDE DEF s
  <2>3. /\ FrameShape(Head(s)) /\ Head(s).phase # "branch" /\ Head(Tail(s)).work # <<>>
    BY <2>1, <2>2, PopShape
  <2>4. QED
    BY <2>2, <2>3
<1>5. M = Onward(c, C \o B, e, tr, m)
  BY <1>2, RunMoves DEF B
<1>6. Y = Onward(c, C \o S, e, After(T, tr), m)
  BY <1>2, RunMoves DEF S
<1>7. Proper(c, m)
  BY <1>4, MoveShape
<1> HIDE DEF m
<1>8. ASSUME NEW D, IsSeq(D), NEW tr1, M = Run(D \o B, d + Len(D), tr1, NoOutcome),
             Y = Run(D \o S, d + Len(D), After(T, tr1), NoOutcome)
      PROVE  Embeds(I, vs, T, M, Y)
  BY <1>8 DEF Embeds, OnTopOf, B, S
<1>9. CASE m.does = "goes on"
  <2> DEFINE D == <<m.frame>> \o C
  <2>1. IsSeq(D) /\ D \o B = <<m.frame>> \o (C \o B) /\ D \o S = <<m.frame>> \o (C \o S) /\ Len(D) = Len(C) + 1
    BY <1>a DEF TwoPiles
  <2> HIDE DEF D
  <2>2. M = Run(D \o B, d + Len(D), tr, NoOutcome)
    BY <1>5, <1>9, <2>1 DEF Onward
  <2>3. Y = Run(D \o S, d + Len(D), After(T, tr), NoOutcome)
    BY <1>6, <1>9, <2>1 DEF Onward
  <2>4. QED
    BY <1>8, <2>1, <2>2, <2>3
<1>10. CASE m.does = "performs"
  <2> DEFINE D == <<m.frame>> \o C
             tr1 == Noted(tr, m.what, m.effects)
  <2>1. IsSeq(D) /\ D \o B = <<m.frame>> \o (C \o B) /\ D \o S = <<m.frame>> \o (C \o S) /\ Len(D) = Len(C) + 1
    BY <1>a DEF TwoPiles
  <2> HIDE DEF D
  <2>2. M = Run(D \o B, d + Len(D), tr1, NoOutcome)
    BY <1>5, <1>10, <2>1 DEF Onward
  <2>3. Y = Run(D \o S, d + Len(D), Noted(After(T, tr), m.what, m.effects), NoOutcome)
    BY <1>6, <1>10, <2>1 DEF Onward
  <2>4. Noted(After(T, tr), m.what, m.effects) = After(T, tr1)
    BY NotedAfter
  <2> HIDE DEF tr1
  <2>5. QED
    BY <1>8, <2>1, <2>2, <2>3, <2>4
<1>11. CASE m.does = "invokes"
  <2> DEFINE D0 == <<c>> \o C
             D == <<m.frame>> \o D0
  <2>1. IsSeq(D0) /\ D0 \o B = <<c>> \o (C \o B) /\ D0 \o S = <<c>> \o (C \o S) /\ Len(D0) = Len(C) + 1
    BY <1>a DEF TwoPiles
  <2> HIDE DEF D0
  <2>2. IsSeq(D) /\ D \o B = <<m.frame>> \o (D0 \o B) /\ D \o S = <<m.frame>> \o (D0 \o S) /\ Len(D) = Len(D0) + 1
    BY <2>1, <1>a DEF TwoPiles
  <2>3. d + Len(D) = e + 1
    <3> DEFINE n == Len(C)
    <3>1. n \in Nat /\ Len(D) = (n + 1) + 1
      BY <1>2, <2>1, <2>2
    <3> HIDE DEF n, D
    <3>2. d + ((n + 1) + 1) = (d + (n + 1)) + 1
      BY <3>1, Counting
    <3>3. QED
      BY <3>1, <3>2 DEF n
  <2> HIDE DEF D
  <2>4. M = Run(D \o B, d + Len(D), tr, NoOutcome)
    BY <1>5, <1>11, <2>1, <2>2, <2>3 DEF Onward
  <2>5. Y = Run(D \o S, d + Len(D), After(T, tr), NoOutcome)
    BY <1>6, <1>11, <2>1, <2>2, <2>3 DEF Onward
  <2>6. QED
    BY <1>8, <2>2, <2>4, <2>5
<1>12. CASE m.does = "fails"
  <2>1. M = Run(<<>>, 0, tr, Err(m.what)) /\ Y = Run(<<>>, 0, After(T, tr), Err(m.what))
    BY <1>5, <1>6, <1>12 DEF Onward
  <2>2. M.outcome = Err(m.what) /\ M.trace = tr
    BY <2>1, RunFields
  <2>3. M.outcome.kind = "error"
    BY <2>2, OutcomeKinds
  <2>4. QED
    BY <2>1, <2>2, <2>3 DEF Embeds
<1>13. CASE m.does = "waits"
  <2>1. M = E
    BY <1>5, <1>13 DEF Onward, B
  <2>2. M.outcome = NoOutcome
    BY <2>1, RunFields
  <2>3. QED
    BY <2>1, <2>2 DEF Embeds
<1>14. CASE m.does = "returns" /\ C # <<>>
  <2> DEFINE h == Head(C)
             z == Tail(C)
             g == Finish(h, m.what)
             D == <<g>> \o z
  <2>1. IsSeq(z) /\ Len(z) = Len(C) - 1 /\ Len(C) \in Nat \ {0}
    BY <1>14, Apart
  <2>2. Head(C \o B) = h /\ Tail(C \o B) = z \o B /\ Head(C \o S) = h /\ Tail(C \o S) = z \o S
    BY <1>1, <1>14, Ahead
  <2> HIDE DEF z, h
  <2>3. IsSeq(D) /\ D \o B = <<g>> \o (z \o B) /\ D \o S = <<g>> \o (z \o S) /\ Len(D) = Len(z) + 1
    BY <2>1, <1>a DEF TwoPiles
  <2>4. d + Len(D) = e - 1
    <3> DEFINE n == Len(C)
    <3>1. n \in Nat \ {0} /\ Len(D) = (n - 1) + 1
      BY <2>1, <2>3
    <3> HIDE DEF n, D
    <3>2. d + ((n - 1) + 1) = (d + (n + 1)) - 1
      BY <3>1, Counting
    <3>3. QED
      BY <3>1, <3>2 DEF n
  <2> HIDE DEF D
  <2>5. M = Run(D \o B, d + Len(D), tr, NoOutcome)
    BY <1>2, <1>5, <1>14, <2>2, <2>3, <2>4 DEF Onward
  <2>6. Y = Run(D \o S, d + Len(D), After(T, tr), NoOutcome)
    BY <1>2, <1>6, <1>14, <2>2, <2>3, <2>4 DEF Onward
  <2>7. QED
    BY <1>8, <2>3, <2>5, <2>6
<1>15. CASE m.does = "returns" /\ C = <<>>
  <2>1. Len(C) = 0 /\ e - 1 = d /\ b.work # <<>>
    BY <1>1, <1>2, <1>4, <1>15
  <2> DEFINE g == Finish(b, m.what)
             p == Finish(o, m.what)
  <2>2. BranchOf(F, g) /\ (Stuck(g) \/ p = OnTop(F, vs, g))
    BY <2>1, FinishOnTop
  <2>3. IsSeq(<<>>) /\ <<g>> \o <<>> = <<g>>
    BY EmptyShape, Pushes
  <2>4. M = Run(<<g>>, d, tr, NoOutcome)
    BY <1>1, <1>2, <1>5, <1>15, <2>1, <2>3 DEF Onward
  <2>5. Y = Run(<<p>> \o R, d, After(T, tr), NoOutcome)
    BY <1>1, <1>2, <1>6, <1>15, <2>1 DEF Onward
  <2> HIDE DEF g, p
  <2>6. CASE Stuck(g)
    <3>1. TreeWalk(M) = M
      BY <2>2, <2>4, <2>6, StuckStays DEF BranchOf
    <3>2. M.outcome = NoOutcome
      BY <2>4, RunFields
    <3>3. QED
      BY <3>1, <3>2 DEF Embeds
  <2>7. CASE p = OnTop(F, vs, g)
    <3> DEFINE V == <<OnTop(F, vs, g)>> \o R
    <3>1. IsSeq(V) /\ IsSeq(<<g>>)
      BY Pushed, OneFrame
    <3>2. Y = Run(V, d, After(T, tr), NoOutcome)
      BY <2>5, <2>7
    <3> HIDE DEF V
    <3>3. <<>> \o V = V /\ <<>> \o <<g>> = <<g>> /\ Len(<<>>) = 0 /\ d + 0 = d
      <4>1. <<>> \o V = V
        BY <2>3, <3>1, Joined
      <4>2. <<>> \o <<g>> = <<g>>
        BY <2>3, <3>1, Joined
      <4>3. QED
        BY <4>1, <4>2
    <3>4. M = Run(<<>> \o <<g>>, I.depth + Len(<<>>), tr, NoOutcome)
      BY <2>4, <3>3
    <3>5. Y = Run(<<>> \o V, I.depth + Len(<<>>), After(T, tr), NoOutcome)
      BY <3>2, <3>3
    <3>6. OnTopOf(I, vs, T, M, Y)
      BY <2>2, <2>3, <3>4, <3>5 DEF OnTopOf, V
    <3>7. QED
      BY <3>6 DEF Embeds
  <2>8. QED
    BY <2>2, <2>6, <2>7
<1>16. m.does # "ends"
  BY <1>4, <1>7 DEF Proper
<1>17. QED
  BY <1>7, <1>9, <1>10, <1>11, <1>12, <1>13, <1>14, <1>15, <1>16 DEF Proper

\* A step of the branch is a step of the interpreter above it, or none.
LEMMA EmbedStep ==
    ASSUME NEW I, RunShape(I), I.outcome = NoOutcome, Head(I.stack).focus # NoNode, I.depth \in Nat,
           NEW vs, NEW T, TraceShape(T), NEW E, RunShape(E), NEW X, OnTopOf(I, vs, T, E, X)
    PROVE  Embeds(I, vs, T, TreeWalk(E), TreeWalk(X)) \/ Embeds(I, vs, T, TreeWalk(E), X)
<1> DEFINE F == Head(I.stack)
           R == Tail(I.stack)
           d == I.depth
<1>1. FrameShape(F) /\ StackShape(R) /\ IsSeq(R)
  BY PopShape DEF RunShape, StackShape
<1>2. PICK C, b, tr :
        /\ IsSeq(C) /\ BranchOf(F, b)
        /\ E = Run(C \o <<b>>, d + Len(C), tr, NoOutcome)
        /\ X = Run(C \o (<<OnTop(F, vs, b)>> \o R), d + Len(C), After(T, tr), NoOutcome)
  BY DEF OnTopOf
<1>3. StackShape(C \o <<b>>) /\ TraceShape(tr)
  BY <1>2, RunFields DEF RunShape
<1> DEFINE S == <<OnTop(F, vs, b)>> \o R
<1>4. IsSeq(S) /\ IsSeq(<<b>>)
  BY <1>1, Pushed, OneFrame
<1>5. F = Head(I.stack) /\ R = Tail(I.stack) /\ d = I.depth /\ F.focus # NoNode /\ d \in Nat
  OBVIOUS
<1>6. CASE C = <<>>
  <2>1. E = Run(<<b>>, d, tr, NoOutcome)
    <3>1. <<>> \o <<b>> = <<b>> /\ Len(<<>>) = 0
      BY <1>4, Joined
    <3>2. QED
      BY <1>2, <1>5, <1>6, <3>1
  <2>2. X = Run(S, d, After(T, tr), NoOutcome)
    <3> HIDE DEF S
    <3>1. <<>> \o S = S /\ Len(<<>>) = 0
      BY <1>4, Joined
    <3>2. X = Run(C \o S, d + Len(C), After(T, tr), NoOutcome)
      BY <1>2 DEF S
    <3>3. QED
      BY <1>5, <1>6, <3>1, <3>2
  <2> HIDE DEF F, R, d
  <2>3. Embeds(I, vs, T, TreeWalk(E), TreeWalk(X)) \/ Embeds(I, vs, T, TreeWalk(E), X)
    BY <1>1, <1>2, <1>3, <1>5, <2>1, <2>2, EmbedTop
  <2>4. QED
    BY <2>3
<1>7. CASE C # <<>>
  <2> DEFINE c == Head(C)
             D == Tail(C)
             B == <<b>>
  <2>1. C = <<c>> \o D /\ IsSeq(D) /\ Len(C) = Len(D) + 1
    BY <1>2, <1>7, Apart
  <2>2. C \o B = <<c>> \o (D \o B) /\ C \o S = <<c>> \o (D \o S)
    <3>0. IsSeq(B) /\ IsSeq(S)
      BY <1>4
    <3> HIDE DEF B, S, c, D
    <3>1. TwoPiles(B, S)
      BY <3>0, InFrontOfBoth
    <3>2. QED
      BY <2>1, <3>1 DEF TwoPiles
  <2>3. E = Run(<<c>> \o (D \o B), d + (Len(D) + 1), tr, NoOutcome) /\ StackShape(<<c>> \o (D \o B))
    BY <1>2, <1>3, <2>1, <2>2
  <2>4. X = Run(<<c>> \o (D \o S), d + (Len(D) + 1), After(T, tr), NoOutcome)
    BY <1>2, <2>1, <2>2
  <2> HIDE DEF F, R, d, c, D
  <2>5. Embeds(I, vs, T, TreeWalk(E), TreeWalk(X))
    BY <1>1, <1>2, <1>3, <1>5, <2>1, <2>3, <2>4, EmbedBelow
  <2>6. QED
    BY <2>5
<1>8. QED
  BY <1>6, <1>7

-----------------------------------------------------------------------------
(***************************************************************************)
(* Walks: some number of steps of the tree walker.                         *)
(***************************************************************************)
Path(r, n) == \A k \in 0..(n - 1) : r[k + 1] = TreeWalk(r[k])

Walk(I, J) == \E n \in Nat : \E r : r[0] = I /\ r[n] = J /\ Path(r, n)

\* The walk of no step.
LEMMA NoWalk == \A I : Walk(I, I)
<1> SUFFICES ASSUME NEW I
             PROVE  Walk(I, I)
  OBVIOUS
<1> DEFINE r == [k \in {0} |-> I]
<1>1. r[0] = I
  OBVIOUS
<1>2. Path(r, 0)
  BY DEF Path
<1> HIDE DEF r
<1>3. QED
  BY <1>1, <1>2 DEF Walk

\* The walk of one step.
LEMMA OneStep == \A I : Walk(I, TreeWalk(I))
<1> SUFFICES ASSUME NEW I
             PROVE  Walk(I, TreeWalk(I))
  OBVIOUS
<1> DEFINE r == [k \in {0, 1} |-> IF k = 0 THEN I ELSE TreeWalk(I)]
<1>1. r[0] = I /\ r[1] = TreeWalk(I)
  OBVIOUS
<1> HIDE DEF r
<1>2. Path(r, 1)
  <2>1. 0..(1 - 1) = {0}
    OBVIOUS
  <2>2. QED
    BY <1>1, <2>1 DEF Path
<1>3. QED
  BY <1>1, <1>2 DEF Walk

\* A walk after a walk.
LEMMA WalkOn ==
    ASSUME NEW I, NEW J, NEW K, Walk(I, J), Walk(J, K)
    PROVE  Walk(I, K)
<1>w1. PICK n \in Nat : \E p : p[0] = I /\ p[n] = J /\ Path(p, n)
  BY DEF Walk
<1>1. PICK p : p[0] = I /\ p[n] = J /\ Path(p, n)
  BY <1>w1
<1>w2. PICK m \in Nat : \E q : q[0] = J /\ q[m] = K /\ Path(q, m)
  BY DEF Walk
<1>2. PICK q : q[0] = J /\ q[m] = K /\ Path(q, m)
  BY <1>w2
<1> DEFINE r == [k \in Nat |-> IF k <= n THEN p[k] ELSE q[k - n]]
<1>3. r[0] = I
  BY <1>1
<1>4. r[n + m] = K
  <2>1. CASE m = 0
    BY <1>1, <1>2, <2>1
  <2>2. CASE m # 0
    <3>1. n + m \in Nat /\ ~(n + m <= n) /\ (n + m) - n = m
      BY <2>2
    <3>2. QED
      BY <1>2, <3>1
  <2>3. QED
    BY <2>1, <2>2
<1>5. ASSUME NEW k \in 0..((n + m) - 1)
      PROVE  r[k + 1] = TreeWalk(r[k])
  <2>0. r[n] = J /\ \A i \in 0..n : r[i] = p[i]
    BY <1>1
  <2>1. \A i \in 0..m : r[n + i] = q[i]
    <3> SUFFICES ASSUME NEW i \in 0..m
                 PROVE  r[n + i] = q[i]
      OBVIOUS
    <3>1. CASE i = 0
      BY <1>2, <2>0, <3>1
    <3>2. CASE i # 0
      <4>1. n + i \in Nat /\ ~(n + i <= n) /\ (n + i) - n = i
        BY <3>2
      <4>2. QED
        BY <4>1
    <3>3. QED
      BY <3>1, <3>2
  <2> HIDE DEF r
  <2>2. CASE k < n
    <3>1. k \in 0..(n - 1) /\ k \in 0..n /\ k + 1 \in 0..n
      BY <2>2
    <3>2. p[k + 1] = TreeWalk(p[k])
      BY <1>1, <3>1 DEF Path
    <3>3. QED
      BY <2>0, <3>1, <3>2
  <2>3. CASE ~(k < n)
    <3> DEFINE i == k - n
    <3>1. i \in 0..(m - 1) /\ i \in 0..m /\ i + 1 \in 0..m /\ k = n + i /\ k + 1 = n + (i + 1)
      BY <2>3
    <3> HIDE DEF i
    <3>2. q[i + 1] = TreeWalk(q[i])
      BY <1>2, <3>1 DEF Path
    <3>3. r[k] = q[i] /\ r[k + 1] = q[i + 1]
      BY <2>1, <3>1
    <3>4. QED
      BY <3>2, <3>3
  <2>4. QED
    BY <2>2, <2>3
<1>6. Path(r, n + m) /\ n + m \in Nat
  BY <1>5 DEF Path
<1> HIDE DEF r
<1>7. QED
  BY <1>3, <1>4, <1>6 DEF Walk

\* Induction along a walk.
LEMMA PathInduct ==
    ASSUME NEW n \in Nat, NEW S, 0 \in S, \A k \in 0..(n - 1) : k \in S => k + 1 \in S
    PROVE  \A k \in 0..n : k \in S
<1> DEFINE V == {k \in Nat : k <= n => k \in S}
<1>1. 0 \in V
  OBVIOUS
<1>2. \A k \in Nat : k \in V => k + 1 \in V
  <2> SUFFICES ASSUME NEW k \in Nat, k <= n => k \in S, k + 1 <= n
               PROVE  k + 1 \in S
    OBVIOUS
  <2>1. k \in 0..(n - 1) /\ k <= n
    OBVIOUS
  <2>2. QED
    BY <2>1
<1> HIDE DEF V
<1>3. Nat \subseteq V
  BY <1>1, <1>2, NatInduct
<1>4. QED
  BY <1>3 DEF V

\* Walks keep the shape of an interpreter.
LEMMA WalkShape ==
    ASSUME NEW I, RunShape(I), NEW J, Walk(I, J)
    PROVE  RunShape(J)
<1>w1. PICK n \in Nat : \E r : r[0] = I /\ r[n] = J /\ Path(r, n)
  BY DEF Walk
<1>1. PICK r : r[0] = I /\ r[n] = J /\ Path(r, n)
  BY <1>w1
<1> DEFINE S == {k \in 0..n : RunShape(r[k])}
<1>2. 0 \in S
  BY <1>1
<1>3. \A k \in 0..(n - 1) : k \in S => k + 1 \in S
  <2> SUFFICES ASSUME NEW k \in 0..(n - 1), RunShape(r[k])
               PROVE  k + 1 \in 0..n /\ RunShape(r[k + 1])
    OBVIOUS
  <2>1. r[k + 1] = TreeWalk(r[k])
    BY <1>1 DEF Path
  <2>2. QED
    BY <2>1, WalkKeeps
<1> HIDE DEF S
<1>4. n \in S
  BY <1>2, <1>3, PathInduct
<1>5. QED
  BY <1>1, <1>4 DEF S

\* The tree walker is deterministic: it has one end.
LEMMA OneEnd ==
    ASSUME NEW I, NEW J, NEW K, Walk(I, J), Walk(I, K), J.outcome # NoOutcome, K.outcome # NoOutcome
    PROVE  J = K
<1>1. ASSUME NEW n \in Nat, NEW p, p[0] = I, Path(p, n), p[n].outcome # NoOutcome,
             NEW m \in Nat, NEW q, q[0] = I, Path(q, m), n <= m
      PROVE  q[m] = p[n]
  <2> DEFINE S == {k \in 0..m : q[k] = IF k <= n THEN p[k] ELSE p[n]}
  <2>1. 0 \in S
    BY <1>1
  <2>2. \A k \in 0..(m - 1) : k \in S => k + 1 \in S
    <3> SUFFICES ASSUME NEW k \in 0..(m - 1), q[k] = IF k <= n THEN p[k] ELSE p[n]
                 PROVE  k + 1 \in 0..m /\ q[k + 1] = IF k + 1 <= n THEN p[k + 1] ELSE p[n]
      OBVIOUS
    <3>1. q[k + 1] = TreeWalk(q[k])
      BY <1>1 DEF Path
    <3>2. TreeWalk(p[n]) = p[n]
      BY <1>1 DEF TreeWalk
    <3>3. CASE k < n
      <4>1. k \in 0..(n - 1) /\ k <= n /\ k + 1 <= n
        BY <3>3
      <4>2. p[k + 1] = TreeWalk(p[k])
        BY <1>1, <4>1 DEF Path
      <4>3. QED
        BY <3>1, <4>1, <4>2
    <3>4. CASE ~(k < n)
      <4>1. ~(k + 1 <= n) /\ q[k] = p[n]
        BY <3>4
      <4>2. QED
        BY <3>1, <3>2, <4>1
    <3>5. QED
      BY <3>3, <3>4
  <2> HIDE DEF S
  <2>3. m \in S
    BY <2>1, <2>2, PathInduct
  <2>4. q[m] = IF m <= n THEN p[m] ELSE p[n]
    BY <2>3 DEF S
  <2>5. m <= n => m = n
    BY <1>1
  <2>6. QED
    BY <2>4, <2>5
<1>w2. PICK n \in Nat : \E p : p[0] = I /\ p[n] = J /\ Path(p, n)
  BY DEF Walk
<1>2. PICK p : p[0] = I /\ p[n] = J /\ Path(p, n)
  BY <1>w2
<1>w3. PICK m \in Nat : \E q : q[0] = I /\ q[m] = K /\ Path(q, m)
  BY DEF Walk
<1>3. PICK q : q[0] = I /\ q[m] = K /\ Path(q, m)
  BY <1>w3
<1>4. n <= m \/ m <= n
  OBVIOUS
<1>5. QED
  BY <1>1, <1>2, <1>3, <1>4

-----------------------------------------------------------------------------
(***************************************************************************)
(* The walk of a branch, for the walk of the interpreter above.            *)
(***************************************************************************)

\* I about to evaluate part n of its concatenation, after parts with the values vs.
PartRun(I, n, vs, T) ==
    Run(<<Framed(Head(I.stack), n, Waiting(Head(I.stack), vs), Head(I.stack).locals)>> \o Tail(I.stack),
        I.depth, T, NoOutcome)

\* Whatever came before, E is as far with part n as I would be.
Matches(I, n, E) ==
    \A vs, T : TraceShape(T) => \E X : Walk(PartRun(I, n, vs, T), X) /\ Embeds(I, vs, T, E, X)

\* An interpreter that waits at an expression.
Paused(I) == RunShape(I) /\ I.outcome = NoOutcome /\ Head(I.stack).focus # NoNode /\ I.depth \in Nat

\* A step of a branch is a walk of the interpreter above, in all three cases of Matches.
LEMMA MatchStep ==
    ASSUME NEW I, Paused(I), NEW n, NEW E, RunShape(E), Matches(I, n, E)
    PROVE  Matches(I, n, TreeWalk(E))
<1> SUFFICES ASSUME NEW vs, NEW T, TraceShape(T)
             PROVE  \E X : Walk(PartRun(I, n, vs, T), X) /\ Embeds(I, vs, T, TreeWalk(E), X)
  BY DEF Matches
<1>1. PICK X : Walk(PartRun(I, n, vs, T), X) /\ Embeds(I, vs, T, E, X)
  BY DEF Matches
<1>2. CASE OnTopOf(I, vs, T, E, X)
  <2>1. Embeds(I, vs, T, TreeWalk(E), TreeWalk(X)) \/ Embeds(I, vs, T, TreeWalk(E), X)
    BY <1>2, EmbedStep DEF Paused
  <2>2. Walk(PartRun(I, n, vs, T), TreeWalk(X))
    BY <1>1, OneStep, WalkOn
  <2>3. QED
    BY <1>1, <2>1, <2>2
<1>3. CASE ~OnTopOf(I, vs, T, E, X)
  <2>1. TreeWalk(E) = E
    <3>1. CASE E.outcome.kind \in {"error", "value"}
      <4>1. E.outcome # NoOutcome
        BY <3>1 DEF NoOutcome
      <4>2. QED
        BY <4>1 DEF TreeWalk
    <3>2. CASE E.outcome.kind \notin {"error", "value"}
      BY <1>1, <1>3, <3>2 DEF Embeds
    <3>3. QED
      BY <3>1, <3>2
  <2>2. QED
    BY <1>1, <2>1
<1>4. QED
  BY <1>2, <1>3

\* The depth of an interpreter that has ended does not matter.
LEMMA MatchSeen ==
    ASSUME NEW I, NEW n, NEW E, RunShape(E), Matches(I, n, Seen(E))
    PROVE  Matches(I, n, E)
<1>1. CASE E.outcome = NoOutcome
  BY <1>1 DEF Seen
<1>2. CASE E.outcome # NoOutcome
  <2> DEFINE G == [E EXCEPT !.depth = 0]
  <2>1. Seen(E) = G /\ G.outcome = E.outcome /\ G.trace = E.trace
    BY <1>2 DEF Seen, RunShape
  <2> HIDE DEF G
  <2> SUFFICES ASSUME NEW vs, NEW T, TraceShape(T)
               PROVE  \E X : Walk(PartRun(I, n, vs, T), X) /\ Embeds(I, vs, T, E, X)
    BY DEF Matches
  <2>2. PICK X : Walk(PartRun(I, n, vs, T), X) /\ Embeds(I, vs, T, G, X)
    BY <2>1 DEF Matches
  <2>3. ~OnTopOf(I, vs, T, G, X)
    <3> SUFFICES ASSUME OnTopOf(I, vs, T, G, X)
                 PROVE  FALSE
      OBVIOUS
    <3>1. PICK s, d, tr : G = Run(s, d, tr, NoOutcome)
      BY DEF OnTopOf
    <3>2. G.outcome = NoOutcome
      BY <3>1, RunFields
    <3>3. QED
      BY <1>2, <2>1, <3>2
  <2>4. Embeds(I, vs, T, E, X)
    BY <1>2, <2>1, <2>2, <2>3 DEF Embeds
  <2>5. QED
    BY <2>2, <2>4
<1>3. QED
  BY <1>1, <1>2

\* So is a walk of a branch.
LEMMA MatchWalk ==
    ASSUME NEW I, Paused(I), NEW n, NEW E, RunShape(E), Matches(I, n, E), NEW J, Walk(E, J)
    PROVE  Matches(I, n, J)
<1>w1. PICK m \in Nat : \E r : r[0] = E /\ r[m] = J /\ Path(r, m)
  BY DEF Walk
<1>1. PICK r : r[0] = E /\ r[m] = J /\ Path(r, m)
  BY <1>w1
<1> DEFINE S == {k \in 0..m : RunShape(r[k]) /\ Matches(I, n, r[k])}
<1>2. 0 \in S
  BY <1>1
<1>3. \A k \in 0..(m - 1) : k \in S => k + 1 \in S
  <2> SUFFICES ASSUME NEW k \in 0..(m - 1), RunShape(r[k]), Matches(I, n, r[k])
               PROVE  k + 1 \in 0..m /\ RunShape(r[k + 1]) /\ Matches(I, n, r[k + 1])
    OBVIOUS
  <2>1. r[k + 1] = TreeWalk(r[k])
    BY <1>1 DEF Path
  <2>2. QED
    BY <2>1, WalkKeeps, MatchStep
<1> HIDE DEF S
<1>4. m \in S
  BY <1>2, <1>3, PathInduct
<1>5. QED
  BY <1>1, <1>4 DEF S

\* A branch before its first step.
LEMMA MatchStart ==
    ASSUME NEW I, Paused(I), NEW n, NEW E, E = Interp(<<BranchFrame(Head(I.stack), n)>>, I.depth)
    PROVE  Matches(I, n, E) /\ RunShape(E)
<1> DEFINE F == Head(I.stack)
           R == Tail(I.stack)
           b == BranchFrame(F, n)
           al == Allowed(F)
<1>1. FrameShape(F) /\ F.focus # NoNode /\ IsSeq(R)
  BY PopShape DEF Paused, RunShape, StackShape
<1>2. IsSeq(<<>>) /\ 1..Len(<<>>) = {} /\ Len(<<>>) = 0
  BY EmptyShape
<1>3. /\ DOMAIN b = Fields /\ b.phase = "branch" /\ b.allowed = al /\ b.focus = n /\ b.work = <<>>
      /\ b.given = NoValue /\ b.locals = F.locals
  <2> HIDE DEF al
  <2>1. b = [F EXCEPT !.phase = "branch", !.allowed = al, !.focus = n, !.work = <<>>]
    BY DEF BranchFrame, al
  <2> HIDE DEF b, F
  <2>2. QED
    BY <1>1, <2>1 DEF FrameShape, Fields
<1> HIDE DEF b
<1>4. FrameShape(b) /\ BranchOf(F, b)
  BY <1>2, <1>3 DEF FrameShape, BranchOf, Base
<1>5. E = Run(<<b>>, I.depth, Silence, NoOutcome)
  BY DEF Interp, Run, b
<1>6. IsSeq(<<b>>) /\ Len(<<b>>) = 1 /\ <<b>> # <<>>
  BY OneFrame, Pushes, <1>2
<1>7. TraceShape(Silence)
  BY <1>2 DEF TraceShape, Silence
<1>8. StackShape(<<b>>)
  <2>1. \A i \in 1..Len(<<b>>) : i = 1 /\ <<b>>[i] = b
    BY <1>6
  <2>2. 2..Len(<<b>>) = {}
    BY <1>6
  <2>3. QED
    BY <1>4, <1>6, <2>1, <2>2 DEF StackShape
<1>9. RunShape(E)
  BY <1>5, <1>6, <1>7, <1>8, RunFields DEF RunShape
<1>10. ASSUME NEW vs, NEW T, TraceShape(T)
       PROVE  \E X : Walk(PartRun(I, n, vs, T), X) /\ Embeds(I, vs, T, E, X)
  <2> DEFINE W == Waiting(F, vs)
             X == PartRun(I, n, vs, T)
             S == <<OnTop(F, vs, b)>> \o R
             B == <<b>>
  <2>1. Walk(X, X)
    BY NoWalk
  <2>2. OnTop(F, vs, b) = Framed(F, n, W, F.locals)
    <3>1. IsSeq(W)
      BY <1>1, Holding
    <3> HIDE DEF W
    <3>2. <<>> \o W = W
      BY <1>2, <3>1, Joined
    <3>3. QED
      BY <1>3, <3>2 DEF OnTop, W
  <2>3. X = Run(S, I.depth, T, NoOutcome)
    BY <2>2 DEF PartRun
  <2>4. After(T, Silence) = T
    <3>1. ASSUME NEW e \in Effects
          PROVE  T[e] \o Silence[e] = T[e]
      <4> DEFINE s == T[e]
      <4>1. IsSeq(s) /\ Silence[e] = <<>>
        BY <1>10 DEF TraceShape, Silence
      <4> HIDE DEF s
      <4>2. s \o <<>> = s
        BY <1>2, <4>1, Joined
      <4>3. QED
        BY <4>1, <4>2 DEF s
    <3>2. After(T, Silence) = [e \in Effects |-> T[e]]
      BY <3>1 DEF After
    <3>3. QED
      BY <1>10, <3>2 DEF TraceShape
  <2>5. IsSeq(S) /\ IsSeq(B)
    BY <1>1, <1>6, Pushed
  <2> HIDE DEF S, B, X
  <2>6. <<>> \o S = S /\ <<>> \o B = B
    BY <1>2, <2>5, Joined
  <2>7. I.depth + Len(<<>>) = I.depth
    BY <1>2 DEF Paused
  <2>8. E = Run(<<>> \o B, I.depth + Len(<<>>), Silence, NoOutcome)
    BY <1>5, <2>6, <2>7 DEF B
  <2>9. X = Run(<<>> \o S, I.depth + Len(<<>>), After(T, Silence), NoOutcome)
    BY <2>3, <2>4, <2>6, <2>7
  <2>10. OnTopOf(I, vs, T, E, X)
    BY <1>2, <1>4, <2>8, <2>9 DEF OnTopOf, B, S
  <2>11. QED
    BY <2>1, <2>10 DEF Embeds, X
<1>11. QED
  BY <1>9, <1>10 DEF Matches

\* The largest number of a set of numbers up to n.
LEMMA Largest ==
    ASSUME NEW n \in Nat, NEW s \in SUBSET (1..(n + 1)), n + 1 \in s
    PROVE  Max(s) = n + 1
<1>1. \A y \in s : n + 1 >= y
  OBVIOUS
<1>2. \A x \in s : (\A y \in s : x >= y) => x = n + 1
  OBVIOUS
<1>3. QED
  BY <1>1, <1>2 DEF Max

\* Max, for the sets it is used with.
LEMMA LargestIn ==
    ASSUME NEW n \in Nat, NEW s \in SUBSET (1..n), s # {}
    PROVE  Max(s) \in s
<1> DEFINE S == {m \in Nat : \A u \in SUBSET (1..m) : u # {} => Max(u) \in u}
<1>1. 0 \in S
  <2>1. \A u \in SUBSET (1..0) : u = {}
    OBVIOUS
  <2>2. QED
    BY <2>1
<1>2. \A m \in Nat : m \in S => m + 1 \in S
  <2> SUFFICES ASSUME NEW m \in Nat, m \in S, NEW u \in SUBSET (1..(m + 1)), u # {}
               PROVE  Max(u) \in u
    OBVIOUS
  <2>1. CASE m + 1 \in u
    BY <2>1, Largest
  <2>2. CASE m + 1 \notin u
    <3>1. u \in SUBSET (1..m)
      BY <2>2
    <3>2. QED
      BY <3>1
  <2>3. QED
    BY <2>1, <2>2
<1> HIDE DEF S
<1>3. n \in S
  BY <1>1, <1>2, NatInduct
<1>4. QED
  BY <1>3 DEF S

\* The fold from left to right that puts w[i] behind what there is, for every i in L.
Folding(g, n, b, L, w) ==
    g = [s \in SUBSET (1..n) |->
           IF s = {} THEN b
           ELSE IF Max(s) \in L THEN g[s \ {Max(s)}] \o w[Max(s)] ELSE g[s \ {Max(s)}]]

\* Such a fold exists: by induction over the length.
LEMMA FoldingExists ==
    ASSUME NEW N \in Nat, NEW b, NEW L, NEW w
    PROVE  \E g : Folding(g, N, b, L, w)
<1> DEFINE P(a, i) == IF i \in L THEN a \o w[i] ELSE a
           Solves(g, n) == g = [s \in SUBSET (1..n) |-> IF s = {} THEN b ELSE P(g[s \ {Max(s)}], Max(s))]
           S == {n \in Nat : \E g : Solves(g, n)}
<1> HIDE DEF P
<1>1. 0 \in S
  <2> DEFINE g == [s \in SUBSET (1..0) |-> b]
  <2>1. SUBSET (1..0) = {{}}
    OBVIOUS
  <2>2. Solves(g, 0)
    BY <2>1
  <2> HIDE DEF Solves, g
  <2>3. QED
    BY <2>2
<1>2. \A n \in Nat : n \in S => n + 1 \in S
  <2> SUFFICES ASSUME NEW n \in Nat, n \in S
               PROVE  n + 1 \in S
    OBVIOUS
  <2>0. PICK g : Solves(g, n)
    OBVIOUS
  <2> DEFINE h == [s \in SUBSET (1..(n + 1)) |->
                      IF n + 1 \in s THEN P(g[s \ {n + 1}], n + 1) ELSE g[s]]
  <2>1. ASSUME NEW s \in SUBSET (1..(n + 1))
        PROVE  h[s] = IF s = {} THEN b ELSE P(h[s \ {Max(s)}], Max(s))
    <3>1. CASE n + 1 \in s
      <4>1. Max(s) = n + 1
        BY <3>1, Largest
      <4>2. s \ {n + 1} \in SUBSET (1..(n + 1)) /\ n + 1 \notin s \ {n + 1}
        OBVIOUS
      <4>3. h[s \ {n + 1}] = g[s \ {n + 1}]
        BY <4>2
      <4>4. h[s] = P(g[s \ {n + 1}], n + 1)
        BY <3>1
      <4>5. QED
        BY <3>1, <4>1, <4>3, <4>4
    <3>2. CASE n + 1 \notin s
      <4>1. s \in SUBSET (1..n)
        BY <3>2
      <4>2. g[s] = IF s = {} THEN b ELSE P(g[s \ {Max(s)}], Max(s))
        BY <2>0, <4>1
      <4>3. h[s] = g[s]
        BY <3>2
      <4>4. s \ {Max(s)} \in SUBSET (1..(n + 1)) /\ n + 1 \notin s \ {Max(s)}
        BY <3>2
      <4>5. h[s \ {Max(s)}] = g[s \ {Max(s)}]
        BY <4>4
      <4>6. QED
        BY <4>2, <4>3, <4>5
    <3>3. QED
      BY <3>1, <3>2
  <2>2. h = [s \in SUBSET (1..(n + 1)) |-> h[s]]
    OBVIOUS
  <2>3. Solves(h, n + 1)
    <3> HIDE DEF h
    <3>1. QED
      BY <2>1, <2>2
  <2> HIDE DEF Solves, h
  <2>4. QED
    BY <2>3
<1> HIDE DEF S
<1>3. N \in S
  BY <1>1, <1>2, NatInduct
<1>4. PICK g : Solves(g, N)
  BY <1>3 DEF S
<1>5. Folding(g, N, b, L, w)
  BY <1>4 DEF Folding, P
<1>6. QED
  BY <1>5

\* What it is, one step at a time.
LEMMA FoldingSteps ==
    ASSUME NEW N \in Nat, NEW b, NEW L, NEW w, NEW g, Folding(g, N, b, L, w)
    PROVE  /\ g[1..0] = b
           /\ \A i \in 1..N : g[1..i] = IF i \in L THEN g[1..(i - 1)] \o w[i] ELSE g[1..(i - 1)]
<1> DEFINE P(a, i) == IF i \in L THEN a \o w[i] ELSE a
<1>1. g = [s \in SUBSET (1..N) |-> IF s = {} THEN b ELSE P(g[s \ {Max(s)}], Max(s))]
  BY DEF Folding
<1> HIDE DEF P
<1>2. g[1..0] = b
  <2>1. 1..0 = {} /\ {} \in SUBSET (1..N)
    OBVIOUS
  <2>2. g[{}] = b
    BY <1>1, <2>1
  <2>3. QED
    BY <2>1, <2>2
<1>3. ASSUME NEW i \in 1..N
      PROVE  g[1..i] = P(g[1..(i - 1)], i)
  <2> DEFINE s == 1..i
  <2>1. s \in SUBSET (1..N) /\ s # {}
    OBVIOUS
  <2>2. Max(s) = i
    <3>1. i - 1 \in Nat /\ (i - 1) + 1 = i /\ i \in s
      OBVIOUS
    <3>2. QED
      BY <3>1, Largest
  <2>3. s \ {i} = 1..(i - 1)
    OBVIOUS
  <2> HIDE DEF s
  <2>4. g[s] = P(g[s \ {i}], i)
    BY <1>1, <2>1, <2>2
  <2>5. QED
    BY <2>3, <2>4 DEF s
<1>4. QED
  BY <1>2, <1>3 DEF P

\* The fold that merges the traces of the parts, as a sequence of merges.
Merges(t, e, m) ==
    /\ m[0] = task[t].trace[e]
    /\ \A i \in 1..Cardinality(Kids(t)) :
          m[i] = IF i \in LookedAt(t) THEN m[i - 1] \o task[Append(t, i)].trace[e] ELSE m[i - 1]
    /\ m[Cardinality(Kids(t))] = Merged(t)[e]

\* The fold by which a join merges traces, one branch at a time.
LEMMA MergeOneByOne ==
    ASSUME NEW t, NEW e \in Effects, Cardinality(Kids(t)) \in Nat
    PROVE  \E m : Merges(t, e, m)
<1> DEFINE N == Cardinality(Kids(t))
           sq == [i \in 1..N |-> i]
           b == task[t].trace[e]
           w == [i \in 1..N |-> task[Append(t, i)].trace[e]]
           L == LookedAt(t)
           P(a, i) == IF i \in L THEN a \o task[Append(t, i)].trace[e] ELSE a
           it == CHOOSE g : g = [s \in SUBSET (DOMAIN sq) |->
                                     IF s = {} THEN b ELSE P(g[s \ {Max(s)}], sq[Max(s)])]
<1>1. Merged(t)[e] = it[DOMAIN sq]
  <2>1. Merged(t)[e] = FoldLeft(LAMBDA seen, i :
            IF i \in LookedAt(t) THEN seen \o task[Append(t, i)].trace[e] ELSE seen,
            task[t].trace[e], [i \in 1..Cardinality(Kids(t)) |-> i])
    BY DEF Merged
  <2>2. QED
    BY <2>1 DEF FoldLeft, MapThenFoldSet
<1> HIDE DEF L
<1>2. ASSUME NEW g
      PROVE  Folding(g, N, b, L, w) <=>
               g = [s \in SUBSET (DOMAIN sq) |-> IF s = {} THEN b ELSE P(g[s \ {Max(s)}], sq[Max(s)])]
  <2>1. DOMAIN sq = 1..N /\ \A i \in 1..N : sq[i] = i /\ w[i] = task[Append(t, i)].trace[e]
    OBVIOUS
  <2> HIDE DEF sq, w
  <2>2. \A s \in SUBSET (1..N) : s # {} => Max(s) \in 1..N
    BY LargestIn
  <2>3. \A s \in SUBSET (1..N) :
           (IF s = {} THEN b ELSE P(g[s \ {Max(s)}], sq[Max(s)]))
             = IF s = {} THEN b
               ELSE IF Max(s) \in L THEN g[s \ {Max(s)}] \o w[Max(s)] ELSE g[s \ {Max(s)}]
    BY <2>1, <2>2
  <2>4. QED
    BY <2>1, <2>3 DEF Folding
<1>3. Folding(it, N, b, L, w)
  BY <1>2, FoldingExists
<1> HIDE DEF it
<1> DEFINE m == [i \in 0..N |-> it[1..i]]
<1>4. /\ it[1..0] = b
      /\ \A i \in 1..N : it[1..i] = IF i \in L THEN it[1..(i - 1)] \o w[i] ELSE it[1..(i - 1)]
  BY <1>3, FoldingSteps
<1>5. m[0] = b
  BY <1>4
<1>6. ASSUME NEW i \in 1..N
      PROVE  m[i] = P(m[i - 1], i)
  <2>1. i \in 0..N /\ i - 1 \in 0..N
    OBVIOUS
  <2>2. m[i] = it[1..i] /\ m[i - 1] = it[1..(i - 1)] /\ w[i] = task[Append(t, i)].trace[e]
    BY <2>1
  <2> HIDE DEF m, w
  <2>3. QED
    BY <1>4, <2>2
<1>7. m[N] = Merged(t)[e]
  BY <1>1
<1> HIDE DEF m
<1>8. Merges(t, e, m)
  BY <1>5, <1>6, <1>7 DEF Merges, L
<1>9. QED
  BY <1>8

-----------------------------------------------------------------------------
(***************************************************************************)
(* The tree walker at a concatenation.                                     *)
(***************************************************************************)

\* It begins it.
LEMMA BeginWaiting ==
    ASSUME NEW I, Paused(I), Node[Head(I.stack).focus].kind = "concat"
    PROVE  TreeWalk(I) = At(I, <<>>, I.trace)
<1> DEFINE F == Head(I.stack)
           R == Tail(I.stack)
           m == Move(F, I.depth)
           g == WithBegun(F)
<1>1. m = GoesOn(g)
  BY DEF Paused, Move, MoveInto, LeafKinds, EffectsOf
<1>2. m.does = "goes on" /\ m.frame = g
  <2> HIDE DEF m, g
  <2>1. QED
    BY <1>1 DEF GoesOn
<1>3. g = Held(F, <<>>)
  BY DEF WithBegun, Held, Waiting, Hold
<1>4. TreeWalk(I) = Moved(I, m) /\ I.outcome = NoOutcome /\ DOMAIN I = {"stack", "depth", "trace", "outcome"}
  BY DEF TreeWalk, Paused, RunShape
<1> DEFINE u == <<g>> \o R
<1> HIDE DEF m, g
<1>5. TreeWalk(I) = [I EXCEPT !.stack = u]
  BY <1>2, <1>4 DEF Moved
<1> HIDE DEF u
<1>6. TreeWalk(I) = Run(u, I.depth, I.trace, NoOutcome)
  BY <1>4, <1>5 DEF Run
<1>7. QED
  BY <1>3, <1>6 DEF At, u

\* It evaluates the next part.
LEMMA NextWaiting ==
    ASSUME NEW I, Paused(I), Node[Head(I.stack).focus].kind = "concat",
           NEW vs, Len(vs) + 1 <= Len(Node[Head(I.stack).focus].parts),
           NEW n, n = Node[Head(I.stack).focus].parts[Len(vs) + 1], n # NoNode, NEW T
    PROVE  TreeWalk(At(I, vs, T)) = PartRun(I, n, vs, T)
<1> DEFINE F == Head(I.stack)
           R == Tail(I.stack)
           h == Held(F, vs)
           W == Waiting(F, vs)
           g == WithPart(h)
<1>1. FrameShape(F) /\ IsSeq(R) /\ F.focus # NoNode
  BY PopShape DEF Paused, RunShape, StackShape
<1>2. /\ W # <<>> /\ Head(W) = Hold(F, vs)
  BY <1>1, Holding
<1> HIDE DEF W
<1>3. h = [F EXCEPT !.focus = NoNode, !.work = W] /\ h.focus = NoNode /\ h.work = W /\ h.locals = F.locals
  BY <1>1 DEF Held, FrameShape, Fields, W
<1> HIDE DEF h
<1>4. Hold(F, vs).node = F.focus /\ Hold(F, vs).done = vs
  BY DEF Hold
<1>5. NextPart(Hold(F, vs)) = n
  BY <1>4 DEF NextPart
<1>6. Move(h, I.depth) = GoesOn(g)
  BY <1>2, <1>3, <1>5 DEF Move
<1>7. g = Framed(F, n, W, F.locals)
  <2>1. g = [h EXCEPT !.focus = n, !.locals = h.locals]
    BY <1>2, <1>3, <1>4, <1>5 DEF WithPart
  <2>2. QED
    BY <1>1, <1>3, <2>1 DEF Framed, FrameShape, Fields
<1>8. Move(h, I.depth).does = "goes on" /\ Move(h, I.depth).frame = g
  <2> DEFINE m == Move(h, I.depth)
  <2>1. m = GoesOn(g)
    BY <1>6
  <2> HIDE DEF g, m
  <2>2. m.does = "goes on" /\ m.frame = g
    BY <2>1 DEF GoesOn
  <2>3. QED
    BY <2>2 DEF m
<1> HIDE DEF g
<1>9. TreeWalk(Run(<<h>> \o R, I.depth, T, NoOutcome)) = Run(<<g>> \o R, I.depth, T, NoOutcome)
  <2>1. TreeWalk(Run(<<h>> \o R, I.depth, T, NoOutcome)) = Onward(h, R, I.depth, T, Move(h, I.depth))
    BY <1>1, RunMoves
  <2>2. QED
    BY <1>8, <2>1 DEF Onward
<1>10. QED
  BY <1>7, <1>9 DEF At, PartRun, h, W

\* It has the values of all parts.
LEMMA LastWaiting ==
    ASSUME NEW I, Paused(I), Node[Head(I.stack).focus].kind = "concat",
           NEW vs, Len(vs) \in Nat, Len(vs) = Len(Node[Head(I.stack).focus].parts), NEW T
    PROVE  TreeWalk(At(I, vs, T)) =
               Run(<<Give(Head(I.stack), Text(vs))>> \o Tail(I.stack), I.depth, T, NoOutcome)
<1> DEFINE F == Head(I.stack)
           R == Tail(I.stack)
           h == Held(F, vs)
           W == Waiting(F, vs)
           v == Text(vs)
           g == Finish(h, v)
<1>1. FrameShape(F) /\ IsSeq(R) /\ F.focus # NoNode
  BY PopShape DEF Paused, RunShape, StackShape
<1>2. W # <<>> /\ Head(W) = Hold(F, vs) /\ Tail(W) = F.work
  BY <1>1, Holding
<1> HIDE DEF W
<1>3. h = [F EXCEPT !.focus = NoNode, !.work = W] /\ h.focus = NoNode /\ h.work = W /\ h.locals = F.locals
  BY <1>1 DEF Held, FrameShape, Fields, W
<1> HIDE DEF h
<1>4. Hold(F, vs).node = F.focus /\ Hold(F, vs).done = vs /\ Hold(F, vs).outer = F.locals
  BY DEF Hold
<1>5. NextPart(Hold(F, vs)) = NoNode
  BY <1>4 DEF NextPart
<1>6. Move(h, I.depth) = GoesOn(g)
  BY <1>2, <1>3, <1>4, <1>5 DEF Move, MoveOutOf
<1>7. Move(h, I.depth).does = "goes on" /\ Move(h, I.depth).frame = g
  <2> DEFINE m == Move(h, I.depth)
  <2>1. m = GoesOn(g)
    BY <1>6
  <2> HIDE DEF g, m
  <2>2. m.does = "goes on" /\ m.frame = g
    BY <2>1 DEF GoesOn
  <2>3. QED
    BY <2>2 DEF m
<1> HIDE DEF v
<1>8. g = Give(F, v)
  <2> DEFINE p == [h EXCEPT !.work = F.work, !.locals = F.locals]
  <2>1. g = Give(p, v)
    BY <1>2, <1>3, <1>4 DEF Finish
  <2>2. p = [F EXCEPT !.focus = NoNode]
    BY <1>1, <1>3 DEF FrameShape, Fields
  <2> DEFINE q == [F EXCEPT !.focus = NoNode]
  <2>3. q.work = F.work
    BY <1>1 DEF FrameShape, Fields
  <2>4. Give(q, v) = Give(F, v)
    <3>1. CASE F.work = <<>>
      BY <2>3, <3>1 DEF Give
    <3>2. CASE F.work # <<>>
      <4> DEFINE ws == <<[Head(F.work) EXCEPT !.done = Append(@, v)]>> \o Tail(F.work)
      <4>1. Give(q, v) = [q EXCEPT !.focus = NoNode, !.work = ws] /\ Give(F, v) = [F EXCEPT !.focus = NoNode, !.work = ws]
        BY <2>3, <3>2 DEF Give
      <4> HIDE DEF ws
      <4>2. [q EXCEPT !.focus = NoNode, !.work = ws] = [F EXCEPT !.focus = NoNode, !.work = ws]
        BY <1>1 DEF FrameShape, Fields
      <4>3. QED
        BY <4>1, <4>2
    <3>3. QED
      BY <3>1, <3>2
  <2> HIDE DEF p, q
  <2>5. p = q
    BY <2>2 DEF q
  <2>6. QED
    BY <2>1, <2>4, <2>5
<1> HIDE DEF g
<1>9. TreeWalk(Run(<<h>> \o R, I.depth, T, NoOutcome)) = Run(<<g>> \o R, I.depth, T, NoOutcome)
  <2>1. TreeWalk(Run(<<h>> \o R, I.depth, T, NoOutcome)) = Onward(h, R, I.depth, T, Move(h, I.depth))
    BY <1>1, RunMoves
  <2>2. QED
    BY <1>7, <2>1 DEF Onward
<1>10. QED
  BY <1>8, <1>9 DEF At, h, v

\* The smallest of some numbers.
LEMMA Smallest ==
    ASSUME NEW S, S \subseteq Nat, S # {}
    PROVE  \E x \in S : \A y \in S : x <= y
<1>1. S \in SUBSET Nat /\ S # {}
  OBVIOUS
<1>2. PICK x \in S : \A y \in S : ~(<<y, x>> \in OpToRel(<, Nat))
  BY <1>1, NatLessThanWellFounded, WFMin
<1>3. \A y \in S : ~(y < x)
  BY <1>2 DEF OpToRel
<1>4. QED
  BY <1>3

-----------------------------------------------------------------------------
(***************************************************************************)
(* The join of branches, as a walk.                                        *)
(***************************************************************************)
Parts(p) == Node[Top(p).focus].parts

\* The branches of p are the parts of its concatenation, each as far as p would be.
Family(p) ==
    /\ Node[Top(p).focus].kind = "concat"
    /\ Kids(p) = {Append(p, i) : i \in 1..Len(Parts(p))}
    /\ \A i \in 1..Len(Parts(p)) : Matches(task[p], Parts(p)[i], task[Append(p, i)])

\* The branches of a task are counted by their last index.
LEMMA FamilySize ==
    ASSUME NEW p \in Seq(Nat), NEW n \in Nat, Kids(p) = {Append(p, i) : i \in 1..n}
    PROVE  Cardinality(Kids(p)) = n
<1> DEFINE K == {Append(p, i) : i \in 1..n}
           f == [i \in 1..n |-> Append(p, i)]
<1>1. \A i, j \in 1..n : Append(p, i) = Append(p, j) => i = j
  <2> SUFFICES ASSUME NEW i \in 1..n, NEW j \in 1..n, Append(p, i) = Append(p, j)
               PROVE  i = j
    OBVIOUS
  <2>1. Append(p, i)[Len(p) + 1] = i /\ Append(p, j)[Len(p) + 1] = j
    OBVIOUS
  <2>2. QED
    BY <2>1
<1>2. f \in Bijection(1..n, K)
  <2>1. f \in [1..n -> K]
    OBVIOUS
  <2>2. \A i, j \in 1..n : f[i] = f[j] => i = j
    BY <1>1
  <2>3. \A k \in K : \E i \in 1..n : f[i] = k
    OBVIOUS
  <2>4. DOMAIN f = 1..n
    OBVIOUS
  <2> HIDE DEF f, K
  <2>5. f \in Injection(1..n, K)
    <3>1. IsInjective(f)
      BY <2>2, <2>4 DEF IsInjective
    <3>2. QED
      BY <2>1, <3>1 DEF Injection
  <2>6. f \in Surjection(1..n, K)
    BY <2>1, <2>3 DEF Surjection
  <2>7. QED
    BY <2>5, <2>6 DEF Bijection
<1> HIDE DEF K, f
<1>3. IsFiniteSet(1..n) /\ Cardinality(1..n) = n
  BY FS_Interval
<1>4. ExistsBijection(1..n, K)
  BY <1>2 DEF ExistsBijection
<1>5. Cardinality(K) = n
  BY <1>3, <1>4, FS_Bijection
<1>6. QED
  BY <1>5 DEF K

\* What the parent goes on with.
AfterJoin(t) ==
    IF Failed(t) = {}
    THEN [task[t] EXCEPT
            !.stack = <<Give(Top(t), Text([i \in 1..Cardinality(Kids(t)) |-> task[Append(t, i)].outcome.what]))>>
                        \o Tail(@),
            !.trace = Merged(t)]
    ELSE LET first == CHOOSE i \in Failed(t) : \A j \in Failed(t) : i <= j
         IN  [task[t] EXCEPT !.stack = <<>>, !.depth = @ - Calls(task[t].stack), !.trace = Merged(t),
                             !.outcome = task[Append(t, first)].outcome]

\* The trace after the first k parts, by the merges ms.
Upto(ms, k) == [e \in Effects |-> ms[e][k]]

ValuesUpto(t, k) == [i \in 1..k |-> task[Append(t, i)].outcome.what]

\* The merged traces, from the trace of the task, one branch after the other.
LEMMA MergeAll ==
    ASSUME NEW t, Cardinality(Kids(t)) \in Nat, TraceShape(task[t].trace)
    PROVE  \E ms : /\ Upto(ms, 0) = task[t].trace /\ Upto(ms, Cardinality(Kids(t))) = Merged(t)
                   /\ \A k \in 1..Cardinality(Kids(t)) :
                         Upto(ms, k) = IF k \in LookedAt(t)
                                       THEN After(Upto(ms, k - 1), task[Append(t, k)].trace)
                                       ELSE Upto(ms, k - 1)
<1> DEFINE N == Cardinality(Kids(t))
           ms == [e \in Effects |-> CHOOSE m : Merges(t, e, m)]
<1>1. \A e \in Effects : Merges(t, e, ms[e])
  BY MergeOneByOne
<1> HIDE DEF ms
<1>2. Upto(ms, 0) = task[t].trace
  BY <1>1 DEF Upto, Merges, TraceShape
<1>3. Upto(ms, N) = Merged(t)
  <2>1. Merged(t) = [e \in Effects |-> Merged(t)[e]]
    BY DEF Merged
  <2>2. QED
    BY <1>1, <2>1 DEF Upto, Merges
<1>4. ASSUME NEW k \in 1..N
      PROVE  Upto(ms, k) = IF k \in LookedAt(t)
                           THEN After(Upto(ms, k - 1), task[Append(t, k)].trace)
                           ELSE Upto(ms, k - 1)
  <2>1. \A e \in Effects :
           ms[e][k] = IF k \in LookedAt(t) THEN ms[e][k - 1] \o task[Append(t, k)].trace[e] ELSE ms[e][k - 1]
    BY <1>1 DEF Merges
  <2>2. CASE k \in LookedAt(t)
    BY <2>1, <2>2 DEF Upto, After
  <2>3. CASE k \notin LookedAt(t)
    BY <2>1, <2>3 DEF Upto
  <2>4. QED
    BY <2>2, <2>3
<1>5. QED
  BY <1>2, <1>3, <1>4

\* A branch that has ended, when all parts before it have values.
LEMMA PartDone ==
    ASSUME NEW I, Paused(I), Node[Head(I.stack).focus].kind = "concat",
           NEW vs, Len(vs) + 1 <= Len(Node[Head(I.stack).focus].parts), NEW T, TraceShape(T),
           NEW n, n = Node[Head(I.stack).focus].parts[Len(vs) + 1], n # NoNode,
           NEW E, Matches(I, n, E), E.outcome # NoOutcome, Walk(I, At(I, vs, T))
    PROVE  \/ E.outcome.kind = "error" /\ Walk(I, Run(<<>>, 0, After(T, E.trace), E.outcome))
           \/ E.outcome.kind = "value" /\ Walk(I, At(I, Append(vs, E.outcome.what), After(T, E.trace)))
<1>1. PICK X : Walk(PartRun(I, n, vs, T), X) /\ Embeds(I, vs, T, E, X)
  BY DEF Matches
<1>2. Walk(At(I, vs, T), PartRun(I, n, vs, T))
  BY NextWaiting, OneStep
<1>3. Walk(I, X)
  <2>1. Walk(I, PartRun(I, n, vs, T))
    BY <1>2, WalkOn
  <2>2. QED
    BY <1>1, <2>1, WalkOn
<1>4. ~OnTopOf(I, vs, T, E, X)
  <2> SUFFICES ASSUME OnTopOf(I, vs, T, E, X)
               PROVE  FALSE
    OBVIOUS
  <2>1. PICK s, d, tr : E = Run(s, d, tr, NoOutcome)
    BY DEF OnTopOf
  <2>2. E.outcome = NoOutcome
    BY <2>1, RunFields
  <2>3. QED
    BY <2>2
<1>5. QED
  BY <1>1, <1>3, <1>4 DEF Embeds

\* A trace after another.
LEMMA AfterShape ==
    ASSUME NEW T, TraceShape(T), NEW S, TraceShape(S)
    PROVE  TraceShape(After(T, S))
<1>1. \A e \in Effects : IsSeq(T[e] \o S[e])
  BY Joined DEF TraceShape
<1>2. QED
  BY <1>1 DEF TraceShape, After

\* A task that waits has a concatenation to evaluate.
LEMMA WaitingOK ==
    ASSUME Inv, NEW t \in Tasks, Kids(t) # {}
    PROVE  Top(t).focus \in Nodes /\ ~Ended(t)
<1>1. PICK u \in Tasks : Len(u) = Len(t) + 1 /\ SubSeq(u, 1, Len(t)) = t
  BY DEF Kids
<1>2. t \in Seq(Nat) /\ u \in Seq(Nat) /\ Len(t) \in Nat /\ Len(u) \in Nat
  BY DEF Inv, Paths
<1>3. Len(u) \in 1..Len(u) /\ Len(u) - 1 = Len(t)
  BY <1>1, <1>2
<1>4. WaitingAt(Above(u, Len(u) - 1), u[Len(u)])
  BY <1>3 DEF Inv, Paths
<1>5. WaitingAt(t, u[Len(u)])
  BY <1>1, <1>3, <1>4 DEF Above
<1>6. QED
  BY <1>5 DEF WaitingAt

\* The values of one more branch.
LEMMA ValuesOneMore ==
    ASSUME NEW t, NEW k \in Nat
    PROVE  /\ Len(ValuesUpto(t, k)) = k
           /\ Append(ValuesUpto(t, k), task[Append(t, k + 1)].outcome.what) = ValuesUpto(t, k + 1)
<1> DEFINE x(i) == task[Append(t, i)].outcome.what
<1>1. ValuesUpto(t, k) = [i \in 1..k |-> x(i)] /\ ValuesUpto(t, k + 1) = [i \in 1..(k + 1) |-> x(i)]
  BY DEF ValuesUpto
<1> HIDE DEF x
<1>2. Append([i \in 1..k |-> x(i)], x(k + 1)) = [i \in 1..(k + 1) |-> x(i)]
  OBVIOUS
<1>3. Len([i \in 1..k |-> x(i)]) = k
  OBVIOUS
<1>4. QED
  BY <1>1, <1>2, <1>3 DEF x

\* The parts of a task that waits, and its branches.
FamilyEnded(t) ==
    /\ Paused(task[t]) /\ Node[Top(t).focus].kind = "concat"
    /\ Len(Parts(t)) \in Nat /\ Cardinality(Kids(t)) = Len(Parts(t))
    /\ \A i \in 1..Len(Parts(t)) :
          /\ Parts(t)[i] # NoNode /\ Matches(task[t], Parts(t)[i], task[Append(t, i)])
          /\ task[Append(t, i)].outcome # NoOutcome /\ TraceShape(task[Append(t, i)].trace)

\* When all branches have ended, they are as FamilyEnded says.
LEMMA FamilyOver ==
    ASSUME Inv, NEW t \in Tasks, Paused(task[t]), Kids(t) # {}, Family(t), AllEnded(t),
           \A u \in Kids(t) : RunShape(task[u])
    PROVE  FamilyEnded(t)
<1>1. Top(t).focus \in Nodes
  BY WaitingOK
<1>2. Len(Parts(t)) \in Nat /\ \A i \in 1..Len(Parts(t)) : Parts(t)[i] \in Nodes
  BY <1>1, PartsAreNodes DEF Parts
<1>3. t \in Seq(Nat)
  BY DEF Inv, Paths
<1>4. Cardinality(Kids(t)) = Len(Parts(t))
  BY <1>2, <1>3, FamilySize DEF Family
<1>5. ASSUME NEW i \in 1..Len(Parts(t))
      PROVE  /\ Parts(t)[i] # NoNode /\ Matches(task[t], Parts(t)[i], task[Append(t, i)])
             /\ task[Append(t, i)].outcome # NoOutcome /\ TraceShape(task[Append(t, i)].trace)
  <2>1. Append(t, i) \in Kids(t)
    BY DEF Family
  <2>2. QED
    BY <1>2, <2>1, NodeAssumption DEF Family, AllEnded, Ended, RunShape
<1>6. QED
  BY <1>2, <1>4, <1>5 DEF FamilyEnded, Family

\* The walk over the first parts.
LEMMA PartByPart ==
    ASSUME NEW t, FamilyEnded(t), NEW L \in 0..Len(Parts(t)),
           \A k \in 1..L : k \in LookedAt(t) /\ k \notin Failed(t), NEW ms,
           Upto(ms, 0) = task[t].trace,
           \A k \in 1..Len(Parts(t)) :
                Upto(ms, k) = IF k \in LookedAt(t)
                              THEN After(Upto(ms, k - 1), task[Append(t, k)].trace)
                              ELSE Upto(ms, k - 1)
    PROVE  TraceShape(Upto(ms, L)) /\ Walk(task[t], At(task[t], ValuesUpto(t, L), Upto(ms, L)))
<1> DEFINE I == task[t]
           S == {k \in 0..L : TraceShape(Upto(ms, k)) /\ Walk(I, At(I, ValuesUpto(t, k), Upto(ms, k)))}
<1>1. 0 \in S
  <2>1. ValuesUpto(t, 0) = <<>>
    BY DEF ValuesUpto
  <2>2. Walk(I, At(I, <<>>, I.trace))
    BY BeginWaiting, OneStep DEF FamilyEnded, Top
  <2>3. TraceShape(I.trace)
    BY DEF FamilyEnded, Paused, RunShape
  <2>4. 0 \in 0..L
    BY DEF FamilyEnded
  <2>5. QED
    BY <2>1, <2>2, <2>3, <2>4
<1>2. \A k \in 0..(L - 1) : k \in S => k + 1 \in S
  <2> SUFFICES ASSUME NEW k \in 0..(L - 1), TraceShape(Upto(ms, k)),
                      Walk(I, At(I, ValuesUpto(t, k), Upto(ms, k)))
               PROVE  k + 1 \in 0..L /\ TraceShape(Upto(ms, k + 1))
                      /\ Walk(I, At(I, ValuesUpto(t, k + 1), Upto(ms, k + 1)))
    OBVIOUS
  <2> DEFINE i == k + 1
             E == task[Append(t, i)]
             vs == ValuesUpto(t, k)
             T == Upto(ms, k)
             n == Parts(t)[i]
  <2>1. k \in Nat /\ i \in 1..L /\ i \in 1..Len(Parts(t)) /\ i - 1 = k /\ i \in 0..L
    BY DEF FamilyEnded
  <2>2. i \in LookedAt(t) /\ i \notin Failed(t)
    BY <2>1
  <2>3. Len(vs) = k /\ Append(vs, E.outcome.what) = ValuesUpto(t, i)
    BY <2>1, ValuesOneMore
  <2>4. Upto(ms, i) = After(T, E.trace)
    BY <2>1, <2>2
  <2>5. n # NoNode /\ Matches(I, n, E) /\ E.outcome # NoOutcome /\ TraceShape(E.trace)
    BY <2>1 DEF FamilyEnded
  <2>6. E.outcome.kind # "error"
    BY <2>1, <2>2 DEF Failed, FamilyEnded
  <2>7. n = Node[Head(I.stack).focus].parts[Len(vs) + 1] /\ Len(vs) + 1 <= Len(Node[Head(I.stack).focus].parts)
    BY <2>1, <2>3 DEF Parts, Top
  <2>8. Paused(I) /\ Node[Head(I.stack).focus].kind = "concat"
    BY DEF FamilyEnded, Top
  <2> HIDE DEF I, i, E, vs, T, n
  <2>9. TraceShape(T) /\ Walk(I, At(I, vs, T))
    BY DEF I, vs, T
  <2>10. \/ E.outcome.kind = "error"
         \/ Walk(I, At(I, Append(vs, E.outcome.what), After(T, E.trace)))
    BY <2>5, <2>7, <2>8, <2>9, PartDone
  <2>11. Walk(I, At(I, ValuesUpto(t, i), Upto(ms, i)))
    BY <2>3, <2>4, <2>6, <2>10
  <2>12. TraceShape(Upto(ms, i))
    BY <2>4, <2>5, <2>9, AfterShape
  <2>13. QED
    BY <2>1, <2>11, <2>12 DEF i, I
<1> HIDE DEF S
<1>3. L \in Nat /\ L \in 0..L
  BY DEF FamilyEnded
<1>4. L \in S
  BY <1>1, <1>2, <1>3, PathInduct
<1>5. QED
  BY <1>4 DEF S

\* After the first error no trace is merged.
LEMMA NoMoreMerged ==
    ASSUME NEW N \in Nat, NEW first \in 1..N, NEW ms,
           \A k \in (first + 1)..N : Upto(ms, k) = Upto(ms, k - 1)
    PROVE  Upto(ms, first) = Upto(ms, N)
<1> DEFINE S == {k \in 0..(N - first) : Upto(ms, first + k) = Upto(ms, first)}
<1>1. 0 \in S
  OBVIOUS
<1>2. \A k \in 0..(N - first - 1) : k \in S => k + 1 \in S
  <2> SUFFICES ASSUME NEW k \in 0..(N - first - 1), Upto(ms, first + k) = Upto(ms, first)
               PROVE  k + 1 \in 0..(N - first) /\ Upto(ms, first + (k + 1)) = Upto(ms, first)
    OBVIOUS
  <2> DEFINE j == first + (k + 1)
  <2>1. j \in (first + 1)..N /\ j - 1 = first + k /\ k + 1 \in 0..(N - first)
    OBVIOUS
  <2> HIDE DEF j
  <2>2. Upto(ms, j) = Upto(ms, first + k)
    BY <2>1
  <2>3. QED
    BY <2>1, <2>2 DEF j
<1> HIDE DEF S
<1>3. N - first \in Nat /\ N - first \in 0..(N - first) /\ first + (N - first) = N
  OBVIOUS
<1>4. N - first \in S
  BY <1>1, <1>2, <1>3, PathInduct
<1>5. QED
  BY <1>3, <1>4 DEF S

\* The parts, one after the other, are the walk of the task that joins them.
LEMMA JoinWalk ==
    ASSUME Inv, NEW t \in Tasks, Paused(task[t]), Kids(t) # {}, Family(t), AllEnded(t),
           \A u \in Kids(t) : RunShape(task[u])
    PROVE  Walk(task[t], Seen(AfterJoin(t)))
<1> DEFINE I == task[t]
           N == Len(Parts(t))
           F == Head(I.stack)
<1>1. FamilyEnded(t)
  BY FamilyOver
<1>2. /\ Paused(I) /\ Node[F.focus].kind = "concat" /\ N \in Nat /\ Cardinality(Kids(t)) = N
      /\ \A i \in 1..N : /\ Parts(t)[i] # NoNode /\ Matches(I, Parts(t)[i], task[Append(t, i)])
                         /\ task[Append(t, i)].outcome # NoOutcome /\ TraceShape(task[Append(t, i)].trace)
  BY <1>1 DEF FamilyEnded, Top
<1>3. RunShape(I) /\ I.outcome = NoOutcome /\ DOMAIN I = {"stack", "depth", "trace", "outcome"} /\ TraceShape(I.trace)
  BY <1>2 DEF Paused, RunShape
<1>4. PICK ms : /\ Upto(ms, 0) = I.trace /\ Upto(ms, N) = Merged(t)
                /\ \A k \in 1..N : Upto(ms, k) = IF k \in LookedAt(t)
                                                 THEN After(Upto(ms, k - 1), task[Append(t, k)].trace)
                                                 ELSE Upto(ms, k - 1)
  BY <1>2, <1>3, MergeAll
<1>5. Failed(t) \subseteq 1..N /\ LookedAt(t) = {i \in 1..N : \A j \in Failed(t) : i <= j}
  BY <1>2 DEF Failed, LookedAt
<1>6. CASE Failed(t) = {}
  <2> DEFINE vs == ValuesUpto(t, N)
             g == Give(F, Text(vs))
             u == <<g>> \o Tail(I.stack)
  <2>1. \A k \in 1..N : k \in LookedAt(t) /\ k \notin Failed(t)
    BY <1>5, <1>6
  <2>2. Walk(I, At(I, vs, Merged(t)))
    <3>1. N \in 0..N
      BY <1>2
    <3>2. Walk(I, At(I, vs, Upto(ms, N)))
      BY <1>1, <1>4, <2>1, <3>1, PartByPart
    <3>3. QED
      BY <1>4, <3>2
  <2>3. Len(vs) = N
    BY <1>2, ValuesOneMore
  <2>4. TreeWalk(At(I, vs, Merged(t))) = Run(u, I.depth, Merged(t), NoOutcome)
    <3>1. N = Len(Node[Head(I.stack).focus].parts)
      BY DEF Parts, Top
    <3> HIDE DEF vs, I, N
    <3>2. TreeWalk(At(I, vs, Merged(t))) = Run(<<Give(Head(I.stack), Text(vs))>> \o Tail(I.stack), I.depth, Merged(t), NoOutcome)
      BY <1>2, <2>3, <3>1, LastWaiting
    <3>3. QED
      BY <3>2
  <2>5. AfterJoin(t) = [I EXCEPT !.stack = u, !.trace = Merged(t)]
    <3>1. vs = [i \in 1..Cardinality(Kids(t)) |-> task[Append(t, i)].outcome.what]
      BY <1>2 DEF ValuesUpto
    <3>2. g = Give(Top(t), Text([i \in 1..Cardinality(Kids(t)) |-> task[Append(t, i)].outcome.what]))
      BY <3>1 DEF Top
    <3> HIDE DEF g, vs
    <3>3. QED
      BY <1>6, <3>2 DEF AfterJoin
  <2> HIDE DEF u, vs
  <2>6. AfterJoin(t) = Run(u, I.depth, Merged(t), NoOutcome)
    BY <1>3, <2>5 DEF Run
  <2>7. Seen(AfterJoin(t)) = AfterJoin(t)
    BY <2>6, RunFields DEF Seen
  <2>8. Walk(I, AfterJoin(t))
    BY <2>2, <2>4, <2>6, OneStep, WalkOn
  <2>9. QED
    BY <2>7, <2>8
<1>7. CASE Failed(t) # {}
  <2> DEFINE first == CHOOSE i \in Failed(t) : \A j \in Failed(t) : i <= j
  <2>1. first \in Failed(t) /\ \A j \in Failed(t) : first <= j
    <3>1. Failed(t) \subseteq Nat
      BY <1>5
    <3>2. \E i \in Failed(t) : \A j \in Failed(t) : i <= j
      BY <1>7, <3>1, Smallest
    <3>3. QED
      BY <3>2
  <2> HIDE DEF first
  <2>2. /\ first \in 1..N /\ first - 1 \in 0..N /\ first - 1 \in Nat /\ (first - 1) + 1 = first
        /\ first \in LookedAt(t)
        /\ \A k \in 1..(first - 1) : k \in LookedAt(t) /\ k \notin Failed(t)
        /\ \A k \in (first + 1)..N : k \in 1..N /\ k \notin LookedAt(t)
    <3>1. first \in 1..N
      BY <1>5, <2>1
    <3>2. first - 1 \in 0..N /\ first - 1 \in Nat /\ (first - 1) + 1 = first
      BY <1>2, <3>1
    <3>3. first \in LookedAt(t)
      BY <1>5, <2>1, <3>1
    <3>4. ASSUME NEW k \in 1..(first - 1)
          PROVE  k \in LookedAt(t) /\ k \notin Failed(t)
      BY <1>2, <1>5, <2>1, <3>1
    <3>5. ASSUME NEW k \in (first + 1)..N
          PROVE  k \in 1..N /\ k \notin LookedAt(t)
      BY <1>2, <1>5, <2>1, <3>1
    <3>6. QED
      BY <3>1, <3>2, <3>3, <3>4, <3>5
  <2> DEFINE E == task[Append(t, first)]
             L == first - 1
             vs == ValuesUpto(t, L)
             T == Upto(ms, L)
             n == Parts(t)[first]
  <2>3. TraceShape(T) /\ Walk(I, At(I, vs, T))
    <3>1. L \in 0..Len(Parts(t)) /\ \A k \in 1..L : k \in LookedAt(t) /\ k \notin Failed(t)
      BY <2>2
    <3> HIDE DEF L
    <3>2. QED
      BY <1>1, <1>4, <3>1, PartByPart
  <2>4. After(T, E.trace) = Merged(t)
    <3>1. Upto(ms, first) = After(T, E.trace)
      BY <1>4, <2>2
    <3>2. \A k \in (first + 1)..N : Upto(ms, k) = Upto(ms, k - 1)
      BY <1>4, <2>2
    <3> HIDE DEF N, I
    <3>3. Upto(ms, first) = Upto(ms, N)
      BY <1>2, <2>2, <3>2, NoMoreMerged
    <3>4. QED
      BY <1>4, <3>1, <3>3
  <2>5. n = Node[Head(I.stack).focus].parts[Len(vs) + 1] /\ Len(vs) + 1 <= Len(Node[Head(I.stack).focus].parts)
    <3>1. Len(vs) = L
      BY <2>2, ValuesOneMore
    <3>2. Len(vs) + 1 = first
      BY <2>2, <3>1
    <3>3. QED
      BY <1>2, <2>2, <3>2 DEF Parts, Top
  <2>6. n # NoNode /\ Matches(I, n, E) /\ E.outcome # NoOutcome
    BY <1>2, <2>2
  <2>7. E.outcome.kind = "error"
    BY <2>1 DEF Failed
  <2>8. Walk(I, Run(<<>>, 0, Merged(t), E.outcome))
    <3> HIDE DEF I, E, L, vs, T, n
    <3>1. \/ E.outcome.kind = "error" /\ Walk(I, Run(<<>>, 0, After(T, E.trace), E.outcome))
          \/ E.outcome.kind = "value" /\ Walk(I, At(I, Append(vs, E.outcome.what), After(T, E.trace)))
      BY <1>2, <2>3, <2>5, <2>6, PartDone
    <3>2. QED
      BY <2>4, <2>7, <3>1
  <2>9. AfterJoin(t) = [I EXCEPT !.stack = <<>>, !.depth = @ - Calls(I.stack), !.trace = Merged(t),
                                 !.outcome = E.outcome]
    BY <1>7 DEF AfterJoin, first
  <2> HIDE DEF E
  <2>10. Seen(AfterJoin(t)) = Run(<<>>, 0, Merged(t), E.outcome)
    BY <1>3, <2>6, <2>9 DEF Seen, Run
  <2>11. QED
    BY <2>8, <2>10
<1>8. QED
  BY <1>6, <1>7

\* The tree walker depends on the effects declared, which do not change.
LEMMA SameWalk ==
    ASSUME UNCHANGED <<declared, entry>>
    PROVE  /\ \A I, J : Walk(I, J)' <=> Walk(I, J)
           /\ \A I, n, E : Matches(I, n, E)' <=> Matches(I, n, E)
           /\ EntryInterp' = EntryInterp
<1>1. \A f : Allowed(f)' = Allowed(f)
  BY DEF Allowed
<1>2. \A f : MoveInto(f)' = MoveInto(f)
  BY <1>1 DEF MoveInto
<1>3. \A f, d : Move(f, d)' = Move(f, d)
  BY <1>2 DEF Move
<1>4. \A I : TreeWalk(I)' = TreeWalk(I)
  BY <1>3 DEF TreeWalk
<1>5. \A r, n : Path(r, n)' <=> Path(r, n)
  BY <1>4 DEF Path
<1>6. \A I, J : Walk(I, J)' <=> Walk(I, J)
  BY <1>5 DEF Walk
<1>7. \A F, b : BranchOf(F, b)' <=> BranchOf(F, b)
  BY <1>1 DEF BranchOf
<1>8. \A I, vs, T, E, X : OnTopOf(I, vs, T, E, X)' <=> OnTopOf(I, vs, T, E, X)
  <2> SUFFICES ASSUME NEW I, NEW vs, NEW T, NEW E, NEW X
               PROVE  OnTopOf(I, vs, T, E, X)' <=> OnTopOf(I, vs, T, E, X)
    OBVIOUS
  <2> DEFINE Piles(C, b, tr) ==
                /\ IsSeq(C) /\ E = Run(C \o <<b>>, I.depth + Len(C), tr, NoOutcome)
                /\ X = Run(C \o (<<OnTop(Head(I.stack), vs, b)>> \o Tail(I.stack)),
                           I.depth + Len(C), After(T, tr), NoOutcome)
  <2>1. OnTopOf(I, vs, T, E, X) <=> \E C, b, tr : Piles(C, b, tr) /\ BranchOf(Head(I.stack), b)
    BY DEF OnTopOf
  <2>2. OnTopOf(I, vs, T, E, X)' <=> \E C, b, tr : Piles(C, b, tr) /\ BranchOf(Head(I.stack), b)'
    BY DEF OnTopOf
  <2> HIDE DEF Piles
  <2>3. QED
    BY <1>7, <2>1, <2>2
<1>9. \A I, vs, T, E, X : Embeds(I, vs, T, E, X)' <=> Embeds(I, vs, T, E, X)
  BY <1>4, <1>8 DEF Embeds
<1>10. \A I, n, E : Matches(I, n, E)' <=> Matches(I, n, E)
  BY <1>6, <1>9 DEF Matches
<1>11. EntryInterp' = EntryInterp
  BY DEF EntryInterp
<1>12. QED
  BY <1>6, <1>10, <1>11

-----------------------------------------------------------------------------
(***************************************************************************)
(* The inductive invariant: the branches of a task that waits are as far   *)
(* with the parts as the task itself would be, and the task of the entry   *)
(* is on the walk of the tree walker from the interpreter of the entry; in *)
(* the second run, that walk ends as expected says.                        *)
(***************************************************************************)
AllShaped == \A t \in Tasks : RunShape(task[t])

AllFamilies == \A p \in Tasks : Kids(p) # {} => Family(p)

OnItsWay == Walk(EntryInterp, Seen(task[<<>>]))

Reference ==
    mode = "parallel" =>
        \E J : /\ J.outcome # NoOutcome /\ Walk(EntryInterp, J)
               /\ expected = [outcome |-> J.outcome, trace |-> J.trace]

AgreeInv == Working => AllShaped /\ AllFamilies /\ OnItsWay /\ Reference

\* A task that has branches waits in a concatenation.
LEMMA PausedOK ==
    ASSUME Inv, DepthInv, AllShaped, NEW t \in Tasks, Kids(t) # {}
    PROVE  Paused(task[t])
<1>1. Top(t).focus \in Nodes /\ ~Ended(t)
  BY WaitingOK
<1>2. task[t].depth \in Nat
  BY AboveOK
<1>3. RunShape(task[t])
  BY DEF AllShaped
<1>4. QED
  BY <1>1, <1>2, <1>3, NodeAssumption DEF Paused, Ended, Top

\* A task has one parent.
LEMMA OneParent ==
    ASSUME Paths, NEW p \in Tasks, NEW t \in Tasks, NEW u, u \in Kids(p), u \in Kids(t)
    PROVE  p = t
<1>1. p \in Seq(Nat) /\ t \in Seq(Nat) /\ Len(p) \in Nat /\ Len(t) \in Nat /\ Len(u) \in Nat
  BY DEF Kids, Paths
<1>2. Len(u) = Len(p) + 1 /\ Len(u) = Len(t) + 1
  BY DEF Kids
<1>3. Len(p) = Len(t)
  BY <1>1, <1>2
<1>4. SubSeq(u, 1, Len(p)) = p /\ SubSeq(u, 1, Len(t)) = t
  BY DEF Kids
<1>5. QED
  BY <1>3, <1>4

\* A kid's path is its parent's and one number.
LEMMA KidAbove ==
    ASSUME Paths, NEW p \in Tasks, NEW u \in Kids(p)
    PROVE  u \in Tasks /\ Len(u) \in 1..Len(u) /\ Above(u, Len(u) - 1) = p /\ u # p
<1>1. u \in Tasks /\ Len(u) = Len(p) + 1 /\ SubSeq(u, 1, Len(p)) = p
  BY DEF Kids
<1>2. Len(p) \in Nat /\ Len(u) \in Nat
  BY <1>1 DEF Paths
<1> DEFINE j == Len(u)
           k == Len(p)
<1>3. j - 1 = k /\ j \in 1..j /\ j # k
  <2>1. j = k + 1 /\ k \in Nat
    BY <1>1, <1>2
  <2> HIDE DEF j, k
  <2>2. QED
    BY <2>1
<1>4. QED
  BY <1>1, <1>3 DEF Above

\* A task goes on, alone or with what its branches ended with.
LEMMA AgreeChange ==
    ASSUME Inv, DepthInv, AgreeInv, Working, NEW t \in Tasks, ~Ended(t), AllEnded(t),
           NEW interp, RunShape(interp), Walk(task[t], Seen(interp)),
           task' = [u \in Tasks \ Kids(t) |-> IF u = t THEN interp ELSE task[u]],
           UNCHANGED <<declared, entry, mode, expected>>
    PROVE  AgreeInv'
<1> DEFINE T == Tasks \ Kids(t)
<1>1. /\ T \in SUBSET Tasks /\ t \in T /\ <<>> \in T
      /\ \A k \in T : \A l \in 1..Len(k) : Above(k, l - 1) \in T \ {t}
  BY RemainingOK
<1>2. Tasks' = T
  BY DEF Tasks
<1>3. AllShaped /\ AllFamilies /\ OnItsWay /\ Reference /\ Paths
  BY DEF AgreeInv, Inv
<1>4. \A u \in T : task'[u] = IF u = t THEN interp ELSE task[u]
  OBVIOUS
<1>5. AllShaped'
  BY <1>1, <1>2, <1>3, <1>4 DEF AllShaped
<1>6. ASSUME NEW p \in T, Kids(p)' # {}
      PROVE  Family(p)'
  <2>1. Kids(p)' = {u \in T : Len(u) = Len(p) + 1 /\ SubSeq(u, 1, Len(p)) = p}
    BY <1>2 DEF Kids
  <2>2. Kids(p)' = Kids(p) \ Kids(t)
    BY <2>1 DEF Kids
  <2>3. PICK v : v \in Kids(p) /\ v \in T
    BY <1>6, <2>1, <2>2
  <2>4. p # t
    BY <1>1, <1>3, <2>3, KidAbove
  <2>5. Kids(p)' = Kids(p)
    BY <1>3, <2>2, <2>4, OneParent
  <2>6. Family(p) /\ Paused(task[p])
    BY <1>3, <2>3, PausedOK DEF AllFamilies
  <2>7. task'[p] = task[p]
    BY <1>4, <2>4
  <2>8. Top(p)' = Top(p) /\ Parts(p)' = Parts(p)
    BY <2>7 DEF Top, Parts
  <2>9. ASSUME NEW i \in 1..Len(Parts(p))
        PROVE  Matches(task[p], Parts(p)[i], task'[Append(p, i)])
    <3>1. Append(p, i) \in Kids(p) /\ Matches(task[p], Parts(p)[i], task[Append(p, i)])
      BY <2>6 DEF Family
    <3>2. Append(p, i) \in T
      BY <2>1, <2>5, <3>1
    <3>3. CASE Append(p, i) # t
      BY <1>4, <3>1, <3>2, <3>3
    <3>4. CASE Append(p, i) = t
      <4>1. RunShape(task[t]) /\ Matches(task[p], Parts(p)[i], task[t])
        BY <1>3, <3>1, <3>4 DEF AllShaped
      <4>2. Matches(task[p], Parts(p)[i], Seen(interp))
        BY <2>6, <4>1, MatchWalk
      <4>3. Matches(task[p], Parts(p)[i], interp)
        BY <4>2, MatchSeen
      <4>4. QED
        BY <1>4, <3>2, <3>4, <4>3
    <3>5. QED
      BY <3>3, <3>4
  <2>10. \A i \in 1..Len(Parts(p)) : Matches(task[p], Parts(p)[i], task[Append(p, i)])'
    BY <2>7, <2>8, <2>9, SameWalk
  <2>11. QED
    BY <2>5, <2>6, <2>8, <2>10 DEF Family
<1>7. AllFamilies'
  BY <1>2, <1>6 DEF AllFamilies
<1>8. OnItsWay'
  <2>1. Walk(EntryInterp, Seen(task'[<<>>]))
    <3>1. CASE t = <<>>
      <4>1. Seen(task[t]) = task[t]
        BY DEF Seen, Ended
      <4>2. Walk(EntryInterp, task[t])
        BY <1>3, <3>1, <4>1 DEF OnItsWay
      <4>3. Walk(EntryInterp, Seen(interp))
        BY <4>2, WalkOn
      <4>4. QED
        BY <1>1, <1>4, <3>1, <4>3
    <3>2. CASE t # <<>>
      BY <1>1, <1>3, <1>4, <3>2 DEF OnItsWay
    <3>3. QED
      BY <3>1, <3>2
  <2>2. QED
    BY <2>1, SameWalk DEF OnItsWay
<1>9. Reference'
  BY <1>3, SameWalk DEF Reference
<1>10. QED
  BY <1>5, <1>7, <1>8, <1>9 DEF AgreeInv

\* A family is seen as the tree walker sees it: with the shape of a run.
LEMMA SeenShape ==
    ASSUME NEW I, RunShape(Seen(I))
    PROVE  RunShape(I)
<1>1. CASE I.outcome = NoOutcome
  BY <1>1 DEF Seen
<1>2. CASE I.outcome # NoOutcome
  <2> DEFINE J == [I EXCEPT !.depth = 0]
  <2>1. Seen(I) = J /\ DOMAIN J = DOMAIN I
    BY <1>2 DEF Seen
  <2>2. DOMAIN I = {"stack", "depth", "trace", "outcome"}
    BY <2>1 DEF RunShape
  <2>3. J.stack = I.stack /\ J.trace = I.trace /\ J.outcome = I.outcome
    BY <2>2
  <2> HIDE DEF J
  <2>4. QED
    BY <1>2, <2>1, <2>2, <2>3 DEF RunShape
<1>3. QED
  BY <1>1, <1>2

\* A step that is neither a spawn nor a join is one of the tree walker.
LEMMA StepWalks ==
    ASSUME Inv, AgreeInv, NEW t \in Tasks, Step(t), ~Spawn(t), ~Join(t)
    PROVE  /\ Active(t) /\ Working /\ ~Ended(t) /\ Kids(t) = {} /\ RunShape(task[t])
           /\ Seen(task'[t]) = TreeWalk(task[t]) /\ task' = [task EXCEPT ![t] = task'[t]]
           /\ UNCHANGED <<declared, entry, mode, expected>>
<1>1. Active(t)
  BY DEF Step, BeginClause, NoGuard, ClauseDecided, ClauseFails, ClausesPassed, Dispatch,
         DispatchFails, BodyEnds, EvalLeaf, Begin, CallRefused, EvalPart, FinishLast, FinishConcat,
         FieldMissing, CallPrimitive, PrimitiveRaises, CallDefinition, RecursionLimit, Return,
         ReturnToHost, BranchEnds, FinishingPrimitive, Finishing, Evaluating
<1>2. Working /\ ~Ended(t) /\ Kids(t) = {} /\ RunShape(task[t])
  BY <1>1, ActiveOK DEF AgreeInv, AllShaped
<1>3. FrameShape(Top(t))
  BY <1>2, PopShape DEF RunShape, Top, Ended
<1>4. FrameSane(Top(t))
  BY <1>3 DEF FrameShape, FrameSane
<1>5. Seen(task'[t]) = TreeWalk(task[t]) /\ task' = [task EXCEPT ![t] = task'[t]]
  BY <1>4, StepsAreWalks DEF WalkStep
<1>6. UNCHANGED <<declared, entry, mode, expected>>
  BY DEF Step, BeginClause, NoGuard, ClauseDecided, ClauseFails, ClausesPassed, Dispatch,
         DispatchFails, BodyEnds, EvalLeaf, Begin, CallRefused, EvalPart, FinishLast, FinishConcat,
         FieldMissing, CallPrimitive, PrimitiveRaises, CallDefinition, RecursionLimit, Return,
         ReturnToHost, BranchEnds, Update, Become, Raise
<1>7. QED
  BY <1>1, <1>2, <1>5, <1>6

\* A step of the tree walker in a task.
LEMMA AgreeWalk ==
    ASSUME Inv, DepthInv, AgreeInv, NEW t \in Tasks, Step(t), ~Spawn(t), ~Join(t)
    PROVE  AgreeInv'
<1> DEFINE interp == task'[t]
<1>1. /\ Working /\ ~Ended(t) /\ Kids(t) = {} /\ RunShape(task[t])
      /\ Seen(interp) = TreeWalk(task[t]) /\ task' = [task EXCEPT ![t] = interp]
      /\ UNCHANGED <<declared, entry, mode, expected>>
  BY StepWalks
<1>2. RunShape(Seen(interp)) /\ Walk(task[t], Seen(interp))
  BY <1>1, WalkKeeps, OneStep
<1>3. task' = [u \in Tasks \ Kids(t) |-> IF u = t THEN interp ELSE task[u]]
  BY <1>1 DEF Tasks
<1>4. AllEnded(t)
  BY <1>1 DEF AllEnded
<1>5. RunShape(interp)
  BY <1>2, SeenShape
<1> HIDE DEF interp
<1>6. QED
  BY <1>1, <1>2, <1>3, <1>4, <1>5, AgreeChange

\* A task that joins its branches.
LEMMA JoinReady ==
    ASSUME Inv, DepthInv, AgreeInv, NEW t \in Tasks, Join(t)
    PROVE  /\ ~Ended(t) /\ Kids(t) # {} /\ AllEnded(t) /\ UNCHANGED <<declared, entry, mode, expected>>
           /\ task' = [u \in Tasks \ Kids(t) |-> IF u = t THEN AfterJoin(t) ELSE task[u]]
           /\ Working /\ Paused(task[t]) /\ Family(t) /\ \A u \in Kids(t) : RunShape(task[u])
<1>1. /\ ~Ended(t) /\ Kids(t) # {} /\ AllEnded(t) /\ UNCHANGED <<declared, entry, mode, expected>>
      /\ task' = [u \in Tasks \ Kids(t) |-> IF u = t THEN AfterJoin(t) ELSE task[u]]
  BY DEF Join, Without, AfterJoin
<1>2. Working
  <2>1. PICK u : u \in Kids(t)
    BY <1>1
  <2>2. u \in Tasks /\ u # <<>>
    <3>1. u \in Tasks /\ Len(u) \in 1..Len(u) /\ Len(<<>>) = 0
      BY <2>1, KidAbove DEF Inv
    <3>2. QED
      BY <3>1
  <2>3. QED
    BY <2>2 DEF Inv, Paths, Working
<1>3. AllShaped /\ AllFamilies
  BY <1>2 DEF AgreeInv
<1>4. Paused(task[t]) /\ Family(t)
  BY <1>1, <1>3, PausedOK DEF AllFamilies
<1>5. \A u \in Kids(t) : RunShape(task[u])
  BY <1>3 DEF AllShaped, Kids
<1>6. QED
  BY <1>1, <1>2, <1>4, <1>5

\* A task goes on with what its branches ended with.
LEMMA AgreeJoin ==
    ASSUME Inv, DepthInv, AgreeInv, NEW t \in Tasks, Join(t)
    PROVE  AgreeInv'
<1> DEFINE interp == AfterJoin(t)
<1>1. /\ ~Ended(t) /\ Kids(t) # {} /\ AllEnded(t) /\ UNCHANGED <<declared, entry, mode, expected>>
      /\ task' = [u \in Tasks \ Kids(t) |-> IF u = t THEN interp ELSE task[u]]
      /\ Working /\ Paused(task[t]) /\ Family(t) /\ \A u \in Kids(t) : RunShape(task[u])
  BY JoinReady
<1>2. Walk(task[t], Seen(interp))
  BY <1>1, JoinWalk
<1>3. RunShape(interp)
  <2>1. RunShape(Seen(interp))
    BY <1>1, <1>2, WalkShape DEF Paused
  <2> HIDE DEF interp
  <2>2. QED
    BY <2>1, SeenShape
<1> HIDE DEF interp
<1>4. QED
  BY <1>1, <1>2, <1>3, AgreeChange

\* The paths of the tasks after a task has been split into branches.
LEMMA SpawnedPaths ==
    ASSUME Paths, NEW t \in Tasks, Kids(t) = {}, NEW n \in Nat,
           NEW kids, kids = {Append(t, i) : i \in 1..n}, Tasks' = Tasks \union kids
    PROVE  /\ \A u \in kids : u \notin Tasks /\ Kids(u)' = {}
           /\ Kids(t)' = kids
           /\ \A p \in Tasks : p # t => Kids(p)' = Kids(p)
<1>1. t \in Seq(Nat) /\ Len(t) \in Nat /\ \A u \in Tasks : u \in Seq(Nat) /\ Len(u) \in Nat
  BY DEF Paths
<1>2. ASSUME NEW u \in kids
      PROVE  Len(u) = Len(t) + 1 /\ SubSeq(u, 1, Len(t)) = t /\ u \notin Tasks
  <2>1. PICK i \in 1..n : u = Append(t, i)
    OBVIOUS
  <2>2. Len(u) = Len(t) + 1 /\ Above(u, Len(t)) = t
    BY <1>1, <2>1, BranchPath
  <2>3. QED
    BY <2>2 DEF Kids, Above
<1>3. \A p : Kids(p)' = {v \in Tasks \union kids : Len(v) = Len(p) + 1 /\ SubSeq(v, 1, Len(p)) = p}
  BY DEF Kids
<1>4. Kids(t)' = kids
  BY <1>2, <1>3 DEF Kids
<1>5. ASSUME NEW p \in Tasks, p # t
      PROVE  Kids(p)' = Kids(p)
  <2>1. ASSUME NEW v \in kids, Len(v) = Len(p) + 1, SubSeq(v, 1, Len(p)) = p
        PROVE  FALSE
    <3>1. Len(p) = Len(t)
      <4> DEFINE j == Len(p)
                 k == Len(t)
      <4>1. j \in Nat /\ k \in Nat /\ j + 1 = k + 1
        BY <1>1, <1>2, <2>1
      <4> HIDE DEF j, k
      <4>2. j = k
        BY <4>1
      <4>3. QED
        BY <4>2 DEF j, k
    <3>2. QED
      BY <1>2, <1>5, <2>1, <3>1
  <2>2. QED
    BY <1>3, <2>1 DEF Kids
<1>6. ASSUME NEW u \in kids, NEW v \in Tasks \union kids, Len(v) = Len(u) + 1, SubSeq(v, 1, Len(u)) = u
      PROVE  FALSE
  <2>1. CASE v \in kids
    <3> DEFINE k == Len(t)
    <3>1. k \in Nat /\ Len(u) = k + 1 /\ Len(v) = k + 1
      BY <1>1, <1>2, <2>1
    <3> HIDE DEF k
    <3>2. k + 1 = (k + 1) + 1
      BY <1>6, <3>1
    <3>3. QED
      BY <3>1, <3>2
  <2>2. CASE v \in Tasks
    <3> DEFINE k == Len(t)
               j == Len(v)
    <3>1. k \in Nat /\ j \in Nat /\ Len(u) = k + 1 /\ j = Len(u) + 1
      BY <1>1, <1>2, <1>6, <2>2
    <3> HIDE DEF k, j
    <3>2. j \in 1..j /\ j - 1 = Len(u)
      BY <3>1
    <3>3. Above(v, Len(v) - 1) \in Tasks
      BY <2>2, <3>2 DEF Paths, WaitingAt, j
    <3>4. Above(v, Len(v) - 1) = u
      BY <1>6, <3>2 DEF Above, j
    <3>5. QED
      BY <1>2, <3>3, <3>4
  <2>3. QED
    BY <1>6, <2>1, <2>2
<1>7. ASSUME NEW u \in kids
      PROVE  Kids(u)' = {}
  BY <1>3, <1>6
<1>8. QED
  BY <1>2, <1>4, <1>5, <1>7

\* A task is split into branches.
LEMMA AgreeSpawn ==
    ASSUME Inv, DepthInv, AgreeInv, NEW t \in Tasks, Spawn(t)
    PROVE  AgreeInv'
<1> DEFINE f == Top(t)
           parts == Parts(t)
           kids == {Append(t, i) : i \in 1..Len(parts)}
           new(p) == Interp(<<BranchFrame(f, p)>>, task[t].depth)
<1>1. /\ Evaluating(t, {"concat"}) /\ mode = "parallel"
      /\ task' = [u \in Tasks \union kids |-> IF u \in kids THEN new(parts[u[Len(u)]]) ELSE task[u]]
      /\ UNCHANGED <<declared, entry, mode, printed, expected>>
  BY DEF Spawn, RunsInParallel, BranchDepth, Parts
<1>2. /\ Active(t) /\ f.focus \in Nodes /\ Kids(t) = {} /\ ~Ended(t) /\ Node[f.focus].kind = "concat"
      /\ Working /\ Paths
  BY <1>1, FocusOK, ActiveOK DEF Inv
<1>3. AllShaped /\ AllFamilies /\ OnItsWay /\ Reference
  BY <1>2 DEF AgreeInv
<1>4. Paused(task[t])
  <2>1. task[t].depth \in Nat
    BY AboveOK
  <2>2. QED
    BY <1>2, <1>3, <2>1, NodeAssumption DEF Paused, Ended, Top, AllShaped
<1>5. t \in Seq(Nat) /\ Len(parts) \in Nat
  BY <1>2, PartsAreNodes DEF Paths, Parts
<1>6. Tasks' = Tasks \union kids
  BY <1>1 DEF Tasks
<1>7. /\ \A u \in kids : u \notin Tasks /\ Kids(u)' = {}
      /\ Kids(t)' = kids
      /\ \A p \in Tasks : p # t => Kids(p)' = Kids(p)
  <2> HIDE DEF kids, parts
  <2>1. kids = {Append(t, i) : i \in 1..Len(parts)}
    BY DEF kids
  <2>2. QED
    BY <1>2, <1>5, <1>6, <2>1, SpawnedPaths
<1>8. \A u \in Tasks : task'[u] = task[u]
  <2> HIDE DEF kids, new
  <2>1. QED
    BY <1>1, <1>7
<1>9. ASSUME NEW i \in 1..Len(parts)
      PROVE  /\ Append(t, i) \in kids /\ task'[Append(t, i)] = new(parts[i])
             /\ Matches(task[t], parts[i], new(parts[i])) /\ RunShape(new(parts[i]))
  <2> DEFINE u == Append(t, i)
  <2>1. u \in kids
    OBVIOUS
  <2>2. u[Len(u)] = i
    BY <1>5, BranchPath
  <2> HIDE DEF kids, u
  <2>3. task'[u] = new(parts[i])
    <3> HIDE DEF new
    <3>1. QED
      BY <1>1, <2>1, <2>2
  <2> DEFINE E == new(parts[i])
             I == task[t]
  <2>4. E = Interp(<<BranchFrame(Head(I.stack), parts[i])>>, I.depth)
    BY DEF Top
  <2>5. Paused(I)
    BY <1>4
  <2> HIDE DEF E, I, parts
  <2>6. Matches(I, parts[i], E) /\ RunShape(E)
    BY <2>4, <2>5, MatchStart
  <2>7. QED
    BY <2>1, <2>3, <2>6 DEF E, I, u
<1> HIDE DEF new
<1>10. AllShaped'
  <2>1. \A u \in kids : RunShape(task'[u])
    BY <1>9
  <2> HIDE DEF kids
  <2>2. QED
    BY <1>3, <1>6, <1>8, <2>1 DEF AllShaped
<1>11. \A p \in Tasks : Top(p)' = Top(p) /\ Parts(p)' = Parts(p)
  BY <1>8 DEF Top, Parts
<1>12. ASSUME NEW p \in Tasks', Kids(p)' # {}
       PROVE  Family(p)'
  <2>1. p \in Tasks
    <3> HIDE DEF kids
    <3>1. QED
      BY <1>6, <1>7, <1>12
  <2>2. CASE p = t
    <3>1. Kids(t)' = {Append(t, i) : i \in 1..Len(Parts(t)')}
      BY <1>7, <1>11
    <3>2. \A i \in 1..Len(Parts(t)) : Matches(task[t], Parts(t)[i], task'[Append(t, i)])
      BY <1>9
    <3>3. task'[t] = task[t] /\ Top(t)' = Top(t) /\ Parts(t)' = Parts(t)
      BY <1>8, <1>11
    <3>4. \A i \in 1..Len(Parts(t)') : Matches(task[t], Parts(t)[i], task[Append(t, i)])'
      BY <1>1, <3>2, <3>3, SameWalk
    <3>5. QED
      BY <1>2, <2>2, <3>1, <3>3, <3>4 DEF Family
  <2>3. CASE p # t
    <3>1. Kids(p)' = Kids(p) /\ Family(p)
      BY <1>3, <1>7, <1>12, <2>1, <2>3 DEF AllFamilies
    <3>2. task'[p] = task[p] /\ Top(p)' = Top(p) /\ Parts(p)' = Parts(p)
      BY <1>8, <1>11, <2>1
    <3>3. \A i \in 1..Len(Parts(p)) :
             Matches(task[p], Parts(p)[i], task[Append(p, i)]) /\ task'[Append(p, i)] = task[Append(p, i)]
      BY <1>8, <3>1 DEF Family, Kids
    <3>4. \A i \in 1..Len(Parts(p)') : Matches(task[p], Parts(p)[i], task[Append(p, i)])'
      BY <1>1, <3>2, <3>3, SameWalk
    <3>5. QED
      BY <3>1, <3>2, <3>4 DEF Family
  <2>4. QED
    BY <2>2, <2>3
<1>13. AllFamilies'
  BY <1>12 DEF AllFamilies
<1>14. OnItsWay'
  <2>1. task'[<<>>] = task[<<>>]
    BY <1>2, <1>8 DEF Paths
  <2>2. QED
    BY <1>1, <1>3, <2>1, SameWalk DEF OnItsWay
<1>15. Reference'
  BY <1>1, <1>3, SameWalk DEF Reference
<1>16. QED
  BY <1>10, <1>13, <1>14, <1>15 DEF AgreeInv

\* An ended task has its own outcome and trace.
LEMMA SeenEnd ==
    ASSUME NEW I, RunShape(I)
    PROVE  Seen(I).outcome = I.outcome /\ Seen(I).trace = I.trace
<1>1. DOMAIN I = {"stack", "depth", "trace", "outcome"}
  BY DEF RunShape
<1>2. QED
  BY <1>1 DEF Seen

\* The interpreter of the entry.
LEMMA EntryShape ==
    RunShape(EntryInterp) /\ Seen(EntryInterp) = EntryInterp
<1>1. TraceShape(Silence)
  BY EmptyShape DEF TraceShape, Silence
<1>2. CASE entry.name \in DOMAIN Symbols
  <2> DEFINE f == NewFrame(Symbols[entry.name], entry.args)
             s == <<f>>
  <2>1. FrameShape(f) /\ f.phase = "pre"
    BY NewShape
  <2>2. EntryInterp = Run(s, 1, Silence, NoOutcome)
    BY <1>2 DEF EntryInterp, Interp, Run
  <2> HIDE DEF f
  <2>3. StackShape(s) /\ s # <<>>
    <3>1. IsSeq(s) /\ s # <<>> /\ Len(s) = 1
      BY OneFrame, Pushes, EmptyShape
    <3>2. \A i \in 1..Len(s) : i = 1 /\ s[i] = f
      BY <3>1
    <3>3. 2..Len(s) = {}
      BY <3>1
    <3>4. QED
      BY <2>1, <3>1, <3>2, <3>3 DEF StackShape
  <2> HIDE DEF s
  <2>4. QED
    BY <1>1, <2>2, <2>3, RunFields DEF RunShape, Seen
<1>3. CASE entry.name \notin DOMAIN Symbols
  <2>1. EntryInterp = Run(<<>>, 0, Silence, Err("General"))
    BY <1>3 DEF EntryInterp, Interp, Run
  <2>2. RunShape(EntryInterp)
    BY <1>1, <2>1, RunFields, OutcomeKinds, EmptyShape DEF RunShape
  <2>3. Seen(EntryInterp) = EntryInterp
    BY <2>1 DEF Seen, Run
  <2>4. QED
    BY <2>2, <2>3
<1>4. QED
  BY <1>2, <1>3

\* A run begins.
LEMMA AgreeStart ==
    ASSUME Inv, AgreeInv, Load \/ RunAgain
    PROVE  AgreeInv'
<1>1. UNCHANGED <<declared, entry>>
  BY DEF Load, RunAgain
<1>2. ASSUME task' = [t \in {<<>>} |-> EntryInterp]
      PROVE  AllShaped' /\ AllFamilies' /\ OnItsWay'
  <2>1. Tasks' = {<<>>} /\ task'[<<>>] = EntryInterp
    BY <1>2 DEF Tasks
  <2>2. AllShaped'
    BY <2>1, EntryShape DEF AllShaped
  <2>3. Kids(<<>>)' = {}
    <3>1. Kids(<<>>)' = {u \in {<<>>} : Len(u) = Len(<<>>) + 1 /\ SubSeq(u, 1, Len(<<>>)) = <<>>}
      BY <2>1 DEF Kids
    <3>2. Len(<<>>) # Len(<<>>) + 1
      OBVIOUS
    <3>3. QED
      BY <3>1, <3>2
  <2>4. AllFamilies'
    BY <2>1, <2>3 DEF AllFamilies
  <2>5. Walk(EntryInterp, Seen(task'[<<>>]))
    BY <2>1, EntryShape, NoWalk
  <2>6. OnItsWay'
    BY <1>1, <2>5, SameWalk DEF OnItsWay
  <2>7. QED
    BY <2>2, <2>4, <2>6
<1>3. CASE Load
  <2>1. CASE mode' = "tree walker"
    BY <1>2, <1>3, <2>1 DEF Load, AgreeInv, Reference
  <2>2. CASE mode' # "tree walker"
    BY <1>3, <2>2 DEF Load, AgreeInv, Working
  <2>3. QED
    BY <2>1, <2>2
<1>4. CASE RunAgain
  <2> DEFINE I == task[<<>>]
             J == Seen(I)
  <2>1. /\ mode = "tree walker" /\ I.outcome # NoOutcome
        /\ expected' = [outcome |-> I.outcome, trace |-> I.trace]
        /\ task' = [t \in {<<>>} |-> EntryInterp]
    BY <1>4 DEF RunAgain, Ended
  <2>2. <<>> \in Tasks /\ AllShaped /\ OnItsWay
    BY <2>1 DEF Inv, Paths, AgreeInv, Working
  <2>3. RunShape(I) /\ Walk(EntryInterp, J)
    BY <2>2 DEF AllShaped, OnItsWay
  <2> HIDE DEF I
  <2>4. J.outcome = I.outcome /\ J.trace = I.trace
    BY <2>3, SeenEnd
  <2> HIDE DEF J
  <2>5. expected' = [outcome |-> J.outcome, trace |-> J.trace] /\ J.outcome # NoOutcome
    BY <2>1, <2>4
  <2>6. Reference'
    BY <1>1, <2>3, <2>5, SameWalk DEF Reference
  <2>7. QED
    BY <1>2, <2>1, <2>6 DEF AgreeInv
<1>5. QED
  BY <1>3, <1>4

\* Any step of a task.
LEMMA AgreeStep ==
    ASSUME Inv, DepthInv, AgreeInv, NEW t \in Tasks, Step(t)
    PROVE  AgreeInv'
<1>1. CASE Spawn(t)
  BY <1>1, AgreeSpawn
<1>2. CASE Join(t)
  BY <1>2, AgreeJoin
<1>3. CASE ~Spawn(t) /\ ~Join(t)
  BY <1>3, AgreeWalk
<1>4. QED
  BY <1>1, <1>2, <1>3

\* A step that changes nothing.
LEMMA AgreeStutter ==
    ASSUME AgreeInv, UNCHANGED vars
    PROVE  AgreeInv'
<1>1. UNCHANGED <<declared, entry, mode, task, expected>>
  BY DEF vars
<1>2. Tasks' = Tasks /\ Working' = Working /\ \A p : Kids(p)' = Kids(p) /\ Top(p)' = Top(p) /\ Parts(p)' = Parts(p)
  BY <1>1 DEF Tasks, Working, Kids, Top, Parts
<1>3. ASSUME Working
      PROVE  AllShaped' /\ AllFamilies' /\ OnItsWay' /\ Reference'
  <2>1. AllShaped /\ AllFamilies /\ OnItsWay /\ Reference
    BY <1>3 DEF AgreeInv
  <2>2. AllShaped'
    BY <1>1, <1>2, <2>1 DEF AllShaped
  <2>3. \A p : Family(p)' <=> Family(p)
    BY <1>1, <1>2, SameWalk DEF Family
  <2>4. AllFamilies'
    BY <1>2, <2>1, <2>3 DEF AllFamilies
  <2>5. OnItsWay'
    BY <1>1, <2>1, SameWalk DEF OnItsWay
  <2>6. Reference'
    BY <1>1, <2>1, SameWalk DEF Reference
  <2>7. QED
    BY <2>2, <2>4, <2>5, <2>6
<1>4. QED
  BY <1>2, <1>3 DEF AgreeInv

\* The invariant holds.
LEMMA Agreement == Spec => []AgreeInv
<1>1. Init => AgreeInv
  BY DEF Init, AgreeInv, Working
<1>2. Inv /\ DepthInv /\ AgreeInv /\ [Next]_vars => AgreeInv'
  <2> SUFFICES ASSUME Inv, DepthInv, AgreeInv, [Next]_vars
               PROVE  AgreeInv'
    OBVIOUS
  <2>1. CASE Load \/ RunAgain
    BY <2>1, AgreeStart
  <2>2. ASSUME NEW t \in Tasks, Step(t)
        PROVE  AgreeInv'
    BY <2>2, AgreeStep
  <2>3. CASE UNCHANGED vars
    BY <2>3, AgreeStutter
  <2>4. QED
    BY <2>1, <2>2, <2>3 DEF Next, Work, Rest
<1>3. QED
  BY <1>1, <1>2, Invariance, DepthInvariance, PTL DEF Spec

\* Whatever the program and the order in which its branches run, the run in parallel
\* ends with the outcome and the trace of the tree walker.
THEOREM Agrees == Spec => []AgreesWithTreeWalker
<1>1. Inv /\ AgreeInv => AgreesWithTreeWalker
  <2> DEFINE I == task[<<>>]
             K == Seen(I)
  <2> SUFFICES ASSUME Inv, AgreeInv, RunOver
               PROVE  expected = [outcome |-> I.outcome, trace |-> I.trace]
    BY DEF AgreesWithTreeWalker
  <2>1. mode = "parallel" /\ I.outcome # NoOutcome
    BY DEF RunOver, Ended
  <2>2. <<>> \in Tasks /\ AllShaped /\ OnItsWay /\ Reference
    BY <2>1 DEF Inv, Paths, AgreeInv, Working
  <2>3. RunShape(I) /\ Walk(EntryInterp, K)
    BY <2>2 DEF AllShaped, OnItsWay
  <2>4. PICK J : /\ J.outcome # NoOutcome /\ Walk(EntryInterp, J)
                 /\ expected = [outcome |-> J.outcome, trace |-> J.trace]
    BY <2>1, <2>2 DEF Reference
  <2> HIDE DEF I
  <2>5. K.outcome = I.outcome /\ K.trace = I.trace
    BY <2>3, SeenEnd
  <2> HIDE DEF K
  <2>6. K = J
    BY <2>1, <2>3, <2>4, <2>5, OneEnd
  <2>7. QED
    BY <2>4, <2>5, <2>6
<1>2. QED
  BY <1>1, Invariance, Agreement, PTL

=============================================================================
