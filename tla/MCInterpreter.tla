--------------------------- MODULE MCInterpreter ---------------------------
(***************************************************************************)
(* One program for TLC.  main calls the local f and the imported g, which  *)
(* calls back; f has contracts, three candidates and recursion; log has an *)
(* effect; broken has what a careless author may write.                    *)
(***************************************************************************)
EXTENDS Interpreter, TLC

Literal(x)         == [kind |-> "literal", name |-> "main", value |-> x, parts |-> <<>>]
Reference(x)       == [kind |-> "reference", name |-> x, value |-> "none", parts |-> <<>>]
Refusal            == [kind |-> "refusal", name |-> "main", value |-> "none", parts |-> <<>>]
Compound(k, parts) == [kind |-> k, name |-> "main", value |-> "none", parts |-> parts]
Binding(x, e, b)   == [kind |-> "binding", name |-> x, value |-> "none", parts |-> <<e, b>>]
CallOf(x, parts)   == [kind |-> "call", name |-> x, value |-> "none", parts |-> parts]

\* main() = if calc("one") then { g("one".field); g(f("one".field)) }
\*          else is_bottom(f(f("one")))
MainNodes ==
    ("main.if"    :> Compound("conditional", <<"main.calc", "main.seq", "main.isb">>)) @@
    ("main.calc"  :> CallOf("calc", <<"main.one">>)) @@
    ("main.one"   :> Literal("one")) @@
    ("main.seq"   :> Compound("sequence", <<"main.g1", "main.g2">>)) @@
    ("main.g1"    :> CallOf("g", <<"main.fld1">>)) @@
    ("main.fld1"  :> Compound("field", <<"main.one1">>)) @@
    ("main.one1"  :> Literal("one")) @@
    ("main.g2"    :> CallOf("g", <<"main.f1">>)) @@
    ("main.f1"    :> CallOf("f", <<"main.fld2">>)) @@
    ("main.fld2"  :> Compound("field", <<"main.one3">>)) @@
    ("main.one3"  :> Literal("one")) @@
    ("main.isb"   :> CallOf("is_bottom", <<"main.f2">>)) @@
    ("main.f2"    :> CallOf("f", <<"main.f3">>)) @@
    ("main.f3"    :> CallOf("f", <<"main.one2">>)) @@
    ("main.one2"  :> Literal("one"))

\* f(x) requires is_bottom(bottom), ensures result
\*   when calc(x), cost 2                = it bound to x in ++ it
\*   otherwise, no cost                  = bottom
\*   when it bound to x in it, cost 1    = calc(f(x.field))
FNodes ==
    ("f.pre"    :> CallOf("is_bottom", <<"f.nox">>)) @@
    ("f.nox"    :> Refusal) @@
    ("f.post"   :> Reference("result")) @@
    ("f.guard1" :> CallOf("calc", <<"f.x1">>)) @@
    ("f.x1"     :> Reference("x")) @@
    ("f.bind"   :> Binding("it", "f.x2", "f.concat")) @@
    ("f.x2"     :> Reference("x")) @@
    ("f.concat" :> Compound("concat", <<"f.it">>)) @@
    ("f.it"     :> Reference("it")) @@
    ("f.bottom" :> Refusal) @@
    ("f.guard3" :> Binding("it", "f.x3", "f.it3")) @@
    ("f.x3"     :> Reference("x")) @@
    ("f.it3"    :> Reference("it")) @@
    ("f.body3"  :> CallOf("calc", <<"f.rec">>)) @@
    ("f.rec"    :> CallOf("f", <<"f.field">>)) @@
    ("f.field"  :> Compound("field", <<"f.x4">>)) @@
    ("f.x4"     :> Reference("x"))

\* log() = say("one")
LogNodes ==
    ("log.say" :> CallOf("say", <<"log.one">>)) @@
    ("log.one" :> Literal("one"))

\* The imported g(z) = if z then f() else log()
GNodes ==
    ("g.if"  :> Compound("conditional", <<"g.z", "g.f", "g.log">>)) @@
    ("g.z"   :> Reference("z")) @@
    ("g.f"   :> CallOf("f", <<>>)) @@
    ("g.log" :> CallOf("log", <<>>))

\* broken(x) requires calc(x)
\*   when if x then log() else say(x), cost 1 = if calc(x) then unknown() else y
BrokenNodes ==
    ("b.pre"     :> CallOf("calc", <<"b.x1">>)) @@
    ("b.x1"      :> Reference("x")) @@
    ("b.guard"   :> Compound("conditional", <<"b.x2", "b.log", "b.say">>)) @@
    ("b.x2"      :> Reference("x")) @@
    ("b.log"     :> CallOf("log", <<>>)) @@
    ("b.say"     :> CallOf("say", <<"b.x3">>)) @@
    ("b.x3"      :> Reference("x")) @@
    ("b.body"    :> Compound("conditional", <<"b.calc", "b.unknown", "b.y">>)) @@
    ("b.calc"    :> CallOf("calc", <<"b.x4">>)) @@
    ("b.x4"      :> Reference("x")) @@
    ("b.unknown" :> CallOf("unknown", <<>>)) @@
    ("b.y"       :> Reference("y"))

MCNode == MainNodes @@ FNodes @@ LogNodes @@ GNodes @@ BrokenNodes
MCNodes == DOMAIN MCNode

MCOwner ==
    [n \in MCNodes |->
        CASE n \in DOMAIN MainNodes   -> "main"
          [] n \in DOMAIN FNodes      -> "f"
          [] n \in DOMAIN LogNodes    -> "log"
          [] n \in DOMAIN GNodes      -> "g"
          [] n \in DOMAIN BrokenNodes -> "broken"]

MCNames ==
    {"main", "f", "log", "broken", "g", "calc", "say", "is_bottom", "unknown",
     "x", "y", "z", "it", "result"}
MCDefinitions == {"main", "f", "log", "broken", "g"}
MCSymbols     == [name \in {"main", "f", "log", "broken"} |-> name]
MCBindings    == [name \in {"g"} |-> "g"]
MCPrimitives  == ("say" :> "io") @@ ("calc" :> NoEffect) @@ ("is_bottom" :> NoEffect)

MCScalars == {"one", "none"}
MCKeyOf   == [x \in MCScalars |-> x]

\* In a second program the imported definition calls itself f, too.
MCNameOf      == [d \in MCDefinitions |-> d]
MCNameOfClash == [d \in MCDefinitions |-> IF d = "g" THEN "f" ELSE d]

AnyValue     == MCScalars \union {Boxed}
MCParams     == [d \in MCDefinitions |->
                    CASE d \in {"f", "broken"} -> <<"x">> [] d = "g" -> <<"z">> [] OTHER -> <<>>]
MCParamTypes == [d \in MCDefinitions |->
                    CASE d \in {"f", "broken"} -> <<AnyValue>> [] d = "g" -> <<{"one", Boxed}>> [] OTHER -> <<>>]
MCReturnType == [d \in MCDefinitions |-> IF d = "g" THEN {"one"} ELSE AnyValue]

MCPre  == [d \in MCDefinitions |->
              CASE d = "f" -> <<"f.pre">> [] d = "broken" -> <<"b.pre">> [] OTHER -> <<>>]
MCPost == [d \in MCDefinitions |-> IF d = "f" THEN <<"f.post">> ELSE <<>>]

Candidate(guard, cost, body) == [guard |-> guard, cost |-> cost, body |-> body]

MCCandidates ==
    ("main"   :> <<Candidate(NoNode, NoCost, "main.if")>>) @@
    ("f"      :> <<Candidate("f.guard1", 2, "f.bind"), Candidate(NoNode, NoCost, "f.bottom"),
                   Candidate("f.guard3", 1, "f.body3")>>) @@
    ("log"    :> <<Candidate(NoNode, NoCost, "log.say")>>) @@
    ("g"      :> <<Candidate(NoNode, NoCost, "g.if")>>) @@
    ("broken" :> <<Candidate("b.guard", 1, "b.body")>>)

MCEffects      == {"io"}
MCDeclarations == [MCDefinitions -> SUBSET MCEffects]
MCArgLists     == {<<>>, <<"one">>}
=============================================================================
