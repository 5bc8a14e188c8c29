----------------------- MODULE MCParallelEvaluator -----------------------
(***************************************************************************)
(* One module with an entry for every way in which parallel parts can meet *)
(* effects, errors, refusals, imports, contracts and the recursion limit.  *)
(***************************************************************************)
EXTENDS ParallelEvaluator, TLC

Record(kind, name, value, parts) == [kind |-> kind, name |-> name, value |-> value, parts |-> parts]
Literal(v)       == Record("literal", "x", v, <<>>)
Var(name)        == Record("reference", name, "", <<>>)
Refusal          == Record("refusal", "x", "", <<>>)
CallOf(f, parts) == Record("call", f, "", parts)
Other(k, parts)  == Record(k, "x", "", parts)

Candidate(guard, cost, body) == [guard |-> guard, cost |-> cost, body |-> body]

Def(nodes, pre, post, cands) == [nodes |-> nodes, pre |-> pre, post |-> post, cands |-> cands]

Plain(body, nodes) == Def(nodes, <<>>, <<>>, <<Candidate(NoNode, NoCost, body)>>)

\* log(x)  = say(x)                  boom(x) = fail(x)            no(x)    = bottom
\* ask(x)  = classify(x)             far(x)  = log(x), imported   blind(x) = classify(bottom)
\* pure(x) = x at cost 1 when x, and "b" otherwise, ensuring result
\* both(x) = log(x) ++ pure(x)
Helpers ==
    ("log"   :> Plain("log", ("log" :> CallOf("say", <<"log.x">>)) @@ ("log.x" :> Var("x")))) @@
    ("ask"   :> Plain("ask", ("ask" :> CallOf("classify", <<"ask.x">>)) @@ ("ask.x" :> Var("x")))) @@
    ("boom"  :> Plain("boom", ("boom" :> CallOf("fail", <<"boom.x">>)) @@ ("boom.x" :> Var("x")))) @@
    ("far"   :> Plain("far", ("far" :> CallOf("log", <<"far.x">>)) @@ ("far.x" :> Var("x")))) @@
    ("no"    :> Plain("no", "no" :> Refusal)) @@
    ("blind" :> Plain("blind", ("blind" :> CallOf("classify", <<"blind.n">>)) @@ ("blind.n" :> Refusal))) @@
    ("pure"  :> Def(("pure.x" :> Var("x")) @@ ("pure.b" :> Literal("b")) @@ ("pure.r" :> Var("result")),
                    <<>>, <<"pure.r">>,
                    <<Candidate(NoNode, NoCost, "pure.b"), Candidate("pure.x", 1, "pure.x")>>)) @@
    ("both"  :> Plain("both", ("both" :> Other("concat", <<"both.1", "both.2">>)) @@
                              ("both.1" :> CallOf("log", <<"both.x">>)) @@
                              ("both.2" :> CallOf("pure", <<"both.x">>)) @@ ("both.x" :> Var("x"))))

\* three()  = log("a") ++ ask("b") ++ log("b")
\* nested() = both("a") ++ no("b")
\* args()   = pure(log("a")) ++ pure(log("b"))
\* hidden() = pure(say("a")) ++ pure(say("b"))
\* abroad() = let x = "b" in far(x) ++ far("a")
\* late()   = log("a") ++ boom("b") ++ ask("a")
\* twice()  = boom("a") ++ blind("a")
\* deep(x)  = no(x) ++ deep(x)
\* strict() = pure("a"), requiring pure(say("a")) ++ pure("a")
Parallel ==
    ("three"  :> Plain("three",
        ("three"  :> Other("concat", <<"three.1", "three.2", "three.3">>)) @@
        ("three.1" :> CallOf("log", <<"three.a">>)) @@ ("three.2" :> CallOf("ask", <<"three.b">>)) @@
        ("three.3" :> CallOf("log", <<"three.b">>)) @@
        ("three.a" :> Literal("a")) @@ ("three.b" :> Literal("b")))) @@
    ("nested" :> Plain("nested",
        ("nested" :> Other("concat", <<"nested.1", "nested.2">>)) @@
        ("nested.1" :> CallOf("both", <<"nested.a">>)) @@ ("nested.2" :> CallOf("no", <<"nested.b">>)) @@
        ("nested.a" :> Literal("a")) @@ ("nested.b" :> Literal("b")))) @@
    ("args"   :> Plain("args",
        ("args"   :> Other("concat", <<"args.1", "args.2">>)) @@
        ("args.1" :> CallOf("pure", <<"args.3">>)) @@ ("args.2" :> CallOf("pure", <<"args.4">>)) @@
        ("args.3" :> CallOf("log", <<"args.a">>)) @@ ("args.4" :> CallOf("log", <<"args.b">>)) @@
        ("args.a" :> Literal("a")) @@ ("args.b" :> Literal("b")))) @@
    ("hidden" :> Plain("hidden",
        ("hidden" :> Other("concat", <<"hidden.1", "hidden.2">>)) @@
        ("hidden.1" :> CallOf("pure", <<"hidden.3">>)) @@ ("hidden.2" :> CallOf("pure", <<"hidden.4">>)) @@
        ("hidden.3" :> CallOf("say", <<"hidden.a">>)) @@ ("hidden.4" :> CallOf("say", <<"hidden.b">>)) @@
        ("hidden.a" :> Literal("a")) @@ ("hidden.b" :> Literal("b")))) @@
    ("abroad" :> Plain("abroad",
        ("abroad" :> Other("binding", <<"abroad.b", "abroad.c">>)) @@ ("abroad.b" :> Literal("b")) @@
        ("abroad.c" :> Other("concat", <<"abroad.1", "abroad.2">>)) @@
        ("abroad.1" :> CallOf("far", <<"abroad.x">>)) @@ ("abroad.2" :> CallOf("far", <<"abroad.a">>)) @@
        ("abroad.x" :> Var("x")) @@ ("abroad.a" :> Literal("a")))) @@
    ("late"   :> Plain("late",
        ("late"   :> Other("concat", <<"late.1", "late.2", "late.3">>)) @@
        ("late.1" :> CallOf("log", <<"late.a">>)) @@ ("late.2" :> CallOf("boom", <<"late.b">>)) @@
        ("late.3" :> CallOf("ask", <<"late.a">>)) @@
        ("late.a" :> Literal("a")) @@ ("late.b" :> Literal("b")))) @@
    ("twice"  :> Plain("twice",
        ("twice"  :> Other("concat", <<"twice.1", "twice.2">>)) @@
        ("twice.1" :> CallOf("boom", <<"twice.a">>)) @@ ("twice.2" :> CallOf("blind", <<"twice.a">>)) @@
        ("twice.a" :> Literal("a")))) @@
    ("deep"   :> Plain("deep",
        ("deep"   :> Other("concat", <<"deep.1", "deep.2">>)) @@
        ("deep.1" :> CallOf("no", <<"deep.x">>)) @@ ("deep.2" :> CallOf("deep", <<"deep.x">>)) @@
        ("deep.x" :> Var("x")))) @@
    ("strict" :> Def(
        ("strict" :> CallOf("pure", <<"strict.a">>)) @@
        ("strict.p" :> Other("concat", <<"strict.1", "strict.2">>)) @@
        ("strict.1" :> CallOf("pure", <<"strict.s">>)) @@ ("strict.2" :> CallOf("pure", <<"strict.a">>)) @@
        ("strict.s" :> CallOf("say", <<"strict.a">>)) @@ ("strict.a" :> Literal("a")),
        <<"strict.p">>, <<>>, <<Candidate(NoNode, NoCost, "strict")>>))

\* unset(x) = y, requiring x
\* odd(x)   = { if x then x else x; x.field } when x;  unknown() when is_bottom(x)
Careless ==
    ("unset" :> Def(("unset.x" :> Var("x")) @@ ("unset.y" :> Var("y")),
                    <<"unset.x">>, <<>>, <<Candidate(NoNode, NoCost, "unset.y")>>)) @@
    ("odd"   :> Def(("odd.x" :> Var("x")) @@ ("odd.f" :> Other("field", <<"odd.x">>)) @@
                    ("odd.s" :> Other("sequence", <<"odd.c", "odd.f">>)) @@
                    ("odd.c" :> Other("conditional", <<"odd.x", "odd.x", "odd.x">>)) @@
                    ("odd.n" :> CallOf("is_bottom", <<"odd.x">>)) @@
                    ("odd.u" :> CallOf("unknown", <<>>)),
                    <<>>, <<>>, <<Candidate("odd.x", 1, "odd.s"), Candidate("odd.n", 2, "odd.u")>>))

Program == Helpers @@ Parallel @@ Careless

MCDefinitions == DOMAIN Program
MCNodes       == UNION {DOMAIN Program[d].nodes : d \in MCDefinitions}
MCOwner       == [n \in MCNodes |-> CHOOSE d \in MCDefinitions : n \in DOMAIN Program[d].nodes]
MCNode        == [n \in MCNodes |-> Program[MCOwner[n]].nodes[n]]
MCPre         == [d \in MCDefinitions |-> Program[d].pre]
MCPost        == [d \in MCDefinitions |-> Program[d].post]
MCCandidates  == [d \in MCDefinitions |-> Program[d].cands]

MCNames ==
    MCDefinitions \union
    {"main", "result", "x", "y", "say", "classify", "fail", "is_bottom", "unknown"}

MCSymbols    == [name \in MCDefinitions \ {"far"} |-> name]
MCBindings   == [name \in {"far"} |-> "far"]
MCPrimitives == ("say" :> "out") @@ ("classify" :> "model") @@ ("fail" :> NoEffect) @@
                ("is_bottom" :> NoEffect)
MCNameOf     == [d \in MCDefinitions |-> d]
MCParams     == [d \in MCDefinitions |->
                    IF d \in DOMAIN Helpers \union DOMAIN Careless \union {"deep"} THEN <<"x">> ELSE <<>>]

\* The strings of at most three letters, a refusal counting as one; no types are checked.
Letters     == {"a", "b", "-"}
MCScalars   == {""} \union Letters \union {u \o v : u, v \in Letters} \union
               {u \o v \o w : u, v, w \in Letters} \union {"aa-b-", "aab-"}
MCAnything  == [d \in MCDefinitions |-> MCScalars]
MCParamTypes == [d \in MCDefinitions |-> [i \in 1..Len(MCParams[d]) |-> MCScalars]]

\* The entries declare everything; what the helpers declare is open.
MCEffects == {"out", "model"}
MCDeclarations ==
    {[d \in MCDefinitions |->
          CASE d \in DOMAIN chosen -> chosen[d]
            [] d \in {"ask", "blind"} -> {"model"}
            [] d \in {"boom", "no", "pure"} -> {}
            [] OTHER -> MCEffects] :
        chosen \in [{"log", "far", "both"} -> {{}, {"out"}}]}

MCEntries ==
    {[name |-> d, args |-> <<>>] :
        d \in {"three", "nested", "args", "hidden", "abroad", "late", "twice", "strict",
              "odd", "no", "blind", "main"}} \union
    {[name |-> d, args |-> <<"a">>] : d \in {"deep", "odd", "unset"}} \union
    {[name |-> d, args |-> <<"">>] : d \in {"odd", "unset"}}
=============================================================================
