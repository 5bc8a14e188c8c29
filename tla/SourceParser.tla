----------------------------- MODULE SourceParser -----------------------------
(* parser.py: the line-oriented parser of a source file. A line is a record   *)
(* [indent, toks] of what _preprocess leaves of it (no comment, never blank); *)
(* a keyword is its ASCII spelling, the glyphs being other spellings of it.   *)
(*                                                                            *)
(* The parser reads lines[i] at the head of every loop. look is that line or  *)
(* Eof, and the source is chosen as it is read: consuming a line chooses the  *)
(* next one, so every source of one of the Shapes is a behaviour, and so is   *)
(* every source that ends early. The activation of each parsing function is a register (def,     *)
(* cand, bel, expr), None when the function is not running. What a definition *)
(* must have is in CanonicalForm.                                             *)
EXTENDS ExprSyntax, CanonicalForm

CONSTANTS
    Shapes,         \* bound on the sources: a sequence of [lines, store, publish], where
                    \* lines has a set of lines per line of the source, store says
                    \* whether parse is given a store, and publish is for Publication
    Identities,     \* tokens of the form sha256:<64 hex>
    Indexes,        \* identities in the store -> their imports table
    Eof, None

VARIABLES
    shape,      \* the index of the shape the source follows
    source,     \* the lines consumed so far
    look,       \* the line at index i, or Eof
    outcome,    \* "parsing", "accepted" or "rejected" (ParseError)
    top,        \* parse: the module's name, definitions and imports
    def,        \* _parse_definition
    cand,       \* _parse_candidate
    bel,        \* _parse_believe
    expr        \* _gather_expr: the parts so far and what the tree is for

parserVars == <<shape, source, look, outcome, top, def, cand, bel, expr>>

Keywords == {"def", "intent", "sig", "effects", "pre", "post", "cand", "when",
             "cost", "believe", "else", "bottom"}
(* Bug: cand was left out of the stop heads.                                  *)
StopHeadsShort == Keywords \ {"else", "bottom", "cand"}

(* _EXPR_STOP_HEADS as _head can see it: module, from and import are listed   *)
(* there but are no keywords of _head, so they never stop an expression.      *)
StopHeads == Keywords \ {"else", "bottom"}

(* _head: a keyword only counts before a blank or the end of the line.        *)
HeadOf(toks) ==
    IF toks[1] \in Keywords /\ ~(Len(toks) > 1 /\ toks[2] = "(") THEN toks[1] ELSE ""
Line == look # Eof
Is(keyword) == Line /\ HeadOf(look.toks) = keyword
Rest == Tail(look.toks)
Within(frame) == Line /\ look.indent > frame.indent

Position(ts, t) == CHOOSE i \in DOMAIN ts : ts[i] = t /\ \A j \in 1..(i - 1) : ts[j] # t
Before(ts, t) == SubSeq(ts, 1, Position(ts, t) - 1)
After(ts, t) == SubSeq(ts, Position(ts, t) + 1, Len(ts))

(* The source goes on with a line of its shape, or ends.                      *)
NextLine(read) ==
    LET lines == Shapes[shape].lines
    IN  (IF Len(read) < Len(lines) THEN lines[Len(read) + 1] ELSE {}) \union {Eof}
Consume == source' = Append(source, look) /\ look' \in NextLine(source')
Reject == outcome' = "rejected" /\ UNCHANGED <<shape, source, look, top, def, cand, bel, expr>>

EmptySig == [params |-> <<>>, returns |-> "Any", effects |-> {}]

ParserInit ==
    /\ shape \in DOMAIN Shapes
    /\ source = <<>>
    /\ look \in NextLine(<<>>)
    /\ outcome = "parsing"
    /\ top = [name |-> "main", defs |-> <<>>, imports |-> <<>>]
    /\ def = None
    /\ cand = None
    /\ bel = None
    /\ expr = None

-------------------------------------------------------------------------------
(* _gather_expr: an expression goes on over the next lines while a bracket is *)
(* open, the last line ends in if, then or else, or an if lacks its branches. *)
Text(parts) == FlattenSeq(parts)
Dangling(ts) == ts # <<>> /\ Last(ts) \in {"if", "then", "else"}
UnclosedIf(ts) == \/ Count(ts, {"if"}) > Count(ts, {"then"})
                  \/ Count(ts, {"then"}) > Count(ts, {"else"})
Complete(parts) ==
    /\ Balance(Text(parts)) = 0
    /\ ~Dangling(Last(parts))
    /\ ~UnclosedIf(Text(parts))
TooManyClosers(parts) == \E n \in DOMAIN parts : Balance(Text(SubSeq(parts, 1, n))) < 0

(* Hand the first part to _gather_expr; the tree goes to the list named to,   *)
(* together with what the line already gave (a bound name, an arm's pattern). *)
Gather(to, given, first) ==
    /\ expr' = [to |-> to, given |-> given, parts |-> <<first>>]
    /\ Consume

(* Where a caller puts the tree of its expression.                            *)
Deliver(e) ==
    CASE expr.to = "pre"  -> def' = [def EXCEPT !.pre = Append(@, e)] /\ UNCHANGED <<cand, bel>>
      [] expr.to = "post" -> def' = [def EXCEPT !.post = Append(@, e)] /\ UNCHANGED <<cand, bel>>
      [] expr.to = "when" -> cand' = [cand EXCEPT !.guards = Append(@, e)] /\ UNCHANGED <<def, bel>>
      [] expr.to = "step" -> cand' = [cand EXCEPT !.steps = Append(@, e)] /\ UNCHANGED <<def, bel>>
      [] expr.to = "bind" ->
            /\ cand' = [cand EXCEPT
                          !.steps = Append(@, [kind |-> "bind", name |-> expr.given, expr |-> e,
                                               body |-> Lit([simple |-> "null"], "Unit")]),
                          !.bound = Append(@, expr.given)]
            /\ UNCHANGED <<def, bel>>
      [] expr.to = "arm"  ->
            bel' = [bel EXCEPT !.arms = Append(@, <<expr.given, e>>)] /\ UNCHANGED <<def, cand>>
      [] expr.to = "else" -> bel' = [bel EXCEPT !.otherwise = <<e>>] /\ UNCHANGED <<def, cand>>

(* An arm whose value is on the next line: any deeper line will do.           *)
ArmValue ==
    /\ expr # None /\ expr.parts = <<>>
    /\ IF Within(bel)
       THEN /\ expr' = [expr EXCEPT !.parts = <<look.toks>>]
            /\ Consume
            /\ UNCHANGED <<shape, outcome, top, def, cand, bel>>
       ELSE Reject

GoesOn == ~TooManyClosers(expr.parts) /\ Line /\ HeadOf(look.toks) \notin StopHeads
Continues == expr # None /\ expr.parts # <<>> /\ ~Complete(expr.parts)

(* The next line belongs to the expression, whatever its indentation, unless  *)
(* it begins with a stop head.                                                *)
GatherLine ==
    /\ Continues /\ GoesOn
    /\ expr' = [expr EXCEPT !.parts = Append(@, look.toks)]
    /\ Consume
    /\ UNCHANGED <<shape, outcome, top, def, cand, bel>>

GatherFails ==
    /\ Continues /\ ~GoesOn
    /\ Reject

(* _safe_parse_expr of the gathered text.                                     *)
GatherEnds ==
    /\ expr # None /\ expr.parts # <<>> /\ Complete(expr.parts)
    /\ LET tree == ParseExpr(Text(expr.parts))
       IN  IF tree.ok
           THEN /\ Deliver(tree.node)
                /\ expr' = None
                /\ UNCHANGED <<shape, source, look, outcome, top>>
           ELSE Reject

-------------------------------------------------------------------------------
(* _parse_believe *)
BeginBelieve ==
    /\ cand # None /\ bel = None /\ expr = None
    /\ Within(cand) /\ Is("believe")
    /\ LET subject == ParseExpr(Rest)
       IN  IF subject.ok
           THEN /\ bel' = [indent |-> look.indent, subject |-> subject.node,
                           arms |-> <<>>, otherwise |-> <<>>]
                /\ Consume
                /\ UNCHANGED <<shape, outcome, top, def, cand, expr>>
           ELSE Reject

InBelieve == bel # None /\ expr = None /\ Within(bel)

(* The text of the line starts with else: a longer word does too.             *)
StartsWithElse(toks) == toks[1] \in {"else", "elsewhere"}

(* pattern => value, or else => value: the value is on this line, whole, or   *)
(* begins on the next one. A second else arm replaces the first.              *)
Arm ==
    /\ InBelieve
    /\ Contains(look.toks, "=>")
    /\ LET isElse == StartsWithElse(look.toks)
           pattern == ParseExpr(Before(look.toks, "=>"))
           rhs == After(look.toks, "=>")
           value == ParseExpr(rhs)
       IN  IF (isElse \/ pattern.ok) /\ (rhs = <<>> \/ value.ok)
           THEN /\ bel' = CASE rhs = <<>> -> bel
                            [] rhs # <<>> /\ isElse -> [bel EXCEPT !.otherwise = <<value.node>>]
                            [] rhs # <<>> /\ ~isElse ->
                                  [bel EXCEPT !.arms = Append(@, <<pattern.node, value.node>>)]
                /\ expr' = IF rhs # <<>> THEN None
                           ELSE [to |-> IF isElse THEN "else" ELSE "arm",
                                 given |-> IF isElse THEN <<>> ELSE pattern.node,
                                 parts |-> <<>>]
                /\ Consume
                /\ UNCHANGED <<shape, outcome, top, def, cand>>
           ELSE Reject

NoArm == InBelieve /\ ~Contains(look.toks, "=>") /\ Reject

(* Bug: a block may end while an arm waits for its value.                     *)
EndBelieveEarly ==
    /\ bel # None /\ ~Within(bel)
    /\ IF bel.otherwise = <<>> THEN Reject
       ELSE /\ cand' = [cand EXCEPT !.steps = Append(@,
                          [kind |-> "believe", subject |-> bel.subject, arms |-> bel.arms,
                           otherwise |-> bel.otherwise[1]])]
            /\ bel' = None
            /\ UNCHANGED <<shape, source, look, outcome, top, def, expr>>

(* Every dispatch is total: a block without an else arm is refused.           *)
EndBelieve ==
    /\ bel # None /\ expr = None /\ ~Within(bel)
    /\ IF bel.otherwise = <<>> THEN Reject
       ELSE /\ cand' = [cand EXCEPT !.steps = Append(@,
                          [kind |-> "believe", subject |-> bel.subject, arms |-> bel.arms,
                           otherwise |-> bel.otherwise[1]])]
            /\ bel' = None
            /\ UNCHANGED <<shape, source, look, outcome, top, def, expr>>

-------------------------------------------------------------------------------
(* _parse_candidate *)
InCandidate == cand # None /\ bel = None /\ expr = None /\ Within(cand)

(* _parse_string_literal: the line has one quoted string after its keyword.   *)
HasString == Len(Rest) = 1 /\ IsString(Rest[1])

CandidateIntent ==
    /\ InCandidate /\ Is("intent")
    /\ IF HasString
       THEN /\ cand' = [cand EXCEPT !.intent = Literal[Rest[1]].value]
            /\ Consume
            /\ UNCHANGED <<shape, outcome, top, def, bel, expr>>
       ELSE Reject

Cost ==
    /\ InCandidate /\ Is("cost")
    /\ IF Len(Rest) = 1 /\ Rest[1] \in DOMAIN Literal /\ Literal[Rest[1]].type = "Int"
       THEN /\ cand' = [cand EXCEPT !.cost = <<Literal[Rest[1]].value>>]
            /\ Consume
            /\ UNCHANGED <<shape, outcome, top, def, bel, expr>>
       ELSE Reject

(* A guard runs before the body: a bind above it makes the candidate an error. *)
When ==
    /\ InCandidate /\ Is("when")
    /\ IF cand.bound = <<>>
       THEN /\ Gather("when", <<>>, Rest)
            /\ UNCHANGED <<shape, outcome, top, def, cand, bel>>
       ELSE Reject

(* _is_bind: an arrow before the first string of the line.                    *)
IsBind(toks) ==
    \E i \in DOMAIN toks : toks[i] = "<-" /\ \A j \in 1..i : ~IsString(toks[j])

(* _parse_bind_multiline *)
BindStep ==
    /\ InCandidate /\ HeadOf(look.toks) \notin {"intent", "cost", "when", "believe"}
    /\ IsBind(look.toks)
    /\ LET left == Before(look.toks, "<-")
       IN  IF Len(left) = 1 /\ IsIdentifier(left[1])
           THEN /\ Gather("bind", left[1], After(look.toks, "<-"))
                /\ UNCHANGED <<shape, outcome, top, def, cand, bel>>
           ELSE Reject

(* Any other line is an expression, its first word included: a line that      *)
(* begins with a keyword of the definition is not told apart from one.        *)
PlainStep ==
    /\ InCandidate /\ HeadOf(look.toks) \notin {"intent", "cost", "when", "believe"}
    /\ ~IsBind(look.toks)
    /\ Gather("step", <<>>, look.toks)
    /\ UNCHANGED <<shape, outcome, top, def, cand, bel>>

(* Bug: the body of a bind is the next step and no more.                      *)
RECURSIVE ComposeStepsNarrow(_)
ComposeStepsNarrow(steps) ==
    IF Len(steps) = 1 THEN steps[1]
    ELSE IF Len(steps) = 2 /\ steps[1].kind = "bind" THEN [steps[1] EXCEPT !.body = steps[2]]
    ELSE [kind |-> "seq", steps |-> <<steps[1], ComposeStepsNarrow(Tail(steps))>>]

(* _compose_steps: a bind takes all the steps after it as its body.           *)
RECURSIVE ComposeSteps(_)
ComposeSteps(steps) ==
    IF Len(steps) = 1 THEN steps[1]
    ELSE IF steps[1].kind = "bind" THEN [steps[1] EXCEPT !.body = ComposeSteps(Tail(steps))]
    ELSE [kind |-> "seq", steps |-> <<steps[1], ComposeSteps(Tail(steps))>>]

(* Bug: the last when line wins.                                              *)
GuardOfLast(guards) == IF guards = <<>> THEN <<>> ELSE <<Last(guards)>>

(* Several when lines are one guard, their conjunction.                       *)
GuardOf(guards) == IF Len(guards) < 2 THEN guards ELSE <<Call("and", guards)>>

EndCandidate ==
    /\ cand # None /\ bel = None /\ expr = None /\ ~Within(cand)
    /\ IF cand.steps = <<>> THEN Reject
       ELSE /\ def' = [def EXCEPT !.cands = Append(@,
                         [body |-> ComposeSteps(cand.steps), intent |-> cand.intent,
                          guard |-> GuardOf(cand.guards), cost |-> cand.cost])]
            /\ cand' = None
            /\ UNCHANGED <<shape, source, look, outcome, top, bel, expr>>

-------------------------------------------------------------------------------
(* _parse_definition *)
InDefinition == def # None /\ cand = None /\ expr = None /\ Within(def)

Intent ==
    /\ InDefinition /\ Is("intent")
    /\ IF HasString
       THEN /\ def' = [def EXCEPT !.intent = <<Literal[Rest[1]].value>>]
            /\ Consume
            /\ UNCHANGED <<shape, outcome, top, cand, bel, expr>>
       ELSE Reject

(* _split_top_level_commas: the parts of ts between its commas.               *)
RECURSIVE SplitCommas(_)
SplitCommas(ts) ==
    IF ts = <<>> THEN <<>>
    ELSE IF ~Contains(ts, ",") THEN <<ts>>
    ELSE <<Before(ts, ",")>> \o SplitCommas(After(ts, ","))

(* _parse_signature: (name : type, ...) -> type. A type is one token.         *)
ParamsOf(ts) == SplitCommas(SubSeq(ts, 2, Len(ts) - 1))
IsSignature(ts) ==
    /\ Contains(ts, "->") /\ Len(After(ts, "->")) = 1
    /\ LET left == Before(ts, "->")
       IN  /\ Len(left) > 1 /\ left[1] \in {"(", " ("} /\ Last(left) = ")"
           /\ \A i \in DOMAIN ParamsOf(left) : Len(ParamsOf(left)[i]) = 3 /\ ParamsOf(left)[i][2] = ":"
(* Bug: a signature line drops the effects declared above it.                 *)
SignatureOfReset(ts, effects) ==
    [params |-> [i \in DOMAIN ParamsOf(Before(ts, "->")) |->
                    LET p == ParamsOf(Before(ts, "->"))[i] IN [name |-> p[1], type |-> p[3]]],
     returns |-> Last(ts), effects |-> {}]

SignatureOf(ts, effects) ==
    [params |-> [i \in DOMAIN ParamsOf(Before(ts, "->")) |->
                    LET p == ParamsOf(Before(ts, "->"))[i] IN [name |-> p[1], type |-> p[3]]],
     returns |-> Last(ts), effects |-> effects]

(* A signature line keeps the effects an earlier line declared.               *)
Sig ==
    /\ InDefinition /\ Is("sig")
    /\ IF IsSignature(Rest)
       THEN /\ def' = [def EXCEPT !.sig = SignatureOf(Rest, @.effects)]
            /\ Consume
            /\ UNCHANGED <<shape, outcome, top, cand, bel, expr>>
       ELSE Reject

(* _parse_effects *)
IsEffects(ts) == Len(ts) > 1 /\ ts[1] = "{" /\ Last(ts) = "}"
EffectsOf(ts) == {ts[i] : i \in 2..(Len(ts) - 1)} \ {","}

Effects ==
    /\ InDefinition /\ Is("effects")
    /\ IF IsEffects(Rest)
       THEN /\ def' = [def EXCEPT !.sig.effects = EffectsOf(Rest)]
            /\ Consume
            /\ UNCHANGED <<shape, outcome, top, cand, bel, expr>>
       ELSE Reject

Contract ==
    /\ InDefinition
    /\ \E clause \in {"pre", "post"} : Is(clause) /\ Gather(clause, <<>>, Rest)
    /\ UNCHANGED <<shape, outcome, top, def, cand, bel>>

BeginCandidate ==
    /\ InDefinition /\ Is("cand")
    /\ cand' = [indent |-> look.indent, intent |-> [text |-> "default"], guards |-> <<>>,
                cost |-> <<>>, steps |-> <<>>, bound |-> <<>>]
    /\ Consume
    /\ UNCHANGED <<shape, outcome, top, def, bel, expr>>

NoClause ==
    /\ InDefinition
    /\ HeadOf(look.toks) \notin {"intent", "sig", "effects", "pre", "post", "cand"}
    /\ Reject

(* A blank intent is refused by the constructor of Definition (ValueError).   *)
EndDefinition ==
    /\ def # None /\ cand = None /\ expr = None /\ ~Within(def)
    /\ IF def.intent = <<>> \/ def.cands = <<>> \/ IsBlank(def.intent[1].text) THEN Reject
       ELSE /\ top' = [top EXCEPT !.defs = Append(@,
                         [name |-> def.name, intent |-> def.intent[1], signature |-> def.sig,
                          pre |-> def.pre, post |-> def.post, candidates |-> def.cands])]
            /\ def' = None
            /\ UNCHANGED <<shape, source, look, outcome, cand, bel, expr>>

-------------------------------------------------------------------------------
(* parse: the top-level loop *)
AtTop == outcome = "parsing" /\ def = None /\ Line

BeginDefinition ==
    /\ AtTop /\ Is("def")
    /\ IF Rest = <<>> THEN Reject
       ELSE /\ def' = [indent |-> look.indent, name |-> Rest[1], intent |-> <<>>, sig |-> EmptySig,
                       pre |-> <<>>, post |-> <<>>, cands |-> <<>>]
            /\ Consume
            /\ UNCHANGED <<shape, outcome, top, cand, bel, expr>>

ModuleName ==
    /\ AtTop /\ look.toks[1] = "module" /\ Len(look.toks) > 1
    /\ IF Len(Rest) = 1 /\ IsWord(Rest[1]) /\ Rest[1] \notin DOMAIN Literal
       THEN /\ top' = [top EXCEPT !.name = Rest[1]]
            /\ Consume
            /\ UNCHANGED <<shape, outcome, def, cand, bel, expr>>
       ELSE Reject

(* _parse_import: import <name> = sha256:<hex>                                *)
Import ==
    /\ AtTop /\ look.toks[1] = "import" /\ Len(look.toks) > 1
    /\ IF Len(Rest) = 3 /\ IsIdentifier(Rest[1]) /\ Rest[2] = "=" /\ Rest[3] \in Identities
       THEN /\ top' = [top EXCEPT !.imports = Append(@, <<Rest[1], Rest[3]>>)]
            /\ Consume
            /\ UNCHANGED <<shape, outcome, def, cand, bel, expr>>
       ELSE Reject

(* _parse_from_import: every requested name is in the imports table of the    *)
(* stored module, or the source is refused; a source that has such a line     *)
(* cannot be parsed without a store.                                          *)
FromImport ==
    /\ AtTop /\ look.toks[1] = "from" /\ Len(look.toks) > 1
    /\ LET id == Rest[1]
           names == SelectSeq(SubSeq(Rest, 3, Len(Rest)), LAMBDA t : t # ",")
       IN  IF /\ Len(Rest) > 2 /\ id \in Identities /\ Rest[2] = "import"
              /\ names # <<>> /\ \A i \in DOMAIN names : IsIdentifier(names[i])
              /\ Shapes[shape].store /\ id \in DOMAIN Indexes
              /\ ToSet(names) \subseteq DOMAIN Indexes[id]
           THEN /\ top' = [top EXCEPT !.imports = @ \o
                             [i \in DOMAIN names |-> <<names[i], Indexes[id][names[i]]>>]]
                /\ Consume
                /\ UNCHANGED <<shape, outcome, def, cand, bel, expr>>
           ELSE Reject

NoTopLevel ==
    /\ AtTop
    /\ ~Is("def") /\ ~(look.toks[1] \in {"module", "import", "from"} /\ Len(look.toks) > 1)
    /\ Reject

EndModule ==
    /\ outcome = "parsing" /\ def = None /\ look = Eof
    /\ outcome' = "accepted"
    /\ UNCHANGED <<shape, source, look, top, def, cand, bel, expr>>

-------------------------------------------------------------------------------
ParseStep ==
    /\ outcome = "parsing"
    /\ \/ ArmValue \/ GatherLine \/ GatherFails \/ GatherEnds
       \/ BeginBelieve \/ Arm \/ NoArm \/ EndBelieve
       \/ CandidateIntent \/ Cost \/ When \/ BindStep \/ PlainStep \/ EndCandidate
       \/ Intent \/ Sig \/ Effects \/ Contract \/ BeginCandidate \/ NoClause \/ EndDefinition
       \/ BeginDefinition \/ ModuleName \/ Import \/ FromImport \/ NoTopLevel \/ EndModule

(* What parse returns.                                                        *)
Parsed == [name |-> top.name, symbols |-> top.defs, imports |-> top.imports]
===============================================================================
