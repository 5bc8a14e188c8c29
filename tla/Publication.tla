------------------------------ MODULE Publication -----------------------------
(* The way of a source to its content identity and back: parse, project to    *)
(* the canonical document, encode to the bytes that are hashed and stored,    *)
(* decode the bytes and rebuild the module. Documents also come from other    *)
(* producers, and bytes from encoders that follow RFC 8949 without its        *)
(* deterministic rules, or arrive cut short or with a tail.                   *)
EXTENDS SourceParser

CONSTANTS
    Documents,  \* documents of other producers
    Stray,      \* bytes that may follow a value on the wire
    MaxElsewhere    \* bound on the length of the arrays and maps that are encoded in other forms

ASSUME MaxElsewhereAssumption == MaxElsewhere \in Nat

VARIABLES
    document,   \* the canonical document, None before it is built
    wire,       \* its bytes, None before they are written
    arrived,    \* what the decoder made of them, None before it ran
    rebuilt     \* the module read back, None until then

vars == <<parserVars, document, wire, arrived, rebuilt>>

-------------------------------------------------------------------------------
(* RFC 8949: the well-formed encodings of a document. With strict, the heads  *)
(* are shortest and the maps in order, and floats may be wide all the same.   *)
HeadForms(major, mag, strict) ==
    {HeadOfWidth(major, mag, w) :
        w \in IF strict THEN {ShortestWidth(mag)} ELSE {v \in {0, 1, 2, 4, 8} : v >= ShortestWidth(mag)}}
Joins(A, B) == {a \o b : a \in A, b \in B}
StringForms(major, bytes, strict) == Joins(HeadForms(major, ToBytes(Len(bytes)), strict), {bytes})
IntForms(i, strict) ==
    LET Tagged(body) == Joins({<<IF i.neg THEN 195 ELSE 194>>}, StringForms(2, body, strict))
    IN  (IF Len(i.mag) <= 8 THEN HeadForms(IF i.neg THEN 1 ELSE 0, i.mag, strict)
         ELSE Tagged(i.mag))
        \union (IF strict THEN {} ELSE Tagged(i.mag) \union Tagged(<<0>> \o i.mag))

(* An array or a map of n entries, also in the form without a length.         *)
Collections(major, n, bodies, strict) ==
    Joins(HeadForms(major, ToBytes(n), strict), bodies)
    \union (IF strict THEN {} ELSE {<<32 * major + 31>> \o b \o <<255>> : b \in bodies})

RECURSIVE Forms(_, _)
Forms(doc, strict) ==
    LET InTurn(docs) == FoldLeft(LAMBDA acc, d : Joins(acc, Forms(d, strict)), {<<>>}, docs)
        Pairs(order) == FlattenSeq([k \in DOMAIN order |-> <<order[k][1], order[k][2]>>])
        Ordered == Sorted(doc.map,
                          LAMBDA p, q : BytesLess(CanonicalBytes(p[1]), CanonicalBytes(q[1])))
    IN  CASE "int" \in DOMAIN doc   -> IntForms(doc.int, strict)
          [] "float" \in DOMAIN doc -> {<<Additionals[w]>> \o Widths[doc.float][w] :
                                           w \in DOMAIN Widths[doc.float]}
          [] "text" \in DOMAIN doc  -> StringForms(3, Utf8[doc.text], strict)
          [] "bytes" \in DOMAIN doc -> StringForms(2, doc.bytes, strict)
          [] "simple" \in DOMAIN doc -> {CanonicalBytes(doc)}
          [] "items" \in DOMAIN doc -> Collections(4, Len(doc.items), InTurn(doc.items), strict)
          [] "map" \in DOMAIN doc   ->
                Collections(5, Cardinality(doc.map),
                    UNION {InTurn(Pairs(order)) :
                              order \in IF strict THEN {Ordered} ELSE SetToSeqs(doc.map)}, strict)

-------------------------------------------------------------------------------
Init ==
    /\ ParserInit
    /\ document = None /\ wire = None /\ arrived = None /\ rebuilt = None

Parse == ParseStep /\ UNCHANGED <<document, wire, arrived, rebuilt>>

(* A document of another producer instead of a source.                        *)
GivenDocument ==
    /\ outcome = "parsing" /\ Shapes[shape].lines = <<>>
    /\ document' \in Documents
    /\ outcome' = "given"
    /\ UNCHANGED <<shape, source, look, top, def, cand, bel, expr, wire, arrived, rebuilt>>

(* The modules of some shapes only go on to be published, a bound on the work. *)
Project ==
    /\ outcome = "accepted" /\ document = None /\ Shapes[shape].publish
    /\ document' = ToCanonical(Parsed)
    /\ UNCHANGED <<parserVars, wire, arrived, rebuilt>>

Encode ==
    /\ document # None /\ wire = None
    /\ wire' = CanonicalBytes(document)
    /\ UNCHANGED <<parserVars, document, arrived, rebuilt>>

IsCollection(doc) == DOMAIN doc \in {{"items"}, {"map"}}

(* Another encoder, or a damaged transfer.                                    *)
EncodeElsewhere ==
    /\ outcome = "given" /\ wire = None
    /\ LET canonical == CanonicalBytes(document)
       IN  wire' \in (IF Len(canonical) <= MaxElsewhere \/ ~IsCollection(document)
                      THEN Forms(document, FALSE) ELSE {})
                     \union {SubSeq(canonical, 1, n) : n \in 0..(Len(canonical) - 1)}
                     \union {canonical \o tail : tail \in Stray}
    /\ UNCHANGED <<parserVars, document, arrived, rebuilt>>

Receive ==
    /\ wire # None /\ arrived = None
    /\ arrived' = Decode(wire)
    /\ UNCHANGED <<parserVars, document, wire, rebuilt>>

(* from_canonical takes what arrived: a map that it can read as a module.     *)
IsModule(read) == read # None /\ read.ok /\ "map" \in DOMAIN read.value /\ IsReadable(read.value)

Rebuild ==
    /\ rebuilt = None /\ IsModule(arrived)
    /\ rebuilt' = FromCanonical(arrived.value)
    /\ UNCHANGED <<parserVars, document, wire, arrived>>

(* What is left when nothing is: a refused source, a module that is read back *)
(* or, by the bound, not published, and a document that was refused or is no  *)
(* module. A module that is published and not read back would be a deadlock.  *)
Finished ==
    /\ \/ outcome = "rejected"
       \/ outcome = "accepted" /\ ~Shapes[shape].publish
       \/ rebuilt # None
       \/ outcome = "given" /\ arrived # None /\ ~IsModule(arrived)
    /\ UNCHANGED vars

Next == Parse \/ GivenDocument \/ Project \/ Encode \/ EncodeElsewhere \/ Receive \/ Rebuild \/ Finished

Spec == Init /\ [][Next]_vars
-------------------------------------------------------------------------------
(* What the properties see of a source and of a tree.                         *)
Accepted == outcome = "accepted"
LinesWith(keyword) == {i \in DOMAIN source : HeadOf(source[i].toks) = keyword}

(* Every word of a tree, in the order of the tree: the names, the literals    *)
(* and the words of conditionals and refusals.                                *)
WordOfLiteral(e) == CHOOSE w \in DOMAIN Literal : Literal[w] = [value |-> e.value, type |-> e.type]
RECURSIVE WordsOf(_)
WordsOf(e) ==
    LET All(es) == FlattenSeq([i \in DOMAIN es |-> WordsOf(es[i])])
    IN  CASE e.kind = "lit"    -> (CASE e.type = "Bool" -> <<e.value.simple>>
                                     [] e.type = "Unit" -> <<>>
                                     [] OTHER -> <<WordOfLiteral(e)>>)
          [] e.kind = "ref"    -> <<e.name>>
          [] e.kind = "attr"   -> WordsOf(e.target) \o <<e.name>>
          [] e.kind = "call"   -> (IF e.fn \in DOMAIN Segments THEN Segments[e.fn] ELSE <<e.fn>>)
                                    \o All(e.args)
          [] e.kind = "concat" -> All(e.parts)
          [] e.kind = "seq"    -> All(e.steps)
          [] e.kind = "bottom" -> <<"bottom">> \o [i \in DOMAIN e.reason |->
                                      CHOOSE w \in DOMAIN Literal : Literal[w].value = e.reason[i]]
          [] e.kind = "if"     -> <<"if">> \o WordsOf(e.cond) \o <<"then">> \o WordsOf(e.then_)
                                    \o <<"else">> \o WordsOf(e.else_)
          [] e.kind = "bind"   -> <<e.name>> \o WordsOf(e.expr) \o WordsOf(e.body)
          [] e.kind = "believe" -> WordsOf(e.subject) \o All(FlattenSeq(e.arms)) \o WordsOf(e.otherwise)
WordsOfAll(es) == FlattenSeq([i \in DOMAIN es |-> WordsOf(es[i])])
WordsOfCandidate(c) == WordsOfAll(c.guard) \o WordsOf(c.body)
WordsOfModule ==
    FlattenSeq([k \in DOMAIN top.defs |->
        WordsOfAll(top.defs[k].pre) \o WordsOfAll(top.defs[k].post)
        \o FlattenSeq([i \in DOMAIN top.defs[k].candidates |->
                          WordsOfCandidate(top.defs[k].candidates[i])])])

(* The words of a line, an operator being the primitive it stands for and a   *)
(* dotted word its segments.                                                  *)
WordsOfLine(toks) ==
    FlattenSeq([i \in DOMAIN toks |->
        CASE toks[i] \in DOMAIN Infix    -> <<Infix[toks[i]]>>
          [] toks[i] \in DOMAIN Segments -> Segments[toks[i]]
          [] OTHER                       -> <<toks[i]>>])
ExpressionLines ==
    SelectSeq(source, LAMBDA l : /\ HeadOf(l.toks) \notin {"def", "intent", "sig", "effects", "cost"}
                                 /\ l.toks[1] \notin {"module", "import", "from"})
WordsOfSource == FlattenSeq([i \in DOMAIN ExpressionLines |-> WordsOfLine(ExpressionLines[i].toks)])

(* Words that are counted: neither keywords of clauses, nor "and", which a    *)
(* candidate with several guards gains, nor the else of believe blocks.       *)
CountedWords == {w \in ToSet(WordsOfSource) \union ToSet(WordsOfModule) :
                   /\ w \notin (Keywords \ {"bottom"}) \union {"and", "elsewhere"}
                   /\ IsWord(w) \/ IsString(w)}
ElseArms == {i \in DOMAIN source : StartsWithElse(source[i].toks) /\ Contains(source[i].toks, "=>")}
Blocks == LinesWith("believe")

(* Free names of a tree: those no bind around them binds.                     *)
RECURSIVE FreeNames(_)
FreeNames(e) ==
    LET All(es) == UNION {FreeNames(es[i]) : i \in DOMAIN es}
    IN  CASE e.kind \in {"lit", "bottom"} -> {}
          [] e.kind = "ref"    -> {e.name}
          [] e.kind = "attr"   -> FreeNames(e.target)
          [] e.kind = "call"   -> All(e.args)
          [] e.kind = "concat" -> All(e.parts)
          [] e.kind = "seq"    -> All(e.steps)
          [] e.kind = "if"     -> All(<<e.cond, e.then_, e.else_>>)
          [] e.kind = "bind"   -> FreeNames(e.expr) \union (FreeNames(e.body) \ {e.name})
          [] e.kind = "believe" -> All(<<e.subject, e.otherwise>> \o FlattenSeq(e.arms))

(* The lines of definition k: from its header to the next header.             *)
LinesOf(k) ==
    LET headers == Sorted(LinesWith("def"), LAMBDA i, j : i < j)
    IN  {i \in DOMAIN source : headers[k] <= i /\ (k < Len(headers) => i < headers[k + 1])}
LastLine(k, keyword) ==
    LET L == LinesOf(k) \intersect LinesWith(keyword)
    IN  IF L = {} THEN <<>> ELSE Tail(source[CHOOSE i \in L : \A j \in L : j <= i].toks)

-------------------------------------------------------------------------------
(* The shape of the state: a register of an inner function is only in use     *)
(* while the functions around it run, and a later stage has an earlier one.   *)
TypeOK ==
    /\ outcome \in {"parsing", "accepted", "rejected", "given"}
    /\ bel # None => cand # None
    /\ cand # None => def # None
    /\ expr # None => def # None /\ (expr.to \in {"arm", "else"} <=> bel # None)
    /\ outcome \in {"accepted", "given"} => def = None /\ expr = None
    /\ document # None => outcome \in {"accepted", "given"}
    /\ wire # None => document # None /\ wire \in Seq(Bytes)
    /\ rebuilt # None => arrived # None /\ arrived.ok

(* A source that is accepted loses, repeats and invents no word: what its     *)
(* expression lines say, over all their continuations and rewritings, is what *)
(* the trees of the module say. Two exceptions are stated: an else arm that a *)
(* later one of its block replaces, and a source with a string whose own      *)
(* parentheses do not pair up, or with a quote in it. The desugaring counts   *)
(* and turns on those as if they were no part of a string, although its own   *)
(* comment (expr_parser.py:74-75) says it only rewrites outside strings: an   *)
(* operator beside such a string can be accepted as another program, as       *)
(* h(f("(") < g(")")) is as h(f("lt(("), g("))")).                            *)
PairsUp(ps) ==
    /\ ParenBalance(ps) = 0
    /\ \A n \in DOMAIN ps : ParenBalance(SubSeq(ps, 1, n)) >= 0 /\ ps[n] \notin {Quote, EscapedQuote}
WordsKept ==
    /\ Accepted
    /\ Cardinality(ElseArms) = Cardinality(Blocks)
    /\ \A w \in CountedWords \intersect ToSet(WordsOfSource) : IsString(w) => PairsUp(Inside[w])
    => \A w \in CountedWords : Count(WordsOfSource, {w}) = Count(WordsOfModule, {w})

(* No continuation and no block eats a clause: when the contracts and the     *)
(* candidates of a source stand at one indentation, the module has as many of *)
(* them as there are lines that begin with their keyword. Definitions and     *)
(* imports are kept wherever they stand.                                      *)
ClausesKept ==
    LET Sum(f(_)) == FoldLeft(LAMBDA n, d : n + f(d), 0, top.defs)
        ImportLines(word) == {i \in DOMAIN source : source[i].toks[1] = word}
        Clauses == LinesWith("pre") \union LinesWith("post") \union LinesWith("cand")
    IN  Accepted =>
          /\ Cardinality(LinesWith("def")) = Len(top.defs)
          /\ Cardinality({source[i].indent : i \in Clauses}) = 1 =>
                /\ Cardinality(LinesWith("pre")) = Sum(LAMBDA d : Len(d.pre))
                /\ Cardinality(LinesWith("post")) = Sum(LAMBDA d : Len(d.post))
                /\ Cardinality(LinesWith("cand")) = Sum(LAMBDA d : Len(d.candidates))
          /\ Cardinality(ImportLines("import")) <= Len(top.imports)
          /\ (ImportLines("import") \union ImportLines("from") = {}) = (top.imports = <<>>)

(* The scope of a bind is the rest of its candidate and nothing else: in the  *)
(* tree composed from the steps so far a name is free exactly when some step  *)
(* uses it with no bind of it above.                                          *)
LexicalScope ==
    cand # None /\ cand.steps # <<>> =>
        LET Own(s) == IF s.kind = "bind" THEN s.expr ELSE s
            BoundAbove(i) == {s.name : s \in {t \in ToSet(SubSeq(cand.steps, 1, i - 1)) : t.kind = "bind"}}
        IN  FreeNames(ComposeSteps(cand.steps))
              = UNION {FreeNames(Own(cand.steps[i])) \ BoundAbove(i) : i \in DOMAIN cand.steps}

(* The declarations of a definition count wherever they stand: its parameters *)
(* and result are those of its last signature line, its effects those of its  *)
(* last effects line, in either order of the two.                             *)
DeclarationsKept ==
    Accepted => \A k \in DOMAIN top.defs :
        LET sig == LastLine(k, "sig")
            effects == LastLine(k, "effects")
        IN  top.defs[k].signature =
              [IF sig = <<>> THEN EmptySig ELSE SignatureOf(sig, {}) EXCEPT
                  !.effects = IF effects = <<>> THEN {} ELSE EffectsOf(effects)]

(* What is read back is what was parsed: one definition per name, the last,   *)
(* and one identity per import; and it has the document, hence the identity,  *)
(* of the module that was published. That is less than canonical.py:4-6 says, *)
(* "structurally identical": of two definitions of a name, which the parser   *)
(* takes, the document has the last, and a call before publication (the first *)
(* one, types.py:257-260) and one after it run different code.                *)
RoundTrip ==
    rebuilt # None /\ Accepted =>
        LET Named(defs) == LastOf([i \in DOMAIN defs |-> <<defs[i].name, defs[i]>>])
        IN  /\ rebuilt.name = Parsed.name
            /\ Named(rebuilt.symbols) = Named(Parsed.symbols)
            /\ Len(rebuilt.symbols) = Cardinality(DOMAIN Named(Parsed.symbols))
            /\ LastOf(rebuilt.imports) = LastOf(Parsed.imports)
            /\ ToCanonical(rebuilt) = document

(* One value, one encoding: the decoder takes the deterministic encoding of a *)
(* document and no other of its encodings, refuses it cut short or with a     *)
(* tail, and returns the document. Floats are the exception, in the code and  *)
(* not in its documents (cbor_decoder.py:5-8, CANONICAL.md:232-234): a float  *)
(* is taken in every width that keeps its value.                              *)
OneEncoding ==
    arrived # None =>
        /\ arrived.ok <=> IF Accepted THEN wire = CanonicalBytes(document)
                          ELSE wire \in Forms(document, TRUE)
        /\ arrived.ok => arrived.value = document
===============================================================================
