---------------------------- MODULE MCPublication ----------------------------
(* Sources for TLC: each shape lets one group of lines vary where it matters  *)
(* and fixes the lines around it.                                             *)
EXTENDS Publication

L(indent, toks) == [indent |-> indent, toks |-> toks]
S == "'s'"
T == "'t'"
Blank == "' '"
Id1 == "sha256:a"
Id2 == "sha256:b"

(* Strings with parentheses in them, with an escaped quote and an operator,   *)
(* and the strings the rewriting makes of these.                              *)
StringPieces == ("'('" :> <<"(">>) @@ ("')'" :> <<")">>) @@ ("'()'" :> <<"(", ")">>)
    @@ ("'\"<x'" :> <<"\\\"", "<", "x">>)
    @@ ("'lt(('" :> <<"lt", "(", "(">>) @@ ("'))'" :> <<")", ")">>)
    @@ ("'\"lt(,x)'" :> <<"\\\"", "lt", "(", ",", "x", ")">>)
MCInside == (S :> <<"s">>) @@ (Blank :> <<>>) @@ (T :> <<"t">>) @@ StringPieces

TextOf(t) == SubSeq(t, 2, Len(t) - 1)

MCLiteral == [t \in DOMAIN StringPieces |-> [value |-> Txt(TextOf(t)), type |-> "String"]]
          @@ ("1" :> [value |-> Number(FALSE, <<1>>), type |-> "Int"])
          @@ ("0.5" :> [value |-> [float |-> "0.5"], type |-> "Float"])
          @@ (S :> [value |-> Txt("s"), type |-> "String"])
          @@ (Blank :> [value |-> Txt(" "), type |-> "String"])
          @@ (T :> [value |-> Txt("t"), type |-> "String"])
MCSegments == "a.b" :> <<"a", "b">>

DefF == {L(0, <<"def", "f">>)}
IntentS == {L(2, <<"intent", S>>)}
Cand == {L(2, <<"cand">>)}
X == {L(4, <<"x">>)}

Clauses == IntentS \union Cand \union X \union {
    L(2, <<"intent", T>>), L(2, <<"intent", "x">>),
    L(2, <<"sig", " (", "x", ":", "Int", ")", "->", "Int">>), L(2, <<"sig", " (", ")", "->", "Any">>),
    L(2, <<"sig", " (", "x", ")", "->", "Int">>),
    L(2, <<"effects", "{", "io", ",", "net", "}">>), L(2, <<"effects", "{", "}">>),
    L(2, <<"effects", "io">>),
    L(2, <<"pre", "x", "<", "y">>), L(2, <<"post", "x">>), L(2, <<"x">>)}

BodySteps == Cand \union X \union {
    L(4, <<"intent", T>>), L(4, <<"intent", "x">>), L(4, <<"cost", "1">>), L(4, <<"cost", "0.5">>),
    L(4, <<"when", "x", "<", "1">>), L(4, <<"when", "and", "(", "x", ",", "y", ")">>),
    L(4, <<"x", "<-", "y">>), L(4, <<"y", "<-", "f", "(", "x", ")">>), L(4, <<"1", "<-", "x">>),
    L(4, <<"a.b", "++", "y">>), L(4, <<"y", "==", "x">>),
    L(6, <<"cand">>), L(4, <<"pre">>), L(4, <<"pre", "x">>), L(2, <<"post", "x">>),
    L(0, <<"def", "g">>)}

LastSteps == {L(4, <<"x">>), L(4, <<"y">>), L(4, <<"when", "x", "<", "1">>), L(4, <<"x", "<-", "y">>)}

Fragments == X \union Cand \union {
    L(4, <<"f", "(">>), L(4, <<"x", ",">>), L(4, <<")">>), L(4, <<"(", "y">>), L(0, <<"y", ")">>),
    L(4, <<"if", "x">>), L(4, <<"then", "y">>), L(4, <<"else", "1">>), L(2, <<"else">>),
    L(4, <<"y", "<-", "if", "x", "then">>), L(4, <<"x", "<-", "g", "(">>),
    L(4, <<"when", "f", "(", "x">>), L(4, <<"++", S>>), L(4, <<"x", "<">>),
    L(0, <<"import", "x", "=", Id1>>), L(0, <<"module", "m">>), L(4, <<"cost", "1">>)}

Dispatches == {L(4, <<"believe", "x">>), L(4, <<"believe", "f", "(", "x", ")", "<", "1">>),
               L(4, <<"believe">>)}
Arms == X \union {
    L(6, <<"x", "=>", "1">>), L(6, <<"y", "=>">>), L(6, <<"else", "=>", "y">>), L(6, <<"else", "=>">>),
    L(6, <<"else", "=>", "bottom", S>>), L(6, <<"elsewhere", "=>", "1">>), L(6, <<"x", "=>", "f", "(">>),
    L(8, <<"if", "x">>), L(8, <<"then", "1", "else", "y">>), L(6, <<"x">>), L(6, <<"believe", "x">>)}

Statements == {
    L(0, <<"module", "m">>), L(0, <<"module", S>>), L(0, <<"module">>),
    L(0, <<"import", "y", "=", Id1>>), L(0, <<"import", "x", "=", Id2>>), L(0, <<"import", "x", "=", Id1>>),
    L(0, <<"import", "x", "=", "y">>), L(0, <<"x">>), L(2, <<"def">>),
    L(0, <<"from", Id1, "import", "x", ",", "y">>), L(0, <<"from", Id1, "import", "z">>),
    L(0, <<"from", Id2, "import", "x">>), L(0, <<"from", Id1, "x">>)}

Tokens == {"x", "1", S, "f", "(", " (", ")", ",", "<", "and", "++"}
Lined(fragments) == {L(4, ts) : ts \in fragments}
ShortExpressions == Lined(UNION {[1..n -> Tokens] : n \in 1..4})
Expressions == Lined({
    <<"f", "(", "x", "<", "1", ")", "<", "x">>, <<" (", "x", "<", "1", ")", "and", "x">>,
    <<"x", "<", "1", "and", "1", "<", "x">>, <<"f", "(", "x", ",", "1", "<", "x", ")">>,
    <<"if", "x", "<", "1", "then", "f", "(", "x", ")", "else", "bottom", S>>,
    <<"if", "if", "x", "then", "true", "else", "false", "then", "0.5", "else", S>>,
    <<"if", " (", "x", ")", "<", "1", "then", "x", "else", "x">>,
    <<"and", " (", "x", ",", "x", "<", "1", ")">>, <<"x", "++", "1", "==", S>>,
    <<"x", "++", "f", "(", "x", ")", "==", "f", "(", "1", ")", "++", T>>,
    <<"(", "(", "x", ")", ")">>, <<"(", "(", "(", "x", ")", ")", ")">>, <<"x", "[", "]">>})

(* The desugaring counts the parentheses and the quotes in strings.           *)
Quoted == Lined({
    <<"h", "(", "f", "(", "'('", ")", "<", "g", "(", "')'", ")", ")">>,
    <<"f", "(", "'()'", ")", "<", "g", "(", S, ",", "'()'", ")">>,
    <<"f", "(", "'\"<x'", ")">>, <<"f", "(", "'('", ")", "<", "x">>,
    <<"x", "<", "f", "(", "')'", ")">>, <<"x", "<", "f", "(", "'('", ")">>,
    <<"f", "(", "')'", ")", "<", "x">>, <<"f", "(", "'('", ",", "')'", ")", "++", "'('">>,
    <<"if", "x", "<", "f", "(", "'('", ")", "then", "g", "(", "')'", ")", "else", "y">>})

ParsedOnly(lines) == [lines |-> lines, store |-> TRUE, publish |-> FALSE]
Published(lines) == [lines |-> lines, store |-> TRUE, publish |-> TRUE]
MCShapes == <<
    Published(<<>>),
    ParsedOnly(<<DefF, Clauses, Clauses, Clauses, Clauses, Clauses>>),
    Published(<<DefF, IntentS, Clauses, Clauses, Clauses, Cand, X>>),
    ParsedOnly(<<DefF, IntentS, Cand, BodySteps, BodySteps, BodySteps, LastSteps>>),
    Published(<<DefF, IntentS, Cand, BodySteps, LastSteps>>),
    ParsedOnly(<<DefF, IntentS, Cand, Fragments, Fragments, Fragments, Fragments>>),
    ParsedOnly(<<DefF, IntentS, Cand, Dispatches, Arms, Arms, Arms, Arms>>),
    Published(<<DefF, IntentS, Cand, Dispatches, Arms, Arms>>),
    Published(<<Statements, Statements, Statements>>),
    [lines |-> <<Statements>>, store |-> FALSE, publish |-> TRUE],
    ParsedOnly(<<DefF, IntentS, Cand, ShortExpressions>>),
    Published(<<DefF, IntentS, Cand, Expressions \union Quoted>>),
    Published(<<DefF, IntentS, Cand, X, DefF \union {L(0, <<"def", "g">>)},
                IntentS \union {L(2, <<"intent", Blank>>)} \union Cand,
                Cand \union X, X \union {L(4, <<"1">>)}>>)>>

MCStray == {<<0>>, <<246>>}
MCIndexes == Id1 :> [x |-> Id2, y |-> Id1]

-------------------------------------------------------------------------------
(* ASCII, for the characters the strings have.                                *)
CodesFrom(first, characters) ==
    [c \in {SubSeq(characters, i, i) : i \in 1..Len(characters)} |->
        first - 1 + CHOOSE i \in 1..Len(characters) : SubSeq(characters, i, i) = c]
CodeOf == CodesFrom(97, "abcdefghijklmnopqrstuvwxyz") @@ CodesFrom(65, "ABCDEFGHIJKLMNOPQRSTUVWXYZ")
          @@ CodesFrom(48, "0123456789:") @@ CodesFrom(45, "-.") @@ CodesFrom(32, " ")
          @@ CodesFrom(34, "\"") @@ CodesFrom(40, "()") @@ CodesFrom(44, ",") @@ CodesFrom(60, "<")
Strings == {"codifide", " ", "0.1", "0.2", "module", "symbols", "imports", "kind", "definition", "intent",
    "signature", "pre", "post", "candidates", "params", "name", "type", "returns", "effects",
    "candidate", "guard", "body", "cost", "lit", "value", "conf", "provenance", "literal", "ref",
    "call", "fn", "args", "bind", "expr", "in", "seq", "steps", "believe", "subject", "arms", "else",
    "bottom", "reason", "concat", "parts", "attr", "target", "if", "cond", "then", "main", "default",
    "Any", "Int", "Float", "String", "Bool", "Unit", "a", "b", "aa", "x", "y", "f", "g", "h", "m", "s", "t",
    "io", "net", "eq", "lt", "and", "cand", "def", "", Id1, Id2,
    "exactly twenty-three ch", "exactly twenty-four char"} \union {TextOf(t) : t \in DOMAIN StringPieces}
MCUtf8 ==
    LET codes == CodeOf
    IN  ("e with acute" :> <<195, 169>>)
        @@ [s \in Strings |-> [i \in 1..Len(s) |-> codes[SubSeq(s, i, i)]]]

(* 0.5 and 1.0 fit in every width, 65536.0 is too large for half precision,   *)
(* 0.1 needs a double.                                                        *)
MCWidths == ("1.0" :> (2 :> <<60, 0>> @@ 4 :> <<63, 128, 0, 0>> @@ 8 :> <<63, 240, 0, 0, 0, 0, 0, 0>>))
    @@ ("0.5" :> (2 :> <<56, 0>> @@ 4 :> <<63, 0, 0, 0>> @@ 8 :> <<63, 224, 0, 0, 0, 0, 0, 0>>))
    @@ ("65536.0" :> (4 :> <<71, 128, 0, 0>> @@ 8 :> <<64, 240, 0, 0, 0, 0, 0, 0>>))
    @@ ("0.1" :> (8 :> <<63, 185, 153, 153, 153, 153, 153, 154>>))

Bytes8(b) == [i \in 1..8 |-> b]
(* Magnitudes on both sides of every change of width.                         *)
Magnitudes == {<<>>, <<23>>, <<24>>, <<255>>, <<1, 0>>, <<255, 255>>, <<1, 0, 0>>, <<255, 255, 255, 255>>,
               <<1, 0, 0, 0, 0>>, Bytes8(255), <<1>> \o Bytes8(0)}
Called(fn, args) == Object([kind |-> Txt("call"), fn |-> Txt(fn), args |-> Items(args)])
RefX == Object([kind |-> Txt("ref"), name |-> Txt("x")])
UnknownKind == Object([kind |-> Txt("m")])
CandidateDoc(body, cost) == Object([body |-> body, cost |-> cost])
ModuleDoc(version, intent, candidates) ==
    Object([codifide |-> Txt(version), module |-> Txt("m"),
            symbols |-> Object([f |-> Object([intent |-> Txt(intent), candidates |-> Items(candidates)])])])
Costs == {Number(FALSE, <<1>>), Number(TRUE, <<1>>), Null, [float |-> "1.0"]}
Bodies == {RefX, UnknownKind, Object([name |-> Txt("x")]), Called("f", <<RefX>>),
           Called("f", <<RefX, UnknownKind>>),
           Object([kind |-> Txt("believe"), subject |-> RefX, else |-> RefX,
                   arms |-> Items(<<Items(<<RefX, UnknownKind>>)>>)])}
ModuleDocs ==
    {ModuleDoc(v, "s", <<CandidateDoc(RefX, Null)>>) : v \in {"0.1", "0.2"}}
    \union {ModuleDoc("0.1", intent, <<CandidateDoc(RefX, Null)>>) : intent \in {"", " "}}
    \union {ModuleDoc("0.1", "s", <<>>)}
    \union {ModuleDoc("0.1", "s", <<CandidateDoc(RefX, Null), CandidateDoc(RefX, cost)>>) : cost \in Costs}
    \union {ModuleDoc("0.1", "s", <<CandidateDoc(body, Null)>>) : body \in Bodies}

MCDocuments ==
    {Number(neg, mag) : neg \in BOOLEAN, mag \in Magnitudes}
    \union {[simple |-> v] : v \in {"null", "true", "false"}}
    \union {[float |-> f] : f \in DOMAIN MCWidths}
    \union {Txt(s) : s \in {"", "e with acute", "exactly twenty-three ch", "exactly twenty-four char"}}
    \union {[bytes |-> Zeros(n)] : n \in {0, 24, 256}}
    \union {Items(<<>>), Items(<<Null, Number(FALSE, <<24>>)>>), Items([i \in 1..24 |-> Null]),
            Items(<<[float |-> "0.5"], Items(<<Number(TRUE, <<24>>)>>)>>),
            Object(<<>>), Object([b |-> Null, aa |-> Null, a |-> Null]),
            Object([x |-> Object([b |-> Null, aa |-> Null])])}
    \union ModuleDocs
===============================================================================
