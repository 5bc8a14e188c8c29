------------------------------ MODULE ExprSyntax ------------------------------
(* One expression fragment, from its tokens to its tree: lexer.py's tokens,   *)
(* the infix desugaring and the recursive-descent parser of expr_parser.py.   *)
(*                                                                            *)
(* A fragment is a sequence of tokens (strings). Two tokens open a paren:     *)
(* "(" touches the word before it, " (" stands after a space or an operator.  *)
(* The desugaring works on text and tells the two apart; the grammar does     *)
(* not. It sees the insides of strings too: for it a string is a quote, the   *)
(* pieces between the quotes and a quote, and what it leaves is lexed again.  *)
(* Characters, columns and the wording of errors are left out, and so are     *)
(* negative numbers. An expression tree is a record with a "kind".            *)
EXTENDS Integers, Sequences, FiniteSets, SequencesExt

CONSTANTS
    Literal,        \* number and string tokens -> [value, type]
    Inside,         \* string tokens -> the pieces between their quotes, for the strings
                    \* of the sources and those that a rewriting makes of them
    Segments,       \* dotted words -> the sequence of their segments
    MaxParenDepth   \* _Parser.MAX_PAREN_DEPTH

ASSUME MaxParenDepthAssumption == MaxParenDepth \in Nat

(* _INFIX: the operators and the primitives they are rewritten to.            *)
Infix == ("<=" :> "le") @@ (">=" :> "ge") @@ ("==" :> "eq") @@ ("!=" :> "ne")
         @@ ("<" :> "lt") @@ (">" :> "gt") @@ ("and" :> "and") @@ ("or" :> "or")
WordOperators == {"and", "or"}

Opening == {"(", " (", "[", "{"}
Closing == {")", "]", "}"}
Operators == {"<-", "=>", "->", "++", "=", "!"}

IsString(t) == t \in DOMAIN Literal /\ Literal[t].type = "String"
(* A run of letters, digits, dots and underscores.                            *)
IsWord(t) ==
    /\ t \notin Opening \union Closing \union Operators \union {",", ":", "\"", "\\\""}
    /\ t \in DOMAIN Infix => t \in WordOperators
    /\ ~IsString(t)
IsIdentifier(t) == IsWord(t) /\ t \notin DOMAIN Literal \union DOMAIN Segments

Count(ts, S) == Cardinality({i \in DOMAIN ts : ts[i] \in S})

(* _bracket_balance *)
Balance(ts) == Count(ts, Opening) - Count(ts, Closing)

-------------------------------------------------------------------------------
(* _desugar_infix *)

(* The text of a fragment: a string token is spelled out. A quote that a      *)
(* string escapes is one piece, the backslash with the quote.                 *)
Quote == "\""
EscapedQuote == "\\\""
Spelled(ts) ==
    FlattenSeq([i \in DOMAIN ts |->
        IF IsString(ts[i]) THEN <<Quote>> \o Inside[ts[i]] \o <<Quote>> ELSE <<ts[i]>>])

(* The operands are found by counting parentheses, those in strings included. *)
ParenBalance(ps) == Count(ps, {"(", " ("}) - Count(ps, {")"})

(* Where the operand that ends the output begins; 0 when its parens never     *)
(* open. A group takes the word it touches along.                             *)
OperandStart(out) ==
    LET n == Len(out)
        Opens == {k \in 1..n : out[k] \in {"(", " ("} /\ ParenBalance(SubSeq(out, k, n)) = 0}
        group == CHOOSE k \in Opens : \A l \in Opens : l <= k
    IN  CASE n > 0 /\ out[n] = ")" ->
                IF Opens = {} THEN 0
                ELSE IF out[group] = "(" /\ group > 1 /\ IsWord(out[group - 1])
                THEN group - 1 ELSE group
          [] n > 0 /\ IsWord(out[n]) -> n
          [] OTHER -> n + 1

(* How many pieces the operand at the start of ts has: a group, a word, a     *)
(* word with the group it touches, or nothing that the scan understands. A    *)
(* group that never closes is all the rest.                                   *)
OperandLength(ts) ==
    LET isCall == Len(ts) > 1 /\ IsWord(ts[1]) /\ ts[2] = "("
        Ends == {k \in (IF isCall THEN 2 ELSE 1)..Len(ts) : ParenBalance(SubSeq(ts, 1, k)) = 0}
    IN  CASE ts[1] \in {"(", " ("} \/ isCall ->
                IF Ends = {} THEN Len(ts) ELSE CHOOSE k \in Ends : \A l \in Ends : k <= l
          [] IsWord(ts[1]) /\ ~isCall -> 1
          [] OTHER -> 0

(* A word operator before an opening paren is the name of a call.             *)
IsInfixAt(ts) ==
    /\ ts[1] \in DOMAIN Infix
    /\ ts[1] \in WordOperators => ~(Len(ts) > 1 /\ ts[2] \in {"(", " ("})

Unreadable == <<"!">>

RECURSIVE Rewrite(_, _, _)
(* Every quote turns inString, an escaped one too, and only outside strings   *)
(* an operator counts. After an operand the scan goes on as outside a string, *)
(* also when the operand ended inside one.                                    *)
Rewrite(out, ts, inString) ==
    IF ts = <<>> THEN out
    ELSE IF ts[1] \in {Quote, EscapedQuote} THEN Rewrite(Append(out, ts[1]), Tail(ts), ~inString)
    ELSE IF inString \/ ~IsInfixAt(ts) THEN Rewrite(Append(out, ts[1]), Tail(ts), inString)
    ELSE IF Len(ts) = 1 \/ OperandStart(out) = 0 THEN Unreadable
    ELSE LET start == OperandStart(out)
             size  == OperandLength(Tail(ts))
         IN  Rewrite(SubSeq(out, 1, start - 1) \o <<Infix[ts[1]], "(">>
                        \o SubSeq(out, start, Len(out)) \o <<",">>
                        \o SubSeq(ts, 2, size + 1) \o <<")">>,
                     SubSeq(ts, size + 2, Len(ts)), FALSE)

(* lex_expr: the pieces between two quotes are one string token again.        *)
RECURSIVE Lexed(_)
Lexed(ps) ==
    LET opening == SelectInSeq(ps, LAMBDA p : p \in {Quote, EscapedQuote})
        length  == SelectInSeq(SubSeq(ps, opening + 1, Len(ps)), LAMBDA p : p = Quote) - 1
        content == SubSeq(ps, opening + 1, opening + length)
    IN  IF opening = 0 THEN ps
        ELSE IF ps[opening] = EscapedQuote \/ length < 0 THEN Unreadable
        ELSE SubSeq(ps, 1, opening - 1) \o <<CHOOSE t \in DOMAIN Inside : Inside[t] = content>>
             \o Lexed(SubSeq(ps, opening + length + 2, Len(ps)))

DesugarInfix(ts) == Rewrite(<<>>, Spelled(ts), FALSE)

-------------------------------------------------------------------------------
(* _Parser: each operator returns whether it succeeds, the tree it built and  *)
(* the tokens it left. depth counts the groups still allowed.                 *)
Failure == [ok |-> FALSE, node |-> <<>>, rest |-> <<>>]
Success(node, rest) == [ok |-> TRUE, node |-> node, rest |-> rest]
StopsAt(r, S) == r.ok /\ r.rest # <<>> /\ Head(r.rest) \in S

Lit(value, type) == [kind |-> "lit", value |-> value, type |-> type,
                     conf |-> "1.0", provenance |-> "literal"]
Ref(name) == [kind |-> "ref", name |-> name]
Call(fn, args) == [kind |-> "call", fn |-> fn, args |-> args]

(* _dotted_ref: the segments after the first are attributes.                  *)
DottedRef(word) ==
    IF word \notin DOMAIN Segments THEN Ref(word)
    ELSE FoldLeft(LAMBDA node, seg : [kind |-> "attr", target |-> node, name |-> seg],
                  Ref(Segments[word][1]), Tail(Segments[word]))

RECURSIVE ParseConcat(_, _, _), ParseAtom(_, _), ParseArgs(_, _, _)
(* parse_concat *)
ParseConcat(parts, ts, depth) ==
    LET a == ParseAtom(ts, depth)
    IN  IF ~a.ok THEN Failure
        ELSE IF StopsAt(a, {"++"}) THEN ParseConcat(Append(parts, a.node), Tail(a.rest), depth)
        ELSE IF parts = <<>> THEN a
        ELSE Success([kind |-> "concat", parts |-> Append(parts, a.node)], a.rest)

(* The arguments after the opening paren of a call, up to its closing one.    *)
ParseArgs(args, ts, depth) ==
    LET e == ParseConcat(<<>>, ts, depth)
    IN  IF args = <<>> /\ ts # <<>> /\ ts[1] = ")" THEN Success(<<>>, Tail(ts))
        ELSE IF StopsAt(e, {","}) THEN ParseArgs(Append(args, e.node), Tail(e.rest), depth)
        ELSE IF StopsAt(e, {")"}) THEN Success(Append(args, e.node), Tail(e.rest))
        ELSE Failure

(* if cond then a else b *)
ParseIf(ts, depth) ==
    LET c == ParseConcat(<<>>, ts, depth)
        t == ParseConcat(<<>>, Tail(c.rest), depth)
        e == ParseConcat(<<>>, Tail(t.rest), depth)
    IN  IF StopsAt(c, {"then"}) /\ StopsAt(t, {"else"}) /\ e.ok
        THEN Success([kind |-> "if", cond |-> c.node, then_ |-> t.node, else_ |-> e.node], e.rest)
        ELSE Failure

(* A parenthesised group, with the bound on nesting.                          *)
ParseGroup(ts, depth) ==
    LET e == ParseConcat(<<>>, ts, depth - 1)
    IN  IF depth > 0 /\ StopsAt(e, {")"}) THEN Success(e.node, Tail(e.rest)) ELSE Failure

(* parse_atom *)
ParseAtom(ts, depth) ==
    IF ts = <<>> THEN Failure
    ELSE LET t == ts[1]
             rest == Tail(ts)
             True == [simple |-> "true"]
             False == [simple |-> "false"]
         IN  CASE t \in DOMAIN Literal -> Success(Lit(Literal[t].value, Literal[t].type), rest)
               [] t = "bottom" ->
                     IF rest # <<>> /\ IsString(rest[1])
                     THEN Success([kind |-> "bottom", reason |-> <<Literal[rest[1]].value>>],
                                  Tail(rest))
                     ELSE Success([kind |-> "bottom", reason |-> <<>>], rest)
               [] t = "true"  -> Success(Lit(True, "Bool"), rest)
               [] t = "false" -> Success(Lit(False, "Bool"), rest)
               [] t = "if"    -> ParseIf(rest, depth)
               [] t \in {"(", " ("} -> ParseGroup(rest, depth)
               [] IsWord(t) /\ t \notin DOMAIN Literal \union {"bottom", "true", "false", "if"} ->
                     IF rest # <<>> /\ rest[1] \in {"(", " ("}
                     THEN LET a == ParseArgs(<<>>, Tail(rest), depth)
                          IN  IF a.ok THEN Success(Call(t, a.node), a.rest) ELSE Failure
                     ELSE Success(DottedRef(t), rest)
               [] OTHER -> Failure

(* parse_expr: what is left over after the tree is an error.                  *)
ParseExpr(ts) ==
    LET r == ParseConcat(<<>>, Lexed(DesugarInfix(ts)), MaxParenDepth)
    IN  IF r.ok /\ r.rest = <<>> THEN r ELSE Failure
===============================================================================
