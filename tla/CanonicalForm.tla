----------------------------- MODULE CanonicalForm ----------------------------
(* canonical.py: a module as a document and a document as a module. The       *)
(* document is what is encoded, hashed and stored; its constructors and the   *)
(* order of its encoded keys are those of CanonicalCbor.                      *)
EXTENDS CanonicalCbor

Items(seq) == [items |-> seq]
Float1 == [float |-> "1.0"]
(* A JSON object with the fields of a record, and the reading of one field.   *)
Object(fields) == [map |-> {<<Txt(k), fields[k]>> : k \in DOMAIN fields}]
Keys(doc) == {p[1].text : p \in doc.map}
Field(doc, key) == (CHOOSE p \in doc.map : p[1] = Txt(key))[2]
Get(doc, key, default) == IF key \in Keys(doc) THEN Field(doc, key) ELSE default
(* A field that is only written when its value is there.                      *)
Optional(key, option) == IF option = <<>> THEN <<>> ELSE key :> option[1]
(* A field that is absent or null is no value.                                *)
Present(doc, key) ==
    LET value == Get(doc, key, Null) IN IF value = Null THEN <<>> ELSE <<value>>
(* A dict built from pairs keeps the last value of a key.                     *)
LastOf(pairs) ==
    [k \in {pairs[i][1] : i \in DOMAIN pairs} |->
        pairs[CHOOSE i \in DOMAIN pairs : /\ pairs[i][1] = k
                                          /\ \A j \in DOMAIN pairs : pairs[j][1] = k => j <= i][2]]

SchemaVersion == Txt("0.1")

-------------------------------------------------------------------------------
(* _expr_to_json *)
RECURSIVE ExprToDoc(_)
ExprToDoc(e) ==
    LET Docs(seq) == Items([i \in DOMAIN seq |-> ExprToDoc(seq[i])])
        Node(fields) == Object(fields @@ [kind |-> Txt(e.kind)])
    IN  CASE e.kind = "lit" ->
                Node([value |-> e.value, type |-> Txt(e.type),
                      conf |-> [float |-> e.conf], provenance |-> Txt(e.provenance)])
          [] e.kind = "ref"     -> Node([name |-> Txt(e.name)])
          [] e.kind = "call"    -> Node([fn |-> Txt(e.fn), args |-> Docs(e.args)])
          [] e.kind = "bind"    -> Node([name |-> Txt(e.name), expr |-> ExprToDoc(e.expr),
                                         in |-> ExprToDoc(e.body)])
          [] e.kind = "seq"     -> Node([steps |-> Docs(e.steps)])
          [] e.kind = "believe" ->
                Node([subject |-> ExprToDoc(e.subject),
                      arms |-> Items([i \in DOMAIN e.arms |-> Docs(e.arms[i])]),
                      else |-> ExprToDoc(e.otherwise)])
          [] e.kind = "bottom"  -> Node(Optional("reason", e.reason))
          [] e.kind = "concat"  -> Node([parts |-> Docs(e.parts)])
          [] e.kind = "attr"    -> Node([target |-> ExprToDoc(e.target), name |-> Txt(e.name)])
          [] e.kind = "if"      -> Node([cond |-> ExprToDoc(e.cond), then |-> ExprToDoc(e.then_),
                                         else |-> ExprToDoc(e.else_)])

ExprsToDoc(exprs) == Items([i \in DOMAIN exprs |-> ExprToDoc(exprs[i])])

(* _cand_to_json: no cost field unless there is a cost.                       *)
CandToDoc(c) ==
    Object([kind |-> Txt("candidate"), intent |-> c.intent, body |-> ExprToDoc(c.body),
            guard |-> IF c.guard = <<>> THEN Null ELSE ExprToDoc(c.guard[1])]
           @@ Optional("cost", c.cost))

(* A set or a dict in the order of the encodings, or of the code points, of   *)
(* its names: which for UTF-8 is the order of the bytes.                      *)
ByCodePoint(names) == Sorted(names, LAMBDA a, b : BytesLess(Utf8[a], Utf8[b]))
ByEncoding(names) ==
    Sorted(names, LAMBDA a, b : BytesLess(CanonicalBytes(Txt(a)), CanonicalBytes(Txt(b))))

(* _sig_to_json *)
SigToDoc(s) ==
    LET effects == ByCodePoint(s.effects)
    IN  Object([params |-> Items([i \in DOMAIN s.params |->
                              Object([name |-> Txt(s.params[i].name), type |-> Txt(s.params[i].type)])]),
                returns |-> Txt(s.returns),
                effects |-> Items([i \in DOMAIN effects |-> Txt(effects[i])])])

(* _def_to_json *)
DefToDoc(d) ==
    Object([kind |-> Txt("definition"), intent |-> d.intent, signature |-> SigToDoc(d.signature),
            pre |-> ExprsToDoc(d.pre), post |-> ExprsToDoc(d.post),
            candidates |-> Items([i \in DOMAIN d.candidates |-> CandToDoc(d.candidates[i])])])

(* to_canonical *)
ToCanonical(module) ==
    LET defs == LastOf([i \in DOMAIN module.symbols |->
                          <<module.symbols[i].name, DefToDoc(module.symbols[i])>>])
        imports == LastOf([i \in DOMAIN module.imports |->
                          <<module.imports[i][1], Txt(module.imports[i][2])>>])
    IN  Object([codifide |-> SchemaVersion, module |-> Txt(module.name), symbols |-> Object(defs)]
               @@ (IF module.imports = <<>> THEN <<>> ELSE "imports" :> Object(imports)))

-------------------------------------------------------------------------------
(* _expr_from_json                                                            *)
RECURSIVE ExprFromDoc(_)
ExprFromDoc(doc) ==
    LET kind == Field(doc, "kind").text
        Sub(key) == ExprFromDoc(Field(doc, key))
        Name(key) == Field(doc, key).text
        Subs(items) == [i \in DOMAIN items |-> ExprFromDoc(items[i])]
        List(key) == Get(doc, key, Items(<<>>)).items
    IN  CASE kind = "lit" ->
                [kind |-> kind, value |-> Field(doc, "value"), type |-> Get(doc, "type", Txt("Any")).text,
                 conf |-> Get(doc, "conf", Float1).float,
                 provenance |-> Get(doc, "provenance", Txt("literal")).text]
          [] kind = "ref"     -> [kind |-> kind, name |-> Name("name")]
          [] kind = "call"    -> [kind |-> kind, fn |-> Name("fn"), args |-> Subs(List("args"))]
          [] kind = "bind"    -> [kind |-> kind, name |-> Name("name"), expr |-> Sub("expr"),
                                  body |-> Sub("in")]
          [] kind = "seq"     -> [kind |-> kind, steps |-> Subs(Field(doc, "steps").items)]
          [] kind = "believe" ->
                [kind |-> kind, subject |-> Sub("subject"), otherwise |-> Sub("else"),
                 arms |-> [i \in DOMAIN List("arms") |-> Subs(List("arms")[i].items)]]
          [] kind = "bottom"  ->
                [kind |-> kind, reason |-> Present(doc, "reason")]
          [] kind = "concat"  -> [kind |-> kind, parts |-> Subs(List("parts"))]
          [] kind = "attr"    -> [kind |-> kind, target |-> Sub("target"), name |-> Name("name")]
          [] kind = "if"      -> [kind |-> kind, cond |-> Sub("cond"), then_ |-> Sub("then"),
                                  else_ |-> Sub("else")]

ExprsFromDoc(doc, key) ==
    LET items == Get(doc, key, Items(<<>>)).items IN [i \in DOMAIN items |-> ExprFromDoc(items[i])]

(* Bug: the cost is written and not read back.                                *)
CandFromDocFree(doc) ==
    LET guard == Present(doc, "guard")
    IN  [body |-> ExprFromDoc(Field(doc, "body")), intent |-> Get(doc, "intent", Txt("default")),
         guard |-> [i \in DOMAIN guard |-> ExprFromDoc(guard[i])], cost |-> <<>>]

(* _cand_from_json *)
CandFromDoc(doc) ==
    LET guard == Present(doc, "guard")
    IN  [body |-> ExprFromDoc(Field(doc, "body")), intent |-> Get(doc, "intent", Txt("default")),
         guard |-> [i \in DOMAIN guard |-> ExprFromDoc(guard[i])],
         cost |-> Present(doc, "cost")]

(* _sig_from_json *)
SigFromDoc(doc) ==
    LET params == Get(doc, "params", Items(<<>>)).items
        effects == Get(doc, "effects", Items(<<>>)).items
    IN  [params |-> [i \in DOMAIN params |->
                        [name |-> Field(params[i], "name").text,
                         type |-> Get(params[i], "type", Txt("Any")).text]],
         returns |-> Get(doc, "returns", Txt("Any")).text,
         effects |-> {effects[i].text : i \in DOMAIN effects}]

(* _def_from_json *)
DefFromDoc(name, doc) ==
    LET cands == Get(doc, "candidates", Items(<<>>)).items
    IN  [name |-> name, intent |-> Field(doc, "intent"),
         signature |-> SigFromDoc(Get(doc, "signature", Object(<<>>))),
         pre |-> ExprsFromDoc(doc, "pre"), post |-> ExprsFromDoc(doc, "post"),
         candidates |-> [i \in DOMAIN cands |-> CandFromDoc(cands[i])]]

(* What makes from_canonical raise ValueError: a version that is not the      *)
(* schema's, a definition whose intent is blank or that has no candidate, an  *)
(* expression of an unknown kind, and a cost that is no integer or below 0.   *)
IsBlank(text) == ToSet(Utf8[text]) \subseteq 9..13 \union 28..32
IsCost(doc) == "int" \in DOMAIN doc /\ ~doc.int.neg

(* The fields of each kind that hold expressions; an arm is a pair of them.   *)
Parts == [lit |-> {}, ref |-> {}, bottom |-> {}, attr |-> {"target"}, bind |-> {"expr", "in"},
          call |-> {"args"}, seq |-> {"steps"}, concat |-> {"parts"},
          if |-> {"cond", "then", "else"}, believe |-> {"subject", "arms", "else"}]
RECURSIVE IsExpr(_)
IsExpr(doc) ==
    IF "items" \in DOMAIN doc THEN \A i \in DOMAIN doc.items : IsExpr(doc.items[i])
    ELSE LET kind == Get(doc, "kind", Txt("")).text
         IN  /\ kind \in DOMAIN Parts
             /\ \A key \in Parts[kind] \intersect Keys(doc) : IsExpr(Field(doc, key))

(* Definition.__post_init__ and Candidate.__post_init__                       *)
IsDefinition(doc) ==
    LET cands == Get(doc, "candidates", Items(<<>>)).items
    IN  /\ ~IsBlank(Field(doc, "intent").text) /\ cands # <<>>
        /\ \A clause \in {"pre", "post"} : IsExpr(Get(doc, clause, Items(<<>>)))
        /\ \A i \in DOMAIN cands :
              /\ \A e \in ToSet(Present(cands[i], "guard")) \union {Field(cands[i], "body")} : IsExpr(e)
              /\ \A cost \in ToSet(Present(cands[i], "cost")) : IsCost(cost)

IsReadable(doc) ==
    /\ Get(doc, "codifide", Null) = SchemaVersion
    /\ \A s \in Get(doc, "symbols", Object(<<>>)).map : IsDefinition(s[2])

(* from_canonical: the dict of a decoded document has its keys in the order   *)
(* of their encodings; imports are sorted by name.                            *)
FromCanonical(doc) ==
    LET symbols == Get(doc, "symbols", Object(<<>>))
        imports == Get(doc, "imports", Object(<<>>))
        names == ByEncoding(Keys(symbols))
        locals == ByCodePoint(Keys(imports))
    IN  [name |-> Get(doc, "module", Txt("main")).text,
         symbols |-> [i \in DOMAIN names |-> DefFromDoc(names[i], Field(symbols, names[i]))],
         imports |-> [i \in DOMAIN locals |-> <<locals[i], Field(imports, locals[i]).text>>]]
===============================================================================
