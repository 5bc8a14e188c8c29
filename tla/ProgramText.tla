---------------------------- MODULE ProgramText ----------------------------
(***************************************************************************)
(* A Codifide module as the interpreter finds it: definitions, and the     *)
(* nodes of their expressions (src/codifide/core/types.py).                *)
(*                                                                         *)
(* Abstractions.  A scalar is one of a few values, its type tag and        *)
(* confidence included; a Belief counts as one.  A believe expression is a *)
(* binding of "it" around a chain of conditionals, which is how it is      *)
(* evaluated.  A dotted primitive without arguments is a call.             *)
(***************************************************************************)
EXTENDS Integers, Sequences

CONSTANTS
    Names,       \* names of definitions, primitives and local variables
    Effects,     \* effect labels
    Scalars,     \* values other than refusals
    Falsy,       \* the scalars that are not truthy
    Nothing,     \* the scalar None, which a missing argument becomes
    Definitions, \* the definitions in play, local and imported
    Nodes,       \* the nodes of their expressions
    Node,        \* Node[n]: what node n is
    Owner,       \* Owner[n]: the definition whose tree n belongs to
    Symbols,     \* the local definitions by name
    Bindings,    \* the imported definitions by the names they are bound to
    Primitives,  \* the effect of each primitive by name, or NoEffect
    NameOf,      \* NameOf[d]: the name in the definition itself
    Params,      \* Params[d]: its parameters
    ParamTypes,  \* ParamTypes[d]: for each of them the values it accepts
    ReturnType,  \* ReturnType[d]: the values it may return
    Pre,         \* Pre[d], Post[d]: its contract clauses
    Post,
    Candidates,  \* Candidates[d]: guard, cost and body of each candidate
    CostInfinity \* the cost of a candidate that declares none

NoEffect == "no effect"
NoNode   == "no node"
NoCost   == -1

\* A refusal, and a Value that a refusal was wrapped in when it became an argument.
Bottom == "bottom"
Boxed  == "boxed bottom"
Values == Scalars \union {Bottom, Boxed}

LeafKinds  == {"literal", "reference", "refusal"}
InnerKinds == {"sequence", "concat", "field", "conditional", "binding", "call"}

\* A binding has an expression and a body, a conditional a condition and two branches.
NodeRecords ==
    {r \in [kind : LeafKinds \union InnerKinds, name : Names, value : Scalars, parts : Seq(Nodes)] :
        /\ r.kind = "binding" => Len(r.parts) = 2
        /\ r.kind = "conditional" => Len(r.parts) = 3
        /\ r.kind \in {"sequence", "field"} => Len(r.parts) > 0}

CandidateRecords ==
    [guard : Nodes \union {NoNode}, cost : Nat \union {NoCost}, body : Nodes]

\* The nodes a definition holds directly.
Clauses(d) == {Pre[d][i] : i \in 1..Len(Pre[d])} \union {Post[d][i] : i \in 1..Len(Post[d])}
Guards(d)  == {Candidates[d][i].guard : i \in 1..Len(Candidates[d])} \ {NoNode}
Bodies(d)  == {Candidates[d][i].body : i \in 1..Len(Candidates[d])}

ASSUME ValueAssumption ==
    /\ Falsy \subseteq Scalars
    /\ Nothing \in Falsy
    /\ Bottom \notin Scalars /\ Boxed \notin Scalars

ASSUME NameAssumption ==
    /\ {"main", "result", "is_bottom"} \subseteq Names
    /\ DOMAIN Symbols \subseteq Names    /\ Symbols  \in [DOMAIN Symbols -> Definitions]
    /\ DOMAIN Bindings \subseteq Names   /\ Bindings \in [DOMAIN Bindings -> Definitions]
    /\ DOMAIN Primitives \subseteq Names
    /\ Primitives \in [DOMAIN Primitives -> Effects \union {NoEffect}]
    /\ NoEffect \notin Effects

ASSUME DefinitionAssumption ==
    /\ NameOf \in [Definitions -> Names]
    /\ Params \in [Definitions -> Seq(Names)]
    /\ ParamTypes \in [Definitions -> Seq(SUBSET Values)]
    /\ \A d \in Definitions : Len(ParamTypes[d]) = Len(Params[d])
    /\ ReturnType \in [Definitions -> SUBSET Values]
    /\ Pre  \in [Definitions -> Seq(Nodes)]
    /\ Post \in [Definitions -> Seq(Nodes)]
    /\ Candidates \in [Definitions -> Seq(CandidateRecords)]
    /\ CostInfinity \in Nat

\* Expressions are trees: a node belongs to the definition its root belongs to.
ASSUME NodeAssumption ==
    /\ NoNode \notin Nodes
    /\ Node  \in [Nodes -> NodeRecords]
    /\ Owner \in [Nodes -> Definitions]
    /\ \A d \in Definitions : \A n \in Clauses(d) \union Guards(d) \union Bodies(d) : Owner[n] = d
    /\ \A n \in Nodes : \A i \in 1..Len(Node[n].parts) : Owner[Node[n].parts[i]] = Owner[n]

-----------------------------------------------------------------------------
Local    == {Symbols[name] : name \in DOMAIN Symbols}
Imported == {Bindings[name] : name \in DOMAIN Bindings}

\* Names resolve to a local definition, then to an imported one, then to a primitive.
IsDefinition(name) == name \in DOMAIN Symbols \union DOMAIN Bindings

Lookup(name) == IF name \in DOMAIN Symbols THEN Symbols[name] ELSE Bindings[name]

IsPrimitive(name) == ~IsDefinition(name) /\ name \in DOMAIN Primitives

\* Every expression node reachable from a definition.
AllExprsOf(d) == {n \in Nodes : Owner[n] = d}

\* The definitions that a definition's expressions call.
Callees(d) ==
    {Lookup(Node[n].name) :
        n \in {m \in AllExprsOf(d) : Node[m].kind = "call" /\ IsDefinition(Node[m].name)}}

\* A refusal is not truthy, in a box or not.
Truthy(v) == v \in Scalars \ Falsy

-----------------------------------------------------------------------------
(***************************************************************************)
(* Dispatch takes the cheapest satisfied candidate, and of several the one *)
(* declared first.                                                         *)
(***************************************************************************)
Cost(c) == IF c.cost = NoCost THEN CostInfinity ELSE c.cost

Cheaper(d, i, j) ==
    LET ci == Cost(Candidates[d][i])
        cj == Cost(Candidates[d][j])
    IN  ci < cj \/ (ci = cj /\ i < j)

Cheapest(d, satisfied) ==
    CHOOSE i \in satisfied : \A j \in satisfied \ {i} : Cheaper(d, i, j)
=============================================================================
