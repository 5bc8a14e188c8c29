------------------------- MODULE ProgramTextProofs -------------------------
(***************************************************************************)
(* Facts about every program: what a node is, and which candidate dispatch *)
(* takes.                                                                  *)
(***************************************************************************)
EXTENDS ProgramText, WellFoundedInduction, TLAPS

\* What a node is.
LEMMA NodeOK ==
    ASSUME NEW n \in Nodes
    PROVE  /\ Node[n].name \in Names /\ Node[n].value \in Scalars
           /\ Node[n].parts \in Seq(Nodes)
           /\ Node[n].kind = "binding" => Len(Node[n].parts) = 2
           /\ Node[n].kind = "conditional" => Len(Node[n].parts) = 3
           /\ Node[n].kind \in {"sequence", "field"} => Len(Node[n].parts) > 0
<1>1. Node[n] \in NodeRecords
  BY NodeAssumption
<1>2. QED
  BY <1>1 DEF NodeRecords

\* Among satisfied candidates there is a cheapest, and it is what dispatch chooses.
LEMMA CheapestExists ==
    ASSUME NEW d \in Definitions,
           NEW satisfied \in SUBSET (1..Len(Candidates[d])), satisfied # {}
    PROVE  /\ Cheapest(d, satisfied) \in satisfied
           /\ \A j \in satisfied \ {Cheapest(d, satisfied)} : Cheaper(d, Cheapest(d, satisfied), j)
<1> DEFINE cost(i) == Cost(Candidates[d][i])
           costs == {cost(i) : i \in satisfied}
<1>1. \A i \in satisfied : i \in Nat /\ cost(i) \in Nat
  <2> SUFFICES ASSUME NEW i \in satisfied
               PROVE  i \in Nat /\ cost(i) \in Nat
    OBVIOUS
  <2>1. Candidates[d] \in Seq(CandidateRecords)
    BY DefinitionAssumption
  <2>2. Candidates[d][i] \in CandidateRecords /\ i \in Nat
    BY <2>1
  <2>3. Candidates[d][i].cost \in Nat \union {NoCost}
    BY <2>2 DEF CandidateRecords
  <2>4. QED
    BY <2>2, <2>3, DefinitionAssumption DEF Cost
<1>2. \A T \in SUBSET Nat : T # {} => \E x \in T : \A y \in T : ~(y < x)
  <2> SUFFICES ASSUME NEW T \in SUBSET Nat, T # {}
               PROVE  \E x \in T : \A y \in T : ~(y < x)
    OBVIOUS
  <2>1. PICK x \in T : \A y \in T : ~(<<y, x>> \in OpToRel(<, Nat))
    BY NatLessThanWellFounded, WFMin
  <2>2. QED
    BY <2>1 DEF OpToRel
<1>3. PICK c \in costs : \A e \in costs : ~(e < c)
  <2>1. costs # {} /\ costs \in SUBSET Nat
    BY <1>1
  <2> HIDE DEF costs
  <2>2. QED
    BY <2>1, <1>2
<1> DEFINE least == {i \in satisfied : cost(i) = c}
<1>4. PICK i \in least : \A j \in least : ~(j < i)
  <2>1. least # {} /\ least \in SUBSET Nat
    BY <1>1
  <2>2. QED
    BY <2>1, <1>2
<1>5. \A j \in satisfied \ {i} : Cheaper(d, i, j)
  <2> SUFFICES ASSUME NEW j \in satisfied \ {i}
               PROVE  Cheaper(d, i, j)
    OBVIOUS
  <2>1. cost(i) = c /\ cost(j) \in costs /\ ~(cost(j) < c)
    BY <1>3, <1>4
  <2>2. i \in Nat /\ j \in Nat /\ cost(i) \in Nat /\ cost(j) \in Nat
    BY <1>1
  <2>3. cost(j) = c => ~(j < i)
    BY <1>4
  <2>4. QED
    BY <2>1, <2>2, <2>3 DEF Cheaper
<1>6. QED
  BY <1>4, <1>5 DEF Cheapest
=============================================================================
