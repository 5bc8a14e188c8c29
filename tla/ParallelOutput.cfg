CONSTANTS
  Names <- MCNames
  Effects <- MCEffects
  Scalars <- MCScalars
  Falsy = {""}
  Nothing = ""
  Definitions <- MCDefinitions
  Nodes <- MCNodes
  Node <- MCNode
  Owner <- MCOwner
  Symbols <- MCSymbols
  Bindings <- MCBindings
  Primitives <- MCPrimitives
  NameOf <- MCNameOf
  Params <- MCParams
  ParamTypes <- MCParamTypes
  ReturnType <- MCAnything
  Pre <- MCPre
  Post <- MCPost
  Candidates <- MCCandidates
  CostInfinity = 9
  Declarations <- MCDeclarations
  Entries <- MCEntries
  Failing = {"fail"}
  Printing = "out"
  Mark = "-"
  MaxDepth = 3
SPECIFICATION Spec
INVARIANT OutputNeverReordered
