CONSTANTS
  Names <- MCNames
  Effects <- MCEffects
  Scalars <- MCScalars
  Falsy = {"none"}
  Nothing = "none"
  Definitions <- MCDefinitions
  Nodes <- MCNodes
  Node <- MCNode
  Owner <- MCOwner
  Symbols <- MCSymbols
  Bindings <- MCBindings
  Primitives <- MCPrimitives
  NameOf <- MCNameOf
  Params <- MCParams
  ParamTypes <- MCParamTypes
  ReturnType <- MCReturnType
  Pre <- MCPre
  Post <- MCPost
  Candidates <- MCCandidates
  CostInfinity = 9
  Declarations <- MCDeclarations
  ArgLists <- MCArgLists
  KeyOf <- MCKeyOf
  MaxDepth = 3
SPECIFICATION Spec
INVARIANT ContractsPure
