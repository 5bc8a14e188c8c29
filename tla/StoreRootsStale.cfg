CONSTANTS
  catalogue = catalogue  index = index  symbol = symbol
  reader = reader  admin = admin  sweeper = sweeper
  Identities = {index, symbol}
  Procs = {sweeper, admin}
  Imports <- MCImports
  Calls <- MCCalls
  Faults = {}
SPECIFICATION Spec
INVARIANT RootsOfTheMomentSpared
