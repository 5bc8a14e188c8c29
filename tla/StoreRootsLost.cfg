CONSTANTS
  catalogue = catalogue  index = index  symbol = symbol
  reader = reader  admin = admin  sweeper = sweeper
  Identities = {index, symbol}
  Procs = {sweeper, admin, reader}
  Imports <- MCImports
  Calls <- MCTwoAdmins
  Faults = {}
SPECIFICATION Spec
INVARIANT AckedRootsKept
