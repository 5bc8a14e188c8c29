CONSTANTS
  catalogue = catalogue  index = index  symbol = symbol
  reader = reader  admin = admin  sweeper = sweeper
  Identities = {index, symbol}
  Procs = {sweeper, reader}
  Imports <- MCImports
  Calls <- MCCalls
  Faults = {"crash", "damage", "writeFails", "unlinkFails", "logFails"}
SPECIFICATION FairSpec
INVARIANTS TypeOK OnlyWholeObjects OneCollector SweepSparesReachable
PROPERTIES DeletionsAuthorised LogMatchesSweep KeepsContract CallsReturn
