\* A store of three, four keys, two costs: every put beyond the third evicts,
\* with all the entries, or fewer, as candidates.
CONSTANTS
  Key = {k1, k2, k3, k4}
  null = null
  NoEntry = NoEntry
  MaxEntries = 3
  TokenCost = {1, 3}
  MaxCount = 1
SPECIFICATION Spec
SYMMETRY Symmetry
INVARIANTS
  StoreInv
  ImplementsQueue
PROPERTIES
  EvictionSparesTheWorthiest
