SPECIFICATION MenuSpec
CONSTANTS
  Categories = {k1, k2}
  Products = {b1, b2}
  Watched = b1
  CategoryNames = {n1, n2}
  Skus = {s1, s2}
  MenuCalls = {a1, a2}
  Patches <- MCPatches
  NoValue = NoValue
  MaxMenuFaults = 1
SYMMETRY Symmetry
INVARIANTS
  CategoryNamesResolve
  LowStockAnnounced
  ChangesAnnounced
