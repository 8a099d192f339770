CONSTANTS
  Threads = {t1, t2, t3}
  Blocks <- MCBlocks
  PathOf <- MCPathOf
  Weight <- MCWeight
  CacheCapacity = 3
  OpenFiles = 2
SPECIFICATION Spec
INVARIANT CacheAccounts PoolBounded
SYMMETRY MCSymmetry
