SPECIFICATION FairSpec
CONSTANTS
  THREADS = 3
  SIZE = 3
  HASH_TABLE_CAPACITY = 2
  Keys <- Strings
  Work <- Additions
  bernstein_hash <- Hash
  k1 = k1
  k2 = k2
  k3 = k3
INVARIANTS TypeOK MutualExclusion KeyOnce NothingMissing DestroyedUnused
PROPERTIES ImplementsMap Terminates
