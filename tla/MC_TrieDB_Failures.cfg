CONSTANTS
  k1 = k1
  k2 = k2
  v1 = v1
  v2 = v2
  w1 = w1
  w2 = w2
  r1 = r1
  None = None
  Keys <- MC_Keys
  Values <- MC_Values
  Writers <- MC_TwoWriters
  Readers <- MC_Readers
  Writable <- MC_NodeValue
  CacheSize = 1
  StoreMayFail = TRUE

SPECIFICATION Spec

INVARIANT ReadSeesDurable
