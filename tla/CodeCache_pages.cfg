SPECIFICATION Spec
CONSTANTS
  VPages = {0, 1, 2}
  PPages = {0, 1}
  Insns = {a, b}
  Undecoded = Undecoded
  TlbSize = 2
  CacheSize = 1
  LeafSize = 1
SYMMETRY InsnSymmetry
INVARIANTS ExecutesMemory DecodedIsWatched FenceTakesEffect
