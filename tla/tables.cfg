SPECIFICATION WritesFirstSpec
CONSTANTS
  MaxKey = 3
  Size <- MCSize
  H1 <- MCH1
  H2 <- MCH2
  Bits = 4
  Probes = 2
  BlockSize = 3
  MaxBytes = 4
  MaxHeight = 2
  Reader = {r1, r2}
  MaxPuts = 3
  MaxTables = 2
  MaxGets = 2
  MaxDamage = 1
SYMMETRY Symmetry
CHECK_DEADLOCK FALSE
INVARIANTS
  SkipListExact
  GetExact
  WalkExact
  CacheBounded
