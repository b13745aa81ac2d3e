SPECIFICATION Spec
CONSTANTS
  p1 = p1
  p2 = p2
  g1 = g1
  k1 = k1
  k2 = k2
  x = x
  y = y
  z = z
  Nil = Nil
  Put <- MCPut
  Get <- MCGet
  Key <- MCKey
  Command <- MCCommand
  Data <- MCData
  KeyOf <- MCKeyOf
  KeyRead <- MCKeyRead
  Linger = TRUE
  MaxBatchSize = 2
  SnapshotThreshold = 2
  ChanSize = 1
  MaxIndex = 2
  Scenarios <- MCScenarios
INVARIANTS
  AckedIsChosen
  AnsweredOnce
  EngineReflectsLog
  SnapshotReflectsLog
  ReadSeesIndex
PROPERTIES
  EveryCallReturns
  BatchIsSubmitted
CHECK_DEADLOCK FALSE
