SPECIFICATION ScenarioSpec
CONSTANTS
  Sender = {a, b}
  NoOne = NoOne
  Room = 3
  Buffer = 1
  MaxSends = 3
  MaxDials = 2
  MaxBreaks = 1
CHECK_DEADLOCK FALSE
INVARIANTS
  FramesWhole
  DeliveredInOrder
  NothingLeaks
  NoSendOnClosed
PROPERTIES
  SendReturns
  CloseReturns
