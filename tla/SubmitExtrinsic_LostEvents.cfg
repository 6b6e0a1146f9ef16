CONSTANTS
  b1 = b1  b2 = b2  b3 = b3  e1 = e1  e2 = e2
  NoBlock = NoBlock
  Blocks <- MCBlocks
  EventLists <- MCEventLists
  CaptureEvents = TRUE
  ReliableEvents = FALSE
  NodeMayRefuse = FALSE
SPECIFICATION Spec
INVARIANT EventsOfFinalBlock
CHECK_DEADLOCK FALSE
