SPECIFICATION ProducerSpec
CONSTANTS
  c1 = c1
  c2 = c2
  c3 = c3
  Calls <- MCCalls
  Overloads <- MCOverloads
  PipelineCap = 1
  EventCap = 1
INVARIANTS
  EventsAccountedFor
  WaitsInVainOnlyAfterDrain
  ClogsOnlyAfterLeaks
PROPERTY PlaceOrderReturns
CHECK_DEADLOCK FALSE
