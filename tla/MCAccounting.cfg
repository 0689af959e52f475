SPECIFICATION Spec
CONSTANTS
  Orders = {o1, o2, o3}
  NoAddress = {o3}
  MaxLog = 4
  MaxCrashes = 2
INVARIANTS
  TypeOK
  ConsumedIsAccountedFor
  PoisonHasCause
  ShipmentsFollowOrders
PROPERTIES
  PoisonStopsStorage
  EverythingConsumed
CHECK_DEADLOCK FALSE
