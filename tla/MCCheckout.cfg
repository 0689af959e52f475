SPECIFICATION Spec
CONSTANTS
  Orders = {o1, o2}
  Users = {u1}
  Products = {p1}
  Adders = {a1, a2}
  None = None
  KafkaConfigured = TRUE
  SafeAmounts = FALSE
  MaxItems = 2
INVARIANTS
  TypeOK
  ShippedWasCharged
  AnnouncedWasShipped
  ReplyTellsOutcome
  NothingVanishes
  NothingShippedTwice
CHECK_DEADLOCK FALSE
