SPECIFICATION Spec
CONSTANTS
  NanosMod = 10
  MaxQuantity = 4
  Currency = "USD"
  Orders <- TwoCheapItems
  ShippingCosts <- PaidShipping
INVARIANT SumsStayValid
CHECK_DEADLOCK FALSE
