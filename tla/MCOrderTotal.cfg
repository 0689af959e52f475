SPECIFICATION Spec
CONSTANTS
  NanosMod = 10
  MaxQuantity = 4
  Currency = "USD"
  Orders <- MCOrders
  ShippingCosts <- MCShippingCosts
INVARIANTS
  TotalIsExact
  SafeOrderNeverPanics
  SafeTotalIsValid
  PageTotalIsCharged
PROPERTY PricingEnds
CHECK_DEADLOCK FALSE
