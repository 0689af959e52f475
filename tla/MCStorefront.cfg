SPECIFICATION MCSpec
CONSTANTS
  Tabs = {t1, t2}
  Watched = t1
  MaxUsers = 2
  Currencies = {USD, EUR}
  DefaultCurrency = USD
  NoSession = NoSession
  NoData = NoData
  NoPress = NoPress
  Products = {p}
  Slots = {s1, s2}
  MaxPresses = 4
  MaxSwitching = 2
  PhoneCalls = {k1, k2}
  MaxLaunches = 3
  NoCall = NoCall
SYMMETRY Symmetry
INVARIANTS
  OneShopper
  ViewFresh
  ShippedOnce
  HiddenOrderHasCause
  OnePhoneUser
CHECK_DEADLOCK FALSE
