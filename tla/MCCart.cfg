SPECIFICATION MCSpec
CONSTANTS
  Users = {u1, u2}
  SerialUsers = {u2}
  Products = {p1, p2}
  Quantities = {1}
  Handlers = {h1, h2, h3}
  NoCart = NoCart
  NoUser = NoUser
  NoItem = NoItem
  Threads = {t1, t2}
  MaxFailures = 2
  MaxMisses = 1
  NoThread = NoThread
INVARIANTS
  OneLinePerProduct
  NothingAddedTwice
  CartsExpire
  OneConnectionPerLoss
PROPERTIES
  ImplementsCart
  CallsGetThrough
SYMMETRY Symmetry
CHECK_DEADLOCK FALSE
