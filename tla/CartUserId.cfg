SPECIFICATION Spec
CONSTANTS
  Users = {u1, u2}
  SerialUsers = {u2}
  Products = {p1, p2}
  Quantities = {1}
  Handlers = {h1, h2, h3}
  NoCart = NoCart
  NoUser = NoUser
  NoItem = NoItem
INVARIANT CartCarriesUserId
CHECK_DEADLOCK FALSE
