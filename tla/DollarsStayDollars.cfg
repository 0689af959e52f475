SPECIFICATION PricesSpec
CONSTANTS
  NanosMod = 1000
  Rate <- MCRate
  UnknownCodes = {"XXX"}
  Prices <- MCPrices
  Quotes <- MCQuotes
INVARIANTS
  DollarsStayDollars
