\* Two orders, faults anywhere, one reader.
CONSTANTS
  p1 = p1
  p2 = p2
  None = None
  Products = {p1, p2}
  Offers <- MCOffers
  Prices <- MCPrices
  Carts <- MCCarts
  MaxTime = 2
  MaxOrders = 2
  MaxInt = 7
  PageSize = 1
  Faults = TRUE
SPECIFICATION Spec
CHECK_DEADLOCK FALSE
PROPERTIES DealPriceWhileRunning
