\* LIMIT, MARKET and POST_ONLY orders: what still holds when orders are
\* abandoned in the map.
CONSTANTS
  CAPACITY = 4
  OrderTypes = {"LIMIT", "MARKET", "POST_ONLY"}
  Prices <- MCPrices
  Quantities <- MCQuantities
  PRICE_MIN <- MCPriceMin
  PRICE_MAX <- MCPriceMax
  MaxOrderId = 4
SPECIFICATION Spec
INVARIANT PoolPartition
