\* LIMIT and POST_ONLY orders: the level totals that price_level.hpp documents.
CONSTANTS
  CAPACITY = 4
  OrderTypes = {"LIMIT", "POST_ONLY"}
  Prices <- MCPrices
  Quantities <- MCQuantities
  PRICE_MIN <- MCPriceMin
  PRICE_MAX <- MCPriceMax
  MaxOrderId = 4
SPECIFICATION Spec
INVARIANT LevelTotals
