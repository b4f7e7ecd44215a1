\* LIMIT, IOC and FOK orders: everything the book promises.
CONSTANTS
  CAPACITY = 4
  OrderTypes = {"LIMIT", "IOC", "FOK"}
  Prices <- MCPrices
  Quantities <- MCQuantities
  PRICE_MIN <- MCPriceMin
  PRICE_MAX <- MCPriceMax
  MaxOrderId = 5
SPECIFICATION FairSpec
INVARIANTS TypeOK PoolPartition NotCrossed LevelsListOrders LevelTotals BboCurrent
PROPERTIES ImplementsEngine CallsReturn
