SPECIFICATION Spec
CONSTANTS
  PRICE_INVALID = PRICE_INVALID
  HalfSpread = 1
  InventorySkew = 1
  PositionLimit = 2
  QuoteQty = 2
  kMaxOrders = 8
  kMaxLevels = 8
  NoisePrices = {3, 5}
  NoiseQtys = {1, 2}
  Mid = 4
  NEvents = 6
  kRequoteEvery = 3
  InboundBound = 2
  OutboundBound = 2
  MayTimeOut = FALSE
INVARIANT InventoryExact
