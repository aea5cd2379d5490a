SPECIFICATION FairSpec
CONSTANTS
  PRICE_INVALID = PRICE_INVALID
  HalfSpread = 1
  InventorySkew = 1
  PositionLimit = 3
  QuoteQty = 2
  kMaxOrders = 8
  kMaxLevels = 8
  NoisePrices = {2, 5}
  NoiseQtys = {1, 2}
  Mid = 4
  NEvents = 5
  kRequoteEvery = 2
  InboundBound = 2
  OutboundBound = 2
  MayTimeOut = TRUE
INVARIANTS TypeOK QuoteOnSettledMarket PositionWithinLimit NoSelfTrade NeverOverbooked
PROPERTIES ProfitIsCashFlow DemoEnds
