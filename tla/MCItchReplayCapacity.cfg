SPECIFICATION Spec
CONSTANTS
  MaxRef = 3
  Refs <- MCRefs
  Prices = {1, 2}
  Shares = {1, 2}
  kMaxOrders = 2
  kMaxLevels = 2
  Modes = {"replay_late"}
  InboundBound = 2
  MaxMsgs = 3
INVARIANT OverflowReported
