SPECIFICATION FairSpec
CONSTANTS
  MaxRef = 3
  Refs <- MCRefs
  Prices = {1, 2}
  Shares = {1, 2}
  kMaxOrders = 2
  kMaxLevels = 2
  Modes = {"replay", "replay_late", "no_engine", "live"}
  InboundBound = 2
  MaxMsgs = 4
INVARIANTS TypeOK DepthIsAggregate TranslatorMirrorsRef EngineWithinFeed PriorityKept ExitZeroExact DisagreementHasCause
PROPERTY Terminates
