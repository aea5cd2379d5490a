SPECIFICATION FairSpec
CONSTANTS
  o1 = o1
  o2 = o2
  o3 = o3
  o4 = o4
  OrderIds = {o1, o2, o3, o4}
  NoOrder = NoOrder
  Streams <- MCEveryType
  Callers <- MCEveryProgram
  InboundBound = 2
  OutboundBound = 1
INVARIANTS TypeOK NothingLost FirstFillTimed AcceptedProcessed LogComplete
PROPERTY CallsReturn
