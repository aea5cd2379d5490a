SPECIFICATION Spec
CONSTANTS
  o1 = o1
  o2 = o2
  o3 = o3
  o4 = o4
  OrderIds = {o1, o2, o3, o4}
  NoOrder = NoOrder
  Streams <- MCFourMessages
  Callers <- MCBench
  InboundBound = 2
  OutboundBound = 2
INVARIANT StopExhaustsOutbound
