SPECIFICATION MCSpec
CONSTANTS
  Items = {a, b}
  NoItem = NoItem
  kCapacity = 4
  MaxPush = 9
INVARIANTS TypeOK NoDataRace RefusalsExact
PROPERTIES ImplementsFifo
