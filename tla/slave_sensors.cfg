SPECIFICATION FairSpec
CONSTANTS
  b1 = b1
  x = x
  c1 = c1
  r1 = r1
  r2 = r2
  Ids = {x}
  Slaves <- SomeSlaves
  Requests = {r1, r2}
  Clients = {c1}
  Bits = {b1}
  WordBits = {b1}
  LowBits = {b1}
  Asks <- SlaveAsks
  Nobody = Nobody
  MaxOps = 1
  MaxBoots = 1
INVARIANTS TypeOK FirstItemFirst
PROPERTIES SensorsSpec DriverSpec LastNotified EventsDelivered
CHECK_DEADLOCK FALSE
