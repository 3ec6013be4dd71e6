SPECIFICATION MCSpec
CONSTANTS
  Kinds = {"SDO", "RPDO", "TPDO"}
  Requests = {r1, r2}
  c1 = c1
  Clients = {c1}
  b1 = b1
  b9 = b9
  b33 = b33
  Bits = {b1, b9, b33}
  WordBits = {b1, b9}
  LowBits = {b1}
  Queries <- AllQueries
  Nobody = Nobody
  MaxOps = 1
INVARIANTS TypeOK RequestHeld ReadFresh
PROPERTIES ServiceSpec WriteLands EventQuiesces
CHECK_DEADLOCK FALSE
