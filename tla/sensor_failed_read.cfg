SPECIFICATION Spec
CONSTANTS
  Kinds = {"SDO"}
  Requests = {r1}
  c1 = c1
  Clients = {c1}
  b1 = b1
  b9 = b9
  b33 = b33
  Bits = {b1}
  WordBits = {b1}
  LowBits = {b1}
  Queries <- AllQueries
  Nobody = Nobody
  MaxOps = 1
INVARIANTS FailedReadReported
CHECK_DEADLOCK FALSE
