SPECIFICATION Spec
CONSTANTS
  Kinds = {"RPDO"}
  Requests = {r1, r2, r3}
  c1 = c1
  Clients = {c1}
  b1 = b1
  b9 = b9
  b33 = b33
  Bits = {b1}
  WordBits = {b1}
  LowBits = {b1}
  Queries <- RpdoQueries
  Nobody = Nobody
  MaxOps = 1
INVARIANTS SubscribedIsActive
