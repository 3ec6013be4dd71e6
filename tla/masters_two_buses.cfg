SPECIFICATION Spec
CONSTANTS
  Configs <- TwoBuses
  o1 = o1
  o2 = o2
  v1 = v1
  v2 = v2
  Objects = {o1, o2}
  Values = {v1, v2}
  Zero = Zero
  Fits <- ExactFits
  Requests = {r1}
  Queries <- OneGet
  Nobody = Nobody
  Faults = {}
CHECK_DEADLOCK FALSE
INVARIANTS BusesUsable
