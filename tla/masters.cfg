SPECIFICATION FairSpec
CONSTANTS
  Configs <- AnyBuses
  o1 = o1
  o2 = o2
  v1 = v1
  v2 = v2
  Objects = {o1, o2}
  Values = {v1, v2}
  Zero = Zero
  Fits <- ExactFits
  Requests = {r1, r2}
  Queries <- Gets
  Nobody = Nobody
  Faults = {"create", "spurious"}
CHECK_DEADLOCK FALSE
INVARIANTS TypeOK NothingUndefined ServesAll GetAllOrNothing ArrayReleased
PROPERTIES ExecStarts
