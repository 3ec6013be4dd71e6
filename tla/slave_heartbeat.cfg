SPECIFICATION Spec
CONSTANTS
  Requests = {r1}
  Config = Config
  Onconfs <- AllOnconfs
  MaxBoots = 1
INVARIANTS TimeoutDisconnects

