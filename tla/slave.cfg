SPECIFICATION FairSpec
CONSTANTS
  Requests = {r1, r2}
  Config = Config
  Onconfs <- AllOnconfs
  MaxBoots = 2
INVARIANTS TypeOK ConfigInOrder DownMeansLost AdminHonest
PROPERTIES ConfigEnds ServiceSpec
