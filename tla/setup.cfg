SPECIFICATION Spec
CONSTANTS
  d1 = d1
  d2 = d2
  f1 = f1
  f2 = f2
  Setups <- SomeSetups
  Names <- NameSet
  Formats <- FormatSet
  Files = {f1, f2}
  Dirs = {d1, d2}
  Cwd = d1
INVARIANTS TypeOK VerbsLive Verdict Complete FilesFound
PROPERTIES CodecsStay
CHECK_DEADLOCK FALSE
