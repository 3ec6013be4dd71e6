SPECIFICATION FairSpec
CONSTANTS
  s1 = s1
  s2 = s2
  s3 = s3
  c1 = c1
  c2 = c2
  Sensors = {s1, s2, s3}
  HasEvent = {s1, s2}
  Clients = {c1}
  Requests = {r1, r2}
  Queries <- EmptyArray
  Nobody = Nobody
  MaxIdx = 4
PROPERTIES ArrayAnswered
