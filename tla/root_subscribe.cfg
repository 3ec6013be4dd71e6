SPECIFICATION FairSpec
CONSTANTS
  s1 = s1
  s2 = s2
  s3 = s3
  c1 = c1
  c2 = c2
  Sensors = {s1, s2, s3}
  HasEvent = {s1, s2}
  Clients = {c1, c2}
  Requests = {r1, r2}
  Queries <- OneOfEach
  Nobody = Nobody
  MaxIdx = 4
INVARIANTS TypeOK AnswerHonest OnlyAsked
PROPERTIES ServiceSpec
