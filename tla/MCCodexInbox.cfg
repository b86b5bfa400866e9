SPECIFICATION FairSpec
CONSTANTS
  a = a
  b = b
  m1 = m1
  m2 = m2
  m3 = m3
  Chans = {a}
  Msgs = {m1, m2, m3}
  Chan <- OneChannel
  Addressed = {m1, m3}
  Members = {}
  Cap = 1
  PageSize = 2
  Ties = FALSE
  MaxStarts = 2
INVARIANTS PassedMeansTaken
PROPERTIES Recovered
