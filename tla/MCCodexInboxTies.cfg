SPECIFICATION Spec
CONSTANTS
  a = a
  b = b
  m1 = m1
  m2 = m2
  m3 = m3
  Chans = {a}
  Msgs = {m1, m2, m3}
  Chan <- OneChannel
  Addressed = {m1, m2, m3}
  Members = {a}
  Cap = 2
  PageSize = 2
  Ties = TRUE
  MaxStarts = 2
INVARIANTS PassedMeansTaken
