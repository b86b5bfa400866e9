SPECIFICATION Spec
CONSTANTS
  a = a
  r1 = r1
  Chans = {a}
  MaxPosts = 3
  Chan <- OneChannel
  PageSize = 2
  Runs = {r1}
  MaxStarts = 2
INVARIANTS MissedIsFound
