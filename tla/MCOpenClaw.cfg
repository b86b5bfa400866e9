SPECIFICATION FairSpec
CONSTANTS
  s1 = s1
  s2 = s2
  s3 = s3
  NoStart = NoStart
  Starts = {s1, s2, s3}
  BadFrames = {s1, s2}
ACTION_CONSTRAINT Bounded
INVARIANTS OneClient Subscribed
PROPERTIES Reconnects StopCompletes
CHECK_DEADLOCK FALSE
