SPECIFICATION FairSpec
CONSTANTS
  w1 = w1
  w2 = w2
  w3 = w3
  w4 = w4
  Msgs = {w1, w2, w3}
  MaxPending = 2
  MaxSeen = 2
  MaxWakes = 2
  MaxReloads = 1
INVARIANTS OneLandingPerClaim NothingStranded
PROPERTIES Served
CHECK_DEADLOCK FALSE
