SPECIFICATION Spec
CONSTANTS
  w1 = w1
  w2 = w2
  w3 = w3
  w4 = w4
  Msgs = {w1, w2, w3, w4}
  MaxPending = 2
  MaxSeen = 3
  MaxWakes = 1
  MaxReloads = 0
PROPERTIES OnlyOverflowDrops
