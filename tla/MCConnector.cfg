SPECIFICATION PartSpec
CONSTANTS
  b1 = b1
  b2 = b2
  x = x
  y = y
  grp = grp
  dm = dm
  p = p
  q = q
  l = l
  None = None
  Bots = {b1, b2}
  Conns = {k1, k2}
  Keys = {x, y}
  Chans = {grp, dm}
  Dms = {dm}
  Ids = {p, q}
  Loops = {l}
  Msgs <- TheMsgs
  Members <- TheMembers
  Invites <- TheInvites
  Kinds <- TheKinds
  Tables <- TheTables
  PageSize = 1
  MaxSeen = 1
  DropSeen = 1
  MaxDelivered = 2
  DropDelivered = 1
  MaxPosts = 2
  MaxFills = 1
  MaxFaults = 1
  MaxArrivals = 2
  MaxSends = 1
INVARIANTS TypeOK HandedOnce FrontedIsCurrent DeliveredOnce
PROPERTIES Online Drains
CHECK_DEADLOCK FALSE
