SPECIFICATION PartSpec
CONSTANTS
  None = None
  c1 = c1
  d2 = d2
  Threads = {t1}
  Modes = {m1}
  Items = {i1}
  MaxTurns = 2
  MaxWire = 2
  Letters = {l1, l2}
  Hosts = {h1, h2}
  Pages = 2
  Bots = {b1}
  Entries = {e1, e2}
  Pids = {1, 2}
  Sessions = {s1, s2}
  Games = {g1}
  Ports = 2
  MaxWakes = 3
  Channels = {c1, c2}
  Mail = {n1, n2}
  Wanted <- TheWanted
  MaxTasks = 2
  MaxLosses = 2
  Procs = {p1, p2}
  Docs = {d1, d2}
  Personal <- ThePersonal
  MaxVersion = 2
  MaxCalls = 2
  g = g
  dm = dm
  Chans = {g, dm}
  Asked <- TheAsked
  Direct <- TheDirect
  Posts <- ThePosts
  PageSize = 1
  FirstSize = 1
  MaxStreams = 1
  MaxPosts = 2
  MaxRuns = 2
INVARIANTS PartTypes OwnAnswer SentOnce OneWorker TurnsInOrder CacheHonest ToldTruth WakesPrinted
PROPERTIES Joined
CHECK_DEADLOCK FALSE
