SPECIFICATION Spec
CONSTANTS
  p1 = p1
  s1 = s1
  s2 = s2
  dflt = dflt
  second = second
  agA = agA
  agB = agB
  None = None
  Procs = {p1}
  Sessions = {s1, s2}
  Profiles = {dflt, second}
  Agents = {agA, agB}
  Default = dflt
  Launches <- PinnedLaunches
  Files <- TheFiles
  Edits <- TheEdits
  MaxCalls = 2
INVARIANTS AlarmIsNotLearned
