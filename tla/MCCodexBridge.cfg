SPECIFICATION FairSpec
CONSTANTS
  m1 = m1
  t1 = t1
  t2 = t2
  noTick = noTick
  loopTick = loopTick
  Msgs <- MCMsgs
  Tick <- MCTick
  NoTick = noTick
  Cap = 2
  MaxStarts = 3
INVARIANTS AtMostOneReply OneTurnPerTask JournalTruthful NothingStranded ArrivalOrder
PROPERTIES KeepsPromise FillsIntake AcceptedSettles
