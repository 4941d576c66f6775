SPECIFICATION FairSpec
CONSTANTS
  k1 = k1
  k2 = k2
  o1 = o1
  Creator = {k1, k2}
  Older = {o1}
  OlderDevice <- FirstTaken
  LastDevice = 2
  MaxTries = 2
  MaxMounts = 1
  MaxTime = 1
CHECK_DEADLOCK FALSE
INVARIANTS TypeOK HoldsCounted MountsOwn DevicesDistinct
PROPERTY WaitsEnd
