SPECIFICATION FairSpec
CONSTANTS
  Op <- MostKinds
  MaxSignals = 2
CHECK_DEADLOCK FALSE
INVARIANT TypeOK
PROPERTIES NoneStarted LoneAwaited JoinEnds
