SPECIFICATION Spec
CONSTANTS
  Op <- TwoKinds
  MaxSignals = 1
CHECK_DEADLOCK FALSE
INVARIANT Graceful
