SPECIFICATION FairSpec
CONSTANTS
  c1 = c1
  c2 = c2
  c3 = c3
  Client = {c1, c2}
  Releasing = {}
  NPorts = 1
  Fd <- FourFds
  MayDie = TRUE
  Prompt = FALSE
CHECK_DEADLOCK FALSE
PROPERTY Dispatched
