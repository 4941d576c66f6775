SPECIFICATION Spec
CONSTANTS
  c1 = c1
  c2 = c2
  c3 = c3
  Client = {c1, c2, c3}
  Releasing = {c3}
  NPorts = 1
  Fd <- ThreeFds
  MayDie = TRUE
  Prompt = FALSE
CHECK_DEADLOCK FALSE
INVARIANTS TypeOK PortsExclusive PortsAccounted
PROPERTY LeaseKept
SYMMETRY Symmetry
