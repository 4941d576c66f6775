SPECIFICATION SyncSpec
CONSTANTS
  v1 = v1
  v2 = v2
  NoVolume = NoVolume
  Volume = {v1, v2}
  Client = {}
  Creator = {}
  Remover = {x1}
  Releaser = {}
  MaxIdleDisk = 1
  Loaded <- TwoLoaded
  MaxCrashes = 1
  MayReboot = TRUE
  OpenMayFail = TRUE
  Periodic = {p1, p2}
  Requested = {q1}
  Interval = 1
  MaxTime = 1
CHECK_DEADLOCK FALSE
SYMMETRY PassSymmetry
INVARIANTS Overlap DateNotAhead PassReaches
