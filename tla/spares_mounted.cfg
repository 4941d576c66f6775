SPECIFICATION Spec
CONSTANTS
  v1 = v1
  v2 = v2
  v3 = v3
  NoVolume = NoVolume
  Volume = {v1, v2}
  Client = {}
  Creator = {}
  Remover = {}
  Releaser = {}
  MaxIdleDisk = 2
  Loaded <- TwoLoaded
  MaxCrashes = 1
  MayReboot = TRUE
  OpenMayFail = FALSE
CHECK_DEADLOCK FALSE
INVARIANT SparesMounted
