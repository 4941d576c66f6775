SPECIFICATION Spec
CONSTANTS
  v1 = v1
  v2 = v2
  v3 = v3
  NoVolume = NoVolume
  Volume = {v1}
  Client = {c1, c2}
  Creator = {}
  Remover = {}
  Releaser = {}
  MaxIdleDisk = 1
  Loaded <- OneLoaded
  MaxCrashes = 0
  MayReboot = FALSE
  OpenMayFail = FALSE
CHECK_DEADLOCK FALSE
PROPERTY UsedIsLeftAlone
