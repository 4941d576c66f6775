SPECIFICATION Spec
CONSTANTS
  v1 = v1
  v2 = v2
  v3 = v3
  NoVolume = NoVolume
  Volume = {v1, v2}
  Client = {c1, c2}
  Creator = {}
  Remover = {}
  Releaser = {r1}
  MaxIdleDisk = 2
  Loaded <- TwoLoaded
  MaxCrashes = 0
  MayReboot = FALSE
  OpenMayFail = TRUE
CHECK_DEADLOCK FALSE
INVARIANTS TypeOK UsedWasMounted SentIsDetached FilePersisted
