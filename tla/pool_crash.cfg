SPECIFICATION FairSpec
CONSTANTS
  v1 = v1
  v2 = v2
  v3 = v3
  NoVolume = NoVolume
  Volume = {v1, v2}
  Client = {c1}
  Creator = {k1}
  Remover = {x1}
  Releaser = {r1}
  MaxIdleDisk = 1
  Loaded <- OneLoaded
  MaxCrashes = 1
  MayReboot = FALSE
  OpenMayFail = FALSE
CHECK_DEADLOCK FALSE
INVARIANTS IdleReady CrashSafe ReadyInv
PROPERTY Answered
