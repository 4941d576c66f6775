SPECIFICATION UseSpec
CONSTANTS
  s1 = s1
  Maker = {k1, k2, k3}
  Creator = {c1}
  Stored <- NoneStored
  MaxNumber = 1
  Freq = 1
  MaxTime = 1
  MaxCrashes = 1
  OpenMayFail = TRUE
CHECK_DEADLOCK FALSE
SYMMETRY MakerSymmetry
INVARIANTS TypeOK Bounded HeadExists ListedExist LatestUsable
