SPECIFICATION FairSpec
CONSTANTS
  Maps = {m1}
  UevTimeout = 2
  SeqMod = 2
  MaxEnv = 1
  LoadMayFail = FALSE
  Spurious = FALSE
PROPERTIES DelayedReconfigureHappens
