SPECIFICATION FairSpec
CONSTANTS
  Maps = {m1, m2}
  UevTimeout = 2
  SeqMod = 2
  MaxEnv = 2
  LoadMayFail = TRUE
  Spurious = TRUE
INVARIANTS TypeOK VecsExclusive
PROPERTIES ShutdownSticky QuietReconfigure ConfigureEnds ShutdownCompletes
