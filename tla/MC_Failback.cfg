SPECIFICATION FairSpec
CONSTANTS
  Prio <- const_Prio
  NPaths = 2
  NoPathRetry = 1
  Checkint = 2
  MaxCheckint = 3
  GroupByPrio = FALSE
  ImplicitTpgs = TRUE
  SanThreshold = 0
  SanForgetRate = 0
  SanRecoveryTime = 0
  Results = {"UP", "GHOST", "DOWN", "PENDING"}
  SyncMayFail = FALSE
  Operator = FALSE
  Reloads = {}
  PgFailback = 2
INVARIANTS BadPathsCheckedSoon
PROPERTIES RetryEnds FailbackHappens
