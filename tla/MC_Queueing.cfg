SPECIFICATION FairSpec
CONSTANTS
  Prio <- const_Prio
  NPaths = 2
  NoPathRetry = 1
  Checkint = 2
  MaxCheckint = 2
  GroupByPrio = FALSE
  ImplicitTpgs = FALSE
  SanThreshold = 0
  SanForgetRate = 0
  SanRecoveryTime = 0
  Results = {"UP", "DOWN", "PENDING"}
  SyncMayFail = TRUE
  Operator = TRUE
  Reloads = {}
  PgFailback <- const_Manual
INVARIANTS RecoverySound
PROPERTIES DisableTakesEffect QueueingRestored
