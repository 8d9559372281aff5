SPECIFICATION FairSpec
CONSTANTS
  NPaths = 2
  Prio <- const_Prio
  NoPathRetry = 1
  Checkint = 2
  MaxCheckint = 2
  PgFailback <- const_Manual
  GroupByPrio = FALSE
  ImplicitTpgs = FALSE
  SanThreshold = 0
  SanForgetRate = 0
  SanRecoveryTime = 0
  Results = {"UP", "DOWN"}
  SyncMayFail = FALSE
  Operator = FALSE
  Reloads = {TRUE, FALSE}
PROPERTIES RetryEnds
