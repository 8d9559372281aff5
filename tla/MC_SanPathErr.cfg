SPECIFICATION FairSpec
CONSTANTS
  Prio <- const_Prio
  NPaths = 2
  NoPathRetry = 1
  Checkint = 2
  MaxCheckint = 2
  GroupByPrio = TRUE
  ImplicitTpgs = FALSE
  SanThreshold = 1
  SanForgetRate = 1
  SanRecoveryTime = 2
  Results = {"UP", "DOWN"}
  SyncMayFail = FALSE
  Operator = FALSE
  Reloads = {TRUE, FALSE}
  PgFailback <- const_Immediate
PROPERTIES DelayEnds LastPathNotDelayed
