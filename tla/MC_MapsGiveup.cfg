SPECIFICATION Spec
CONSTANTS
  Devs = {d1, d2}
  Wwids = {m1}
  MaxEnv = 3
  Failures = {"load"}
INVARIANTS PathsAlive
CHECK_DEADLOCK FALSE
