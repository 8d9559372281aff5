SPECIFICATION Spec
CONSTANTS
  Devs = {d1, d2}
  Wwids = {m1, m2}
  MaxEnv = 3
  Failures = {"setup", "table", "status", "flush", "info"}
SYMMETRY const_Sym
INVARIANTS TablesSound
PROPERTIES NoStray
CHECK_DEADLOCK FALSE
