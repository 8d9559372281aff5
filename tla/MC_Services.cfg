SPECIFICATION Spec
CONSTANTS
  IoPaths = {p1, p2}
  Second = 2
  SampleTime = 2
  IoTimeout = 1
  GapTime = 1
  DoubleFailedTime = 1
  ErrRate = 500
  IoMaxTime = 4
  IoMaxRequests = 1
  PrPaths <- const_PrPaths
  PrHost <- const_PrHost
  AllTgPt = FALSE
  PrKeys = {"k1"}
  PrSource = "file"
  ConfKey = "k1"
  Peer = "peer"
  PeerKey = "kp"
  MaxPrFaults = 1
  DioPaths = {q1, q2}
  AIO_GROUP_SIZE = 2
  AioGroups = {g1, g2}
  AsyncReqs = {r1, r2, r3}
  DioTimeout = 1
  MaxRefs = 3
  Waiters = {w1, w2}
  MaxWtEvents = 2
  MaxWtFaults = 1
SYMMETRY const_Sym
INVARIANTS CheckedIsQueued ReportsTrue AioAccounted
PROPERTIES WaitersSound
CHECK_DEADLOCK FALSE
