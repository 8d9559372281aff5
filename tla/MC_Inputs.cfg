SPECIFICATION Spec
CONSTANTS
  Texts <- const_Texts
  Builtin <- const_Builtin
  DeviceEntries <- const_Devices
  MultipathEntries <- const_Multipaths
  OverrideEntries <- const_Overrides
  DefaultEntries <- const_Defaults
  BlEntries <- const_BlEntries
  FilterPaths <- const_FilterPaths
  Products = {"p1", "p2"}
  MapWwids = {"w1", "w2"}
  MaxEntries = 3
  LayerSets <- const_LayerSets
  Hardware <- const_Hardware
  MPaths <- const_MPaths
  Serial <- const_P2
  Node <- const_P3
  Adapter <- const_P3
  HostNo <- const_P2
  MConfs <- const_MConfs
  MPrios = {1, 2}
  MSizes = {0, 8}
  ParamsSize = 30
  MaxMChanges = 2
  Procs = {daemon, multipath}
  BindingsReadOnly = {}
  AWwids <- const_AWwids
  NoLun = "none"
  LetterCount = 2
  IntMax = 6
  MaxDigits = 2
  BindingLines <- const_BindingLines
  MpTable <- const_MpTable
  KernelNames <- const_KernelNames
  MaxRequests = 2
  UxClients = {c1, c2}
  Commands <- const_Commands
  Abbrev <- const_Abbrev
  Root = {c1}
  InitialReplyLen = 2
  MaxReplyLen = 8
  MaxCmdLen = 5
  MaxReconfigs = 1
  BlockDevs = {b1, b2}
  Lun <- const_Lun
  FindMultipaths = "smart"
  ServiceEnabled = FALSE
  FindTimeout = 1
  MaxUevs = 2
  MaxSteps = 3
INVARIANTS
  RoundTrip LoadedRight SelectedRight GroupsFollowPolicy NoReloadTwice BindingsUnique
  RepliesMatch InUseNotHidden
PROPERTIES ClientsServed TimedWaitEnds
CHECK_DEADLOCK FALSE
