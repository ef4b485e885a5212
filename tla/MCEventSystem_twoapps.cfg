CONSTANTS
  a1 = a1
  a2 = a2
  c1 = c1
  c2 = c2
  v1 = v1
  v2 = v2
  Apps <- TwoApps
  Callbacks <- OneCallback
  Vcpus <- OneVcpu
  MaxId = 1
  MaxEvents = 1
  Hwm = 2
  QueueBound = 2
  PauseBound = 1
  MaxTid = 1
  MaxCalls = 1
  Api = {"register", "clear", "start_syscall", "stop", "events_start", "exit", "kill"}
  TimerApi = {}
  Syncs = {TRUE, FALSE}
SPECIFICATION Spec
INVARIANTS PauseBalance RegistryAgreement
PROPERTY OnlyOwnerRemoves
SYMMETRY Symmetry
CHECK_DEADLOCK FALSE
