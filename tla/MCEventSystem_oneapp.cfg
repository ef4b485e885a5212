CONSTANTS
  a1 = a1
  a2 = a2
  c1 = c1
  c2 = c2
  v1 = v1
  v2 = v2
  Apps <- OneApp
  Callbacks <- OneCallback
  Vcpus <- TwoVcpus
  MaxId = 1
  MaxEvents = 1
  Hwm = 2
  QueueBound = 2
  PauseBound = 1
  MaxTid = 1
  MaxCalls = 2
  Api = {"register", "clear", "start_syscall", "stop", "events_start", "events_stop", "timer", "be"}
  TimerApi = {"clear", "stop"}
  Syncs = {TRUE, FALSE}
SPECIFICATION FairSpec
INVARIANTS PauseBalance RegistryAgreement
PROPERTY GuestResumes
CHECK_DEADLOCK FALSE
