CONSTANTS
  a1 = a1
  a2 = a2
  c1 = c1
  c2 = c2
  v1 = v1
  v2 = v2
  Apps <- OneApp
  Callbacks <- OneCallback
  Vcpus <- OneVcpu
  MaxId = 2
  MaxEvents = 1
  Hwm = 1
  QueueBound = 2
  PauseBound = 1
  MaxTid = 2
  MaxCalls = 2
  Api = {"register", "clear", "clear_stale", "clear_syscall", "clear_timer", "timer", "be", "start_syscall", "stop", "stop_stale", "events_start", "events_stop", "pause_vm", "resume_vm", "exit", "kill"}
  TimerApi = {"register", "timer", "start_syscall"}
  Syncs = {TRUE}
SPECIFICATION Spec
INVARIANTS TypeOK PluginAgreement EventCapacity
PROPERTY OnlyClearEndsVmi
CHECK_DEADLOCK FALSE
