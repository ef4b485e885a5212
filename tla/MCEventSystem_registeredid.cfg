CONSTANTS
  a1 = a1
  a2 = a2
  c1 = c1
  c2 = c2
  v1 = v1
  v2 = v2
  Apps <- OneApp
  Callbacks <- OneCallback
  Vcpus <- OneVcpu
  MaxId = 1
  MaxEvents = 1
  Hwm = 2
  QueueBound = 2
  PauseBound = 1
  MaxTid = 1
  MaxCalls = 3
  Api = {"register", "clear", "events_start", "timer"}
  TimerApi = {"register"}
  Syncs = {FALSE}
SPECIFICATION Spec
INVARIANT RegisteredIdUsable
CHECK_DEADLOCK FALSE
