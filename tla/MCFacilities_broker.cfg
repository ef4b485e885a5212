SPECIFICATION FairSpec
CONSTANTS
  k1 = k1
  k2 = k2
  bad = bad
  ascii = ascii
  wide = wide
  Keys = {bad}
  BadKeys = {bad}
  Values = {ascii}
  Chars <- MCChars
  Bytes <- MCBytes
  MaxDisk = 3
  MaxIo = 1
  MaxDrift = 0
  Faults = {6}
  Messages <- MCMessages
  NoFile = NoFile
  Absent = Absent
  Damaged = Damaged
  Garbled = Garbled
  NoAnswer = NoAnswer
  AppOps = {"notify", "request", "io_set", "io_get"}
  Packets <- MCPackets
  MaxPosts = 2
  MaxUp = 2
  MaxDown = 2
  MaxRuns = 2
  Signals = TRUE
  Hwm = 1
INVARIANTS
  NotificationsInOrder
  RequestsOnce
  DeliveredInOrder
PROPERTY
  NotificationsLeave
CHECK_DEADLOCK FALSE
