SPECIFICATION Spec
CONSTANTS
  k1 = k1
  k2 = k2
  bad = bad
  ascii = ascii
  wide = wide
  Keys = {k1, k2}
  BadKeys = {}
  Values = {ascii, wide}
  Chars <- MCChars
  Bytes <- MCBytes
  MaxDisk = 3
  MaxIo = 3
  MaxDrift = 0
  Faults = {0, 1, 2, 3, 6, 7}
  Messages <- MCMessages
  NoFile = NoFile
  Absent = Absent
  Damaged = Damaged
  Garbled = Garbled
  NoAnswer = NoAnswer
  AppOps = {"post"}
  Packets <- MCPackets
  MaxPosts = 1
  MaxUp = 0
  MaxDown = 0
  MaxRuns = 2
  Signals = TRUE
  Hwm = 1
SYMMETRY KeySymmetry
INVARIANTS
  TypeOK
  IndexSound
  DiskCharged
  QuotaHonoured
PROPERTY
  ImplementsStore
CHECK_DEADLOCK FALSE
