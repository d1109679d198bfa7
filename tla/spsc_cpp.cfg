\* cpp-cpp: one writer and one reader process, no locks.
SPECIFICATION Spec
CONSTANTS
  Writers = {w1}
  Readers = {r1}
  Impl <- AllCpp
  Mode = "ONE_READ_ONE_WRITE"
  LockPtr <- NoProc
  L = 8
  HDR = 2
  EXTRA = 2
  IntMod = 16
  SizeMod = 64
  Lens = {0, 1, 2, 4}
  GarbageLens = {0}
  Ops = {"get", "peek", "del"}
  MaxSend = 4
  NoMsg = NoMsg
  Torn = Torn
INVARIANTS TypeOK NoOverwrite Chained UnreadIntact NoSequenceError
PROPERTIES ImplementsFifo
