\* ReadHeadMessage of the C++ class on a queue whose mode has no reading lock.
SPECIFICATION Spec
CONSTANTS
  Writers = {w1}
  Readers = {r1}
  Impl <- AllCpp
  Mode = "ONE_READ_ONE_WRITE"
  LockPtr <- NoProc
  L = 4
  HDR = 1
  EXTRA = 1
  IntMod = 16
  SizeMod = 32
  Lens = {1, 2}
  GarbageLens = {0}
  Ops = {"peek"}
  MaxSend = 4
  NoMsg = NoMsg
  Torn = Torn
INVARIANTS NoFault
