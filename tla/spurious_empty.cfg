\* cpp-cpp, no locks: DeleteHeadMessage against a sender that wraps.
SPECIFICATION Spec
CONSTANTS
  Writers = {w1}
  Readers = {r1}
  Impl <- AllCpp
  Mode = "ONE_READ_ONE_WRITE"
  LockPtr <- NoProc
  L = 8
  HDR = 1
  EXTRA = 1
  IntMod = 64
  SizeMod = 256
  Lens = {1, 2}
  GarbageLens = {0}
  Ops = {"del"}
  MaxSend = 4
  NoMsg = NoMsg
  Torn = Torn
PROPERTIES EmptyTruthful
