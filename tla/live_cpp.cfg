\* Two senders that retry on a full ring and a receiver that polls.
SPECIFICATION LiveSpec
CONSTANTS
  Writers = {w1, w2}
  Readers = {r1}
  Impl <- AllCpp
  Mode = "ONE_READ_MUL_WRITE"
  LockPtr <- EveryProc
  L = 8
  HDR = 1
  EXTRA = 1
  IntMod = 64
  SizeMod = 256
  Lens = {1, 2}
  GarbageLens = {0}
  Ops = {"get"}
  MaxSend = 2
  NoMsg = NoMsg
  Torn = Torn
PROPERTIES CallsReturn AllDelivered EmptyTruthful
