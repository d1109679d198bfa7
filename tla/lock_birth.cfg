\* The processes start together: one may attach to the set of a lock
\* while another is between semget and SETALL.
SPECIFICATION SemSpec
CONSTANTS
  Writers = {w1, w2}
  Readers = {r1}
  Impl <- AllCpp
  Mode = "MUL_READ_MUL_WRITE"
  LockPtr <- EveryProc
  L = 4
  HDR = 1
  EXTRA = 1
  IntMod = 16
  SizeMod = 32
  Lens = {1}
  GarbageLens = {0}
  Ops = {"get"}
  MaxSend = 1
  Simultaneous = TRUE
  NoMsg = NoMsg
  Torn = Torn
INVARIANTS OneSender
