\* A C (Python) sender and a C++ receiver, no locks: the space check against a
\* receiver that wraps while another frame is unread.
SPECIFICATION Spec
CONSTANTS
  Writers = {w1}
  Readers = {r1}
  Impl <- CWriters
  Mode = "ONE_READ_ONE_WRITE"
  LockPtr <- NoProc
  L = 8
  HDR = 1
  EXTRA = 1
  IntMod = 64
  SizeMod = 256
  Lens = {2, 5}
  GarbageLens = {0}
  Ops = {"get"}
  MaxSend = 4
  NoMsg = NoMsg
  Torn = Torn
INVARIANTS UnreadIntact
