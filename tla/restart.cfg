\* A C++ sender and a C (Python) receiver, and programs that create the queue again.
SPECIFICATION RestartSpec
CONSTANTS
  Writers = {w1}
  Readers = {r1}
  Impl <- CReaders
  Mode = "ONE_READ_ONE_WRITE"
  LockPtr <- NoProc
  L = 4
  HDR = 1
  EXTRA = 1
  IntMod = 16
  SizeMod = 32
  Lens = {1, 2}
  GarbageLens <- AnyLength
  Ops = {"get", "del"}
  MaxSend = 2
  MaxStarts = 2
  MaxDeaths = 1
  NoMsg = NoMsg
  Torn = Torn
INVARIANTS NoFault
PROPERTIES ImplementsRestartableFifo Recovers
