\* Two writers and two readers of the class, on the semaphore sets of their locks;
\* the program that creates the queue is through InitLock before the others start.
SPECIFICATION SemSpec
CONSTANTS
  Writers = {w1, w2}
  Readers = {r1, r2}
  Impl <- AllCpp
  Mode = "MUL_READ_MUL_WRITE"
  LockPtr <- EveryProc
  L = 8
  HDR = 1
  EXTRA = 1
  IntMod = 64
  SizeMod = 256
  Lens = {2, 3}
  GarbageLens = {0}
  Ops = {"get", "peek"}
  MaxSend = 1
  Simultaneous = FALSE
  NoMsg = NoMsg
  Torn = Torn
SYMMETRY Symmetry
INVARIANTS OneSender OneReceiver UnreadIntact
PROPERTIES ImplementsFifo ImplementsShmQueue
