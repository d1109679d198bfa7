\* A process of the C port in a mode with locks.
SPECIFICATION Spec
CONSTANTS
  ClassProcs = {}
  PortProcs = {p1}
  Procs <- AllProcs
  Impl <- ByProgram
  IntMod = 16
  SizeMod = 64
  Sizes = {3}
  Mode = "MUL_READ_MUL_WRITE"
  TRUNK = 1
  SHMMAX = 7
  Deletes = FALSE
  MaxSegs = 1
  MaxMsgs = 1
INVARIANTS PortHasLocks
