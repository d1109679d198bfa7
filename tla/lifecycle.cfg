\* A C++ program and a Python program that start, restart and die, with sizes that
\* differ, cannot be had, or leave the range of Fls, and destroy their objects.
SPECIFICATION Spec
CONSTANTS
  ClassProcs = {p1}
  PortProcs = {p2}
  Procs <- AllProcs
  Impl <- ByProgram
  IntMod = 16
  SizeMod = 64
  Sizes = {3, 6, 16, 17}
  Mode = "MUL_READ_MUL_WRITE"
  TRUNK = 1
  SHMMAX = 9
  Deletes = TRUE
  MaxSegs = 2
  MaxMsgs = 1
INVARIANTS TypeOK RingInSegment OneSegment QueuePersists ClassHasLocks RoundsUp
