\* A creator that is started again.
SPECIFICATION Spec
CONSTANTS
  ClassProcs = {p1}
  PortProcs = {}
  Procs <- AllProcs
  Impl <- ByProgram
  IntMod = 16
  SizeMod = 64
  Sizes = {3}
  Mode = "MUL_READ_MUL_WRITE"
  TRUNK = 1
  SHMMAX = 7
  Deletes = FALSE
  MaxSegs = 1
  MaxMsgs = 1
PROPERTIES ResumeKeeps
