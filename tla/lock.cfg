\* The process that creates the set is done before another one attaches.
SPECIFICATION LiveSpec
CONSTANTS
  Procs = {p1, p2, p3, p4}
  Simultaneous = FALSE
INVARIANTS Exclusion Balanced
PROPERTIES ImplementsRWLock ReadersServed
