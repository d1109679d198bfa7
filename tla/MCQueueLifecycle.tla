-------------------------- MODULE MCQueueLifecycle --------------------------
(***************************************************************************)
(* Instances of QueueLifecycle for TLC: int has 16 values and size_t 64,   *)
(* so that a size above 16 is one above 2^32 in the program; the trunk     *)
(* takes one byte.                                                         *)
(***************************************************************************)
EXTENDS QueueLifecycle

CONSTANTS ClassProcs, PortProcs

AllProcs == ClassProcs \cup PortProcs

ByProgram == [p \in AllProcs |-> IF p \in ClassProcs THEN "cpp" ELSE "c"]

=============================================================================
