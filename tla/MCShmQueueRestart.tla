------------------------- MODULE MCShmQueueRestart -------------------------
(***************************************************************************)
(* Instances of ShmQueueRestart for TLC.                                   *)
(***************************************************************************)
EXTENDS ShmQueueRestart

\* Which program the processes were built from.
CReaders == [p \in Procs |-> IF p \in Readers THEN "c" ELSE "cpp"]

NoProc == {}

\* Every length garbage bytes could decode to.
AnyLength == 0..(SizeMod - 1)
=============================================================================
