----------------------------- MODULE MCShmQueue -----------------------------
(***************************************************************************)
(* Instances of ShmQueue for TLC.  The header and the spare bytes are      *)
(* scaled from 8 bytes to 2 (so that a header can straddle the end of the  *)
(* array) or to 1, int to at most 64 values and size_t to at most 256.     *)
(***************************************************************************)
EXTENDS ShmQueue

\* Which program the processes were built from.
AllCpp   == [p \in Procs |-> "cpp"]
CWriters == [p \in Procs |-> IF p \in Writers THEN "c" ELSE "cpp"]

\* Which processes have lock objects.
EveryProc == Procs
NoProc    == {}
=============================================================================
