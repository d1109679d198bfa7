----------------------------- MODULE MCSemQueue -----------------------------
(***************************************************************************)
(* Instances of SemQueue for TLC.                                          *)
(***************************************************************************)
EXTENDS SemQueue, TLC

AllCpp == [p \in Procs |-> "cpp"]

EveryProc == Procs

Symmetry == Permutations(Writers) \cup Permutations(Readers)
=============================================================================
