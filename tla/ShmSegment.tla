----------------------------- MODULE ShmSegment -----------------------------
(***************************************************************************)
(* System V shared memory as CreateShareMem and DestroyShareMem use it, for *)
(* one key: segments with their identifiers, the identifier the key leads  *)
(* to, and which segment each process has attached.  Linux does not reuse  *)
(* identifiers; a removed segment loses its key at once and goes away with *)
(* its last user, and until then can still be attached by its identifier.  *)
(***************************************************************************)
EXTENDS Integers

CONSTANTS
  Procs,    \* the processes
  MaxSegs,  \* bound: segments created in one behaviour
  SHMMAX,   \* the largest segment the kernel creates
  Zeroed    \* the content of a new segment

VARIABLES
  segs,   \* the segments
  keyed,  \* the identifier under the key, or NoSeg
  addr    \* the segment a process has attached, or NoSeg

NoSeg == 0
Ids == 1..MaxSegs

Segment == [state |-> "none", size |-> 0, trunk |-> Zeroed]

Init ==
  /\ segs = [i \in Ids |-> Segment]
  /\ keyed = NoSeg
  /\ addr = [p \in Procs |-> NoSeg]

\* The identifier is known to the kernel.
Exists(i) == i \in Ids /\ segs[i].state \in {"live", "removed"}

Users(i) == {p \in Procs : addr[p] = i}

\* Identifiers are given out in order.
IsNext(i) ==
  /\ segs[i].state = "none"
  /\ \A j \in Ids : j < i => segs[j].state # "none"

\* A shmget that creates: the segment is filled with zeros.
Alloc(i, size) ==
  /\ keyed = NoSeg
  /\ size <= SHMMAX
  /\ IsNext(i)
  /\ segs' = [segs EXCEPT ![i] = [Segment EXCEPT !.state = "live", !.size = size]]
  /\ keyed' = i
  /\ UNCHANGED addr

\* shmctl(IPC_RMID)
Remove(i) ==
  /\ Exists(i)
  /\ segs' = [segs EXCEPT ![i] = IF Users(i) = {}
                                   THEN [Segment EXCEPT !.state = "gone"]
                                   ELSE [@ EXCEPT !.state = "removed"]]
  /\ keyed' = IF keyed = i THEN NoSeg ELSE keyed
  /\ UNCHANGED addr

\* shmat
Attach(p, i) ==
  /\ Exists(i)
  /\ addr' = [addr EXCEPT ![p] = i]
  /\ UNCHANGED <<segs, keyed>>

\* shmdt, or the exit of the process
Detach(p) ==
  /\ addr' = [addr EXCEPT ![p] = NoSeg]
  /\ segs' = [i \in Ids |-> IF segs[i].state = "removed" /\ Users(i) = {p}
                              THEN [Segment EXCEPT !.state = "gone"] ELSE segs[i]]
  /\ UNCHANGED keyed

\* A store into the attached segment.
Store(p, trunk) ==
  /\ segs' = [segs EXCEPT ![addr[p]].trunk = trunk]
  /\ UNCHANGED <<keyed, addr>>
=============================================================================
