------------------------------- MODULE RWLock -------------------------------
(***************************************************************************)
(* What the readers-writer lock of shm_rwlock.h promises to its callers:   *)
(* any number of processes in shared mode, or one process in exclusive     *)
(* mode, and whatever a process holds is given back when it exits.         *)
(* lock.w and lock.r are the sets of processes that hold it exclusively    *)
(* and in shared mode.                                                     *)
(***************************************************************************)
CONSTANT Procs
VARIABLE lock

Unlocked == [w |-> {}, r |-> {}]

Init == lock = Unlocked

Rlock(p) ==
  /\ lock.w = {}
  /\ lock' = [lock EXCEPT !.r = @ \cup {p}]

UnRlock(p) ==
  /\ p \in lock.r
  /\ lock' = [lock EXCEPT !.r = @ \ {p}]

Wlock(p) ==
  /\ lock.w = {} /\ lock.r = {}
  /\ lock' = [lock EXCEPT !.w = {p}]

UnWlock(p) ==
  /\ p \in lock.w
  /\ lock' = [lock EXCEPT !.w = @ \ {p}]

\* SEM_UNDO: the kernel takes back what an exiting process holds.
Undo(p) == lock' = [w |-> lock.w \ {p}, r |-> lock.r \ {p}]

Next == \E p \in Procs :
  Rlock(p) \/ UnRlock(p) \/ Wlock(p) \/ UnWlock(p) \/ Undo(p)

Spec == Init /\ [][Next]_lock
=============================================================================
