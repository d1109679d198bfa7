----------------------------- MODULE ShmRWlock -----------------------------
(***************************************************************************)
(* CShmRWlock of shm_rwlock.cpp (and its port shm_rwlockWapper.c): a       *)
(* readers-writer lock on a System V semaphore set of two counters.        *)
(* sem.w counts the process that writes, sem.r the processes that read.    *)
(* Each semop is one atomic step of the kernel, so a blocked call is an    *)
(* action that is not enabled; semop interrupted by a signal (EINTR) is    *)
(* called again and has changed nothing.  With SEM_UNDO the kernel keeps   *)
(* an adjustment per process and adds it to the counters when the process  *)
(* exits, however it exits.                                                *)
(*                                                                         *)
(* A process uses the lock the way CMessageQueue does: it constructs it    *)
(* (init), then takes and releases it once per call, or dies.              *)
(***************************************************************************)
EXTENDS Integers, FiniteSets

CONSTANTS
  Procs,        \* the processes that share the key of the set
  Simultaneous  \* may a process attach while another one is creating the set?

ASSUME ShmRWlockAssumption ==
  /\ IsFiniteSet(Procs)
  /\ Simultaneous \in BOOLEAN

VARIABLES
  exists,  \* is there a set under the key?  (No code ever removes it.)
  sem,     \* its two counters
  adj,     \* the kernel's SEM_UNDO adjustments of each process
  pc       \* where a process is

vars == <<exists, sem, adj, pc>>

Zero == [w |-> 0, r |-> 0]

Goto(p, l) == pc' = [pc EXCEPT ![p] = l]

-----------------------------------------------------------------------------
(* init: create the set or attach to it.                                   *)

\* semget(IPC_CREAT | IPC_EXCL) succeeds: the set is new, its counters are
\* zero, and from here on the others can attach to it.
Create(p) ==
  /\ pc[p] = "out"
  /\ ~exists
  /\ exists' = TRUE
  /\ sem' = Zero
  /\ Goto(p, "setall")
  /\ UNCHANGED adj

\* semctl(SETALL): besides the counters it clears the adjustments that the
\* kernel holds for the set, those of all processes.
SetAll(p) ==
  /\ pc[p] = "setall"
  /\ sem' = Zero
  /\ adj' = [q \in Procs |-> Zero]
  /\ Goto(p, "free")
  /\ UNCHANGED exists

\* semget fails with EEXIST and the second semget finds the set.
Attach(p) ==
  /\ pc[p] = "out"
  /\ exists
  /\ Simultaneous \/ \A q \in Procs : pc[q] # "setall"
  /\ Goto(p, "free")
  /\ UNCHANGED <<exists, sem, adj>>

-----------------------------------------------------------------------------
(* The lock operations.  A call that finds the lock taken sleeps in semop  *)
(* ("wantR", "wantW"); TryRlock and TryWlock return false at once, having  *)
(* changed nothing, which is no step here.                                 *)

WantR(p) == pc[p] = "free" /\ Goto(p, "wantR") /\ UNCHANGED <<exists, sem, adj>>
WantW(p) == pc[p] = "free" /\ Goto(p, "wantW") /\ UNCHANGED <<exists, sem, adj>>

\* {0, 0}, {1, 1}
AcquireR(p) ==
  /\ sem.w = 0
  /\ sem' = [sem EXCEPT !.r = @ + 1]
  /\ adj' = [adj EXCEPT ![p].r = @ - 1]
  /\ Goto(p, "reading")
  /\ UNCHANGED exists

\* (Definitions named X_slip_... are plausible slips in X; nothing uses them.
\* Replacing X by one must break a property, which the project checks.)
AcquireW_slip_blind(p) ==
  /\ sem.w = 0
  /\ sem' = [sem EXCEPT !.w = @ + 1]
  /\ adj' = [adj EXCEPT ![p].w = @ - 1]
  /\ Goto(p, "writing")
  /\ UNCHANGED exists

\* {0, 0}, {1, 0}, {0, 1}
AcquireW(p) ==
  /\ sem.w = 0
  /\ sem.r = 0
  /\ sem' = [sem EXCEPT !.w = @ + 1]
  /\ adj' = [adj EXCEPT ![p].w = @ - 1]
  /\ Goto(p, "writing")
  /\ UNCHANGED exists

Rlock(p) == pc[p] = "wantR" /\ AcquireR(p)
Wlock(p) == pc[p] = "wantW" /\ AcquireW(p)
TryRlock(p) == pc[p] = "free" /\ AcquireR(p)
TryWlock(p) == pc[p] = "free" /\ AcquireW(p)

\* {1, -1}
UnRlock(p) ==
  /\ pc[p] = "reading"
  /\ sem.r >= 1
  /\ sem' = [sem EXCEPT !.r = @ - 1]
  /\ adj' = [adj EXCEPT ![p].r = @ + 1]
  /\ Goto(p, "free")
  /\ UNCHANGED exists

\* {0, -1}
UnWlock(p) ==
  /\ pc[p] = "writing"
  /\ sem.w >= 1
  /\ sem' = [sem EXCEPT !.w = @ - 1]
  /\ adj' = [adj EXCEPT ![p].w = @ + 1]
  /\ Goto(p, "free")
  /\ UNCHANGED exists

-----------------------------------------------------------------------------
(* SEM_UNDO.                                                               *)

AtLeast0(n) == IF n < 0 THEN 0 ELSE n

Exit_slip_noUndo(p) ==
  /\ pc[p] # "out"
  /\ Goto(p, "out")
  /\ adj' = [adj EXCEPT ![p] = Zero]
  /\ UNCHANGED <<sem, exists>>

\* The process exits or is killed, wherever it is; the kernel adds its
\* adjustments to the counters, which stop at zero.
Exit(p) ==
  /\ pc[p] # "out"
  /\ sem' = [w |-> AtLeast0(sem.w + adj[p].w), r |-> AtLeast0(sem.r + adj[p].r)]
  /\ adj' = [adj EXCEPT ![p] = Zero]
  /\ Goto(p, "out")
  /\ UNCHANGED exists

Init ==
  /\ exists = FALSE
  /\ sem = Zero
  /\ adj = [p \in Procs |-> Zero]
  /\ pc = [p \in Procs |-> "out"]

Next == \E p \in Procs :
  \/ Create(p) \/ SetAll(p) \/ Attach(p)
  \/ WantR(p) \/ WantW(p)
  \/ Rlock(p) \/ Wlock(p) \/ TryRlock(p) \/ TryWlock(p)
  \/ UnRlock(p) \/ UnWlock(p)
  \/ Exit(p)

Spec == Init /\ [][Next]_vars

\* The kernel wakes a sleeper whose operations have become possible, oldest
\* first; whoever holds the lock is inside a call that does not block and
\* gives it back (or dies, which counts as giving it back).
GiveBack(p) ==
  \/ UnRlock(p) \/ UnWlock(p)
  \/ pc[p] \in {"reading", "writing"} /\ Exit(p)

Fairness == \A p \in Procs :
  /\ SF_vars(Rlock(p))
  /\ SF_vars(Wlock(p))
  /\ WF_vars(SetAll(p))
  /\ WF_vars(GiveBack(p))

LiveSpec == Spec /\ Fairness

-----------------------------------------------------------------------------
(* Properties.                                                             *)

Places == {"out", "setall", "free", "wantR", "wantW", "reading", "writing"}

WritersIn == {p \in Procs : pc[p] = "writing"}
ReadersIn == {p \in Procs : pc[p] = "reading"}

\* The types of the variables.
TypeOK ==
  /\ exists \in BOOLEAN
  /\ sem \in [w : Nat, r : Nat]
  /\ adj \in [Procs -> [w : Int, r : Int]]
  /\ pc \in [Procs -> Places]

\* A process that holds the lock exclusively holds it alone, through deaths of
\* holders anywhere, the one that creates the set included, as long as nobody
\* attaches to a set that is being created (Simultaneous = FALSE).
Exclusion ==
  /\ \A p, q \in WritersIn : p = q
  /\ WritersIn # {} => ReadersIn = {}

\* The counters are what the holders have put there: a death neither leaves
\* a lock behind that nobody holds, nor takes one away from a live holder.
Balanced ==
  /\ sem.w = Cardinality(WritersIn)
  /\ sem.r = Cardinality(ReadersIn)

Lock == INSTANCE RWLock WITH lock <- [w |-> WritersIn, r |-> ReadersIn]

\* The semaphores do what RWLock promises.
ImplementsRWLock == Lock!Spec

\* A shared request is served (or withdrawn): only writers delay it, and
\* each of them releases or dies.
ReadersServed == \A p \in Procs : pc[p] = "wantR" ~> pc[p] # "wantR"
=============================================================================
