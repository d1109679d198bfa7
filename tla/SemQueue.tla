------------------------------ MODULE SemQueue ------------------------------
(***************************************************************************)
(* The processes of ShmQueue on the semaphore sets of ShmRWlock: the locks *)
(* their calls take are the two CShmRWlock objects InitLock constructs,    *)
(* one on the key behind the segment's, one on the next.  The lock steps   *)
(* are the semops of ShmRWlock.  A process that dies gives back what the   *)
(* kernel's adjustments say it holds; its next run attaches with           *)
(* GetInstance, whose InitLock finds both sets, or makes them where no     *)
(* process has got that far before.                                        *)
(*                                                                         *)
(* beginLock and endLock only record here who has passed the locks.  The   *)
(* programs are those of the class, in the mode with both locks: the C     *)
(* port has no working locks.                                              *)
(***************************************************************************)
EXTENDS ShmQueue, FiniteSets

CONSTANT Simultaneous   \* may a process attach to a set that is being created?

ASSUME SemQueueAssumption ==
  /\ IsFiniteSet(Procs)
  /\ \A p \in Procs : Impl[p] = "cpp"
  /\ Mode = "MUL_READ_MUL_WRITE" /\ LockPtr = Procs
  /\ Simultaneous \in BOOLEAN

VARIABLES
  beginSet, beginSem, beginAdj,  \* the set of shmkey + 1: does it exist, its
                                 \* counters, its SEM_UNDO adjustments
  endSet, endSem, endAdj,        \* the set of shmkey + 2
  stage   \* how far a process has come: "down", then in InitLock: "setBegin",
          \* "half" (the first lock is there), "setEnd"; then "up"

beginKernel == <<beginSet, beginSem, beginAdj>>
endKernel == <<endSet, endSem, endAdj>>
semVars == <<vars, beginKernel, endKernel, stage>>

Advance(p, s) == stage' = [stage EXCEPT ![p] = s]

-----------------------------------------------------------------------------
(* Where a process is with respect to a lock of its calls.                 *)

CallPlace(p) ==
  CASE pc[p] = "lock" -> IF SharedRead(p) THEN "wantR" ELSE "wantW"
    [] pc[p] = "idle" -> "free"
    [] OTHER          -> IF SharedRead(p) THEN "reading" ELSE "writing"

BeginPlaces ==
  [p \in Procs |-> IF stage[p] = "down" THEN "out"
                   ELSE IF stage[p] = "setBegin" THEN "setall"
                   ELSE IF p \in Readers THEN CallPlace(p)
                   ELSE "free"]

EndPlaces ==
  [p \in Procs |-> IF stage[p] \in {"down", "setBegin", "half"} THEN "out"
                   ELSE IF stage[p] = "setEnd" THEN "setall"
                   ELSE IF p \in Writers THEN CallPlace(p)
                   ELSE "free"]

BeginSem == INSTANCE ShmRWlock
              WITH exists <- beginSet, sem <- beginSem, adj <- beginAdj, pc <- BeginPlaces

EndSem == INSTANCE ShmRWlock
            WITH exists <- endSet, sem <- endSem, adj <- endAdj, pc <- EndPlaces

Holders(places) == [w |-> {p \in Procs : places[p] = "writing"},
                    r |-> {p \in Procs : places[p] = "reading"}]

RecordHolders ==
  /\ beginLock' = Holders(BeginPlaces')
  /\ endLock' = Holders(EndPlaces')

-----------------------------------------------------------------------------
(* InitLock, called by both constructors: the lock of m_iBegin, then that  *)
(* of m_iEnd.                                                              *)

InitBeginLock(p) ==
  /\ \/ Advance(p, "setBegin") /\ UNCHANGED vars /\ BeginSem!Create(p)
     \/ Advance(p, "half") /\ UNCHANGED vars /\ (BeginSem!SetAll(p) \/ BeginSem!Attach(p))
  /\ UNCHANGED endKernel

InitEndLock(p) ==
  /\ \/ /\ stage[p] = "half"
        /\ \/ Advance(p, "setEnd") /\ UNCHANGED vars /\ EndSem!Create(p)
           \/ Advance(p, "up") /\ UNCHANGED vars /\ EndSem!Attach(p)
     \/ Advance(p, "up") /\ UNCHANGED vars /\ EndSem!SetAll(p)
  /\ UNCHANGED beginKernel

-----------------------------------------------------------------------------
(* CSafeShmWlock::InitLock, CSafeShmRlock::InitLock: the semop that takes  *)
(* the lock.                                                               *)
SemTakeLock(p) ==
  /\ pc[p] = "lock"
  /\ Goto(p, "equal")
  /\ UNCHANGED <<shared, loc, ret, sent, frames, got, buf, stage>>
  /\ IF p \in Writers
       THEN EndSem!Wlock(p) /\ UNCHANGED beginKernel
       ELSE /\ IF SharedRead(p) THEN BeginSem!Rlock(p) ELSE BeginSem!Wlock(p)
            /\ UNCHANGED endKernel
  /\ RecordHolders

\* The destructors of the guards.
SemUnlock(p) ==
  /\ pc[p] = "unlock"
  /\ Goto(p, "idle")
  /\ loc' = [loc EXCEPT ![p] = NoCall]
  /\ UNCHANGED <<shared, ret, sent, frames, got, buf, stage>>
  /\ IF p \in Writers
       THEN EndSem!UnWlock(p) /\ UNCHANGED beginKernel
       ELSE /\ IF SharedRead(p) THEN BeginSem!UnRlock(p) ELSE BeginSem!UnWlock(p)
            /\ UNCHANGED endKernel
  /\ RecordHolders

\* The process dies in a call or in InitLock; the kernel undoes its
\* operations on the sets it has used.
SemExit(p) ==
  /\ stage[p] # "down"
  /\ stage[p] = "up" => pc[p] # "idle"
  /\ Advance(p, "down")
  /\ Goto(p, "idle")
  /\ loc' = [loc EXCEPT ![p] = NoCall]
  /\ ret' = [ret EXCEPT ![p] = 0]
  /\ got' = IF p \in Readers THEN [got EXCEPT ![p] = NoMsg] ELSE got
  /\ UNCHANGED <<shared, sent, frames, buf>>
  /\ BeginSem!Exit(p)
  /\ IF EndPlaces[p] = "out" THEN UNCHANGED endKernel ELSE EndSem!Exit(p)
  /\ RecordHolders

-----------------------------------------------------------------------------
SemInit ==
  /\ Init
  /\ stage = [p \in Procs |-> "down"]
  /\ BeginSem!Init
  /\ EndSem!Init

\* Everything in a call but its lock, and entering one.
RingWork(p) ==
  /\ stage[p] = "up"
  /\ \/ \E n \in Lens : p \in Writers /\ SendMessage(p, n)
     \/ \E op \in Ops : p \in Readers /\ (ReadMessage(p, op) \/ ReadNull(p, op))
     \/ SizeEqual(p) \/ SizeOrder(p) \/ SizeWrapped(p) \/ SizeMiddle(p)
     \/ WriteHeader(p) \/ WriteFirst(p) \/ WriteRest(p) \/ Publish(p)
     \/ ReadHeader(p) \/ ReadFirst(p) \/ ReadRest(p) \/ ReadEnd(p)
  /\ UNCHANGED <<beginKernel, endKernel, stage>>

SemNext == \E p \in Procs :
  \/ InitBeginLock(p) \/ InitEndLock(p)
  \/ RingWork(p) \/ SemTakeLock(p) \/ SemUnlock(p)
  \/ SemExit(p)

SemSpec == SemInit /\ [][SemNext]_semVars

-----------------------------------------------------------------------------
\* The semaphores give the calls the locks ShmQueue assumes, through deaths
\* in any step and restarts: the queue on semaphores is a ShmQueue.
ImplementsShmQueue == Spec
=============================================================================
