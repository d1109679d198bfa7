--------------------------- MODULE QueueLifecycle ---------------------------
(***************************************************************************)
(* The life of the queue objects of one key: CreateInstance, GetInstance,  *)
(* CreateShareMem, the constructors and InitLock, the destructor and       *)
(* DestroyShareMem, of shmmqueue.cpp and of its C port, in processes that  *)
(* start, restart, die and run into each other anywhere.  Each system call *)
(* and each group of stores into the trunk is a step.                      *)
(*                                                                         *)
(* The trunk is reduced to the number of messages between its indices,     *)
(* m_iSize, m_eQueueModule and whether m_iShmKey has been stored.  Calls   *)
(* that use the queue are one step here and are not caught in the middle   *)
(* by a creator; ShmQueue has their details.                               *)
(***************************************************************************)
EXTENDS QueueSizing, FiniteSets

CONSTANTS
  Procs,     \* the processes
  Impl,      \* "cpp" or "c": the code a process was built from
  Sizes,     \* the sizes callers pass
  Mode,      \* the mode creators pass
  TRUNK,     \* sizeof(stMemTrunk)
  SHMMAX,    \* the largest segment the kernel creates
  Deletes,   \* do programs destroy their objects?
  MaxSegs,   \* bound: segments created in one behaviour
  MaxMsgs    \* bound: messages in the queue

Modes == {"ONE_READ_ONE_WRITE", "ONE_READ_MUL_WRITE",
          "MUL_READ_ONE_WRITE", "MUL_READ_MUL_WRITE"}

ASSUME LifecycleAssumption ==
  /\ Impl \in [Procs -> {"cpp", "c"}]
  /\ Sizes \subseteq Nat \ {0}
  /\ Mode \in Modes
  /\ TRUNK \in Nat \ {0}
  /\ SHMMAX \in Nat
  /\ Deletes \in BOOLEAN
  /\ MaxSegs \in Nat
  /\ MaxMsgs \in Nat

VARIABLES
  segs, keyed, addr,  \* the kernel's, see ShmSegment
  pc,     \* where a process is
  call,   \* "create" or "attach": the call that made, or makes, its object
  want,   \* the rounded size it asks for
  shmId,  \* its local of that name
  lock,   \* its m_pBeginLock and m_pEndLock
  todo,   \* the fields of the trunk that its constructor has still to store
  made,   \* history: segments whose trunk some creator has filled in
  late,   \* history: processes that called GetInstance when there was a queue
  agreed, \* history: have users agreed so far?  Else no history is kept
  asked,  \* history: the size they agree on, 0 when there is none
  orderly \* history: have creators come one at a time so far?

kernel == <<segs, keyed, addr>>
history == <<made, late, agreed, asked, orderly>>
vars == <<segs, keyed, addr, pc, call, want, shmId, lock, todo,
          made, late, agreed, asked, orderly>>

\* A trunk of zeros; the mode numbered 0 is ONE_READ_ONE_WRITE.
Zeroed == [msgs |-> 0, size |-> 0, mode |-> "ONE_READ_ONE_WRITE", key |-> FALSE]

Shm == INSTANCE ShmSegment

\* new and malloc do not clear the object: a pointer that InitLock has not
\* set is "unset", whatever bytes were there.
NoLocks == [begin |-> "unset", end |-> "unset"]

Trunk(p) == segs[addr[p]].trunk

\* IsBeginLock and IsEndLock, of the trunk as it is now.
IsBeginLock(p) == Trunk(p).mode \in {"MUL_READ_MUL_WRITE", "MUL_READ_ONE_WRITE"}
IsEndLock(p)   == Trunk(p).mode \in {"MUL_READ_MUL_WRITE", "ONE_READ_MUL_WRITE"}

Goto(p, l) == pc' = [pc EXCEPT ![p] = l]

\* The bytes asked of the kernel.
Need(p) == want[p] + TRUNK

-----------------------------------------------------------------------------
(* CreateInstance and GetInstance: rounding, then CreateShareMem.  A size  *)
(* of 0 is answered with NULL.                                             *)

\* Where a creator is before its object is finished.
Building == {"excl", "get", "touch", "rmid", "again", "shmat", "zero", "stores",
             "beginlock", "endlock"}

\* A creator is in order if no other is at work, and one of the class, which
\* starts from a trunk of zeros, if there is no queue yet.
InOrder(p) ==
  /\ \A q \in Procs : ~(call[q] = "create" /\ pc[q] \in Building)
  /\ Impl[p] = "c" \/ keyed \notin made

\* Users agree as long as all ask for one size, one the kernel can provide,
\* and nobody destroys an object.
Agrees(n) == agreed /\ asked \in {0, n} /\ n + TRUNK <= SHMMAX

\* From then on the history is not kept.
Disagree ==
  /\ agreed' = FALSE
  /\ asked' = 0
  /\ orderly' = FALSE
  /\ late' = {}
  /\ made' = {}

Record(p, c, n) ==
  IF Agrees(n)
    THEN /\ asked' = n
         /\ orderly' = (orderly /\ (c = "create" => InOrder(p)))
         /\ late' = IF c = "attach" /\ keyed \in made THEN late \cup {p} ELSE late
         /\ UNCHANGED <<agreed, made>>
    ELSE Disagree

Call(p, c, n) ==
  /\ pc[p] = "out"
  /\ call' = [call EXCEPT ![p] = c]
  /\ IF Rounds(n)
       THEN /\ want' = [want EXCEPT ![p] = Rounded(n)]
            /\ Record(p, c, Rounded(n))
            /\ Goto(p, "excl")
       ELSE Goto(p, "spin") /\ UNCHANGED <<want, history>>
  /\ UNCHANGED <<kernel, shmId, lock, todo>>

CreateInstance(p, n) == Call(p, "create", n)
GetInstance(p, n) == Call(p, "attach", n)

\* shmget has created a segment, and shmat is next.
NewSegment(p, i) ==
  /\ Shm!Alloc(i, Need(p))
  /\ shmId' = [shmId EXCEPT ![p] = i]
  /\ Goto(p, "shmat")

\* shmget could not create one.
CannotCreate(p) == Need(p) > SHMMAX

\* shmget(iKey, size, IPC_CREAT | IPC_EXCL)
ShmgetExcl(p) ==
  /\ pc[p] = "excl"
  /\ \/ \E i \in Shm!Ids : NewSegment(p, i)
     \/ /\ keyed # Shm!NoSeg
        /\ Goto(p, "get")
        /\ UNCHANGED <<kernel, shmId>>
     \/ /\ keyed = Shm!NoSeg
        /\ CannotCreate(p)
        /\ Goto(p, "failed")
        /\ UNCHANGED <<kernel, shmId>>
  /\ UNCHANGED <<call, want, lock, todo, history>>

\* (Definitions named X_slip_... are plausible slips in X; nothing uses them.
\* Replacing X by one must break a property, which the project checks.)
LargeEnough_slip_strict(p) == segs[keyed].size > Need(p)

LargeEnough_slip_any(p) == TRUE

\* shmget finds a segment only if it is at least as large as asked.
LargeEnough(p) == segs[keyed].size >= Need(p)

\* shmget(iKey, size, IPC_CREAT)
ShmgetAny(p) ==
  /\ pc[p] = "get"
  /\ \/ \E i \in Shm!Ids : NewSegment(p, i)
     \/ /\ keyed # Shm!NoSeg
        /\ LargeEnough(p)
        /\ shmId' = [shmId EXCEPT ![p] = keyed]
        /\ Goto(p, "shmat")
        /\ UNCHANGED kernel
     \/ /\ IF keyed = Shm!NoSeg THEN CannotCreate(p) ELSE ~LargeEnough(p)
        /\ Goto(p, "touch")
        /\ UNCHANGED <<kernel, shmId>>
  /\ UNCHANGED <<call, want, lock, todo, history>>

\* shmget(iKey, 0): the segment that is too small.
ShmgetOld(p) ==
  /\ pc[p] = "touch"
  /\ IF keyed = Shm!NoSeg
       THEN Goto(p, "failed") /\ UNCHANGED shmId
       ELSE Goto(p, "rmid") /\ shmId' = [shmId EXCEPT ![p] = keyed]
  /\ UNCHANGED <<kernel, call, want, lock, todo, history>>

\* shmctl(IPC_RMID): it is removed, in use or not.
RemoveOld(p) ==
  /\ pc[p] = "rmid"
  /\ IF Shm!Exists(shmId[p])
       THEN Shm!Remove(shmId[p]) /\ Goto(p, "again")
       ELSE Goto(p, "failed") /\ UNCHANGED kernel
  /\ UNCHANGED <<call, want, shmId, lock, todo, history>>

\* shmget(iKey, size, IPC_CREAT | IPC_EXCL) once more.
ShmgetAgain(p) ==
  /\ pc[p] = "again"
  /\ \/ \E i \in Shm!Ids : NewSegment(p, i)
     \/ /\ keyed # Shm!NoSeg \/ CannotCreate(p)
        /\ Goto(p, "failed")
        /\ UNCHANGED <<kernel, shmId>>
  /\ UNCHANGED <<call, want, lock, todo, history>>

InitLockFirst_slip_always(p) == TRUE

\* The class fills in the trunk of a queue it creates and then calls InitLock;
\* the C port calls InitLock before.
InitLockFirst(p) == Impl[p] = "c"

FirstPc(p) ==
  IF call[p] = "create" /\ ~InitLockFirst(p) THEN "zero" ELSE "beginlock"

Shmat(p) ==
  /\ pc[p] = "shmat"
  /\ IF Shm!Exists(shmId[p])
       THEN Shm!Attach(p, shmId[p]) /\ Goto(p, FirstPc(p))
       ELSE Goto(p, "failed") /\ UNCHANGED kernel
  /\ shmId' = [shmId EXCEPT ![p] = Shm!NoSeg]
  /\ UNCHANGED <<call, want, lock, todo, history>>

-----------------------------------------------------------------------------
(* The constructors.  That the segment was found (SHM_RESUME) makes no     *)
(* difference to them.                                                     *)

Fields == {"indices", "size", "mode"}

\* new (m_pQueueAddr) stMemTrunk(): a trunk without a constructor of its own is
\* filled with zeros, on a segment that was found too.
Zero(p) ==
  /\ pc[p] = "zero"
  /\ Shm!Store(p, Zeroed)
  /\ todo' = [todo EXCEPT ![p] = Fields]
  /\ Goto(p, "stores")
  /\ UNCHANGED <<call, want, shmId, lock, history>>

\* Only the indices are volatile; the compiler puts the other stores where it
\* likes.
StoreField(p, f, trunk) ==
  /\ pc[p] = "stores"
  /\ f \in todo[p]
  /\ Shm!Store(p, trunk)
  /\ todo' = [todo EXCEPT ![p] = @ \ {f}]
  /\ IF todo[p] = {f}
       THEN /\ made' = IF agreed THEN made \cup {addr[p]} ELSE made
            /\ Goto(p, IF InitLockFirst(p) THEN "in" ELSE "beginlock")
       ELSE UNCHANGED <<made, pc>>
  /\ UNCHANGED <<call, want, shmId, lock, late, agreed, asked, orderly>>

\* m_iBegin = m_iEnd = 0, counted as one store
StoreIndices(p) == StoreField(p, "indices", [Trunk(p) EXCEPT !.msgs = 0])

StoreSize_slip_need(p) ==
  StoreField(p, "size", [Trunk(p) EXCEPT !.key = TRUE, !.size = Need(p)])

\* m_iShmKey, m_iShmId and m_iSize
StoreSize(p) ==
  StoreField(p, "size", [Trunk(p) EXCEPT !.key = TRUE, !.size = want[p]])

\* m_eQueueModule
StoreMode(p) == StoreField(p, "mode", [Trunk(p) EXCEPT !.mode = Mode])

\* The class makes a new lock for each pointer it sets, of the key it finds in
\* the trunk: with a key of 0 it is the lock of another key ("alien").  The C
\* port writes through the pointers, which nobody has set: it writes somewhere
\* ("stray"), or faults.
NewLock(p) ==
  IF Impl[p] = "c" THEN "stray" ELSE IF Trunk(p).key THEN "lock" ELSE "alien"

\* The two halves of InitLock, each by the mode found in the trunk.
InitBeginLock(p) ==
  /\ pc[p] = "beginlock"
  /\ \/ /\ lock' = [lock EXCEPT ![p].begin = IF IsBeginLock(p) THEN NewLock(p) ELSE @]
        /\ Goto(p, "endlock")
     \/ /\ Impl[p] = "c" /\ IsBeginLock(p)
        /\ Goto(p, "fault")
        /\ UNCHANGED lock
  /\ UNCHANGED <<kernel, call, want, shmId, todo, history>>

InitEndLock(p) ==
  /\ pc[p] = "endlock"
  /\ \/ /\ lock' = [lock EXCEPT ![p].end = IF IsEndLock(p) THEN NewLock(p) ELSE @]
        /\ IF call[p] = "create" /\ InitLockFirst(p)
             THEN Goto(p, "stores") /\ todo' = [todo EXCEPT ![p] = Fields]
             ELSE Goto(p, "in") /\ UNCHANGED todo
     \/ /\ Impl[p] = "c" /\ IsEndLock(p)
        /\ Goto(p, "fault")
        /\ UNCHANGED <<lock, todo>>
  /\ UNCHANGED <<kernel, call, want, shmId, history>>

-----------------------------------------------------------------------------
(* Use.  On a trunk whose m_iSize is still 0 the free size of the class is *)
(* negative and it sends nothing, that of the C port is huge.              *)

Send(p) ==
  /\ pc[p] = "in"
  /\ Trunk(p).size > 0 \/ Impl[p] = "c"
  /\ Trunk(p).msgs < MaxMsgs
  /\ Shm!Store(p, [Trunk(p) EXCEPT !.msgs = @ + 1])
  /\ UNCHANGED <<pc, call, want, shmId, lock, todo, history>>

Receive_slip_empty(p) ==
  /\ pc[p] = "in"
  /\ Shm!Store(p, [Trunk(p) EXCEPT !.msgs = @ - 1])
  /\ UNCHANGED <<pc, call, want, shmId, lock, todo, history>>

Receive(p) ==
  /\ pc[p] = "in"
  /\ Trunk(p).msgs > 0
  /\ Shm!Store(p, [Trunk(p) EXCEPT !.msgs = @ - 1])
  /\ UNCHANGED <<pc, call, want, shmId, lock, todo, history>>

-----------------------------------------------------------------------------
(* The destructor (DestroyInstance in the C port) calls DestroyShareMem,   *)
(* which finds the segment to remove by its key.  A key that was never     *)
(* stored is 0, IPC_PRIVATE, for which shmget of size 0 fails.             *)

Delete(p) ==
  /\ Deletes
  /\ pc[p] = "in"
  /\ IF Trunk(p).key /\ keyed # Shm!NoSeg
       THEN Goto(p, "shmdt") /\ shmId' = [shmId EXCEPT ![p] = keyed]
       ELSE Goto(p, "pointers") /\ UNCHANGED shmId
  /\ Disagree
  /\ UNCHANGED <<kernel, call, want, lock, todo>>

Shmdt(p) ==
  /\ pc[p] = "shmdt"
  /\ Shm!Detach(p)
  /\ Goto(p, "remove")
  /\ UNCHANGED <<call, want, shmId, lock, todo, history>>

RemoveKeyed(p) ==
  /\ pc[p] = "remove"
  /\ IF Shm!Exists(shmId[p]) THEN Shm!Remove(shmId[p]) ELSE UNCHANGED kernel
  /\ Goto(p, "pointers")
  /\ UNCHANGED <<call, want, shmId, lock, todo, history>>

\* Pointers that are not NULL are freed; of those that were never set nobody
\* knows.
FreeLocks(p) ==
  /\ pc[p] = "pointers"
  /\ \/ Goto(p, "done")
     \/ {lock[p].begin, lock[p].end} \cap {"unset", "stray"} # {} /\ Goto(p, "fault")
  /\ lock' = [lock EXCEPT ![p] = NoLocks]
  /\ UNCHANGED <<kernel, call, want, shmId, todo, history>>

-----------------------------------------------------------------------------

\* The process exits or is killed, wherever it is; the kernel detaches it.
\* Another run of the same program may follow.
Exit(p) ==
  /\ pc[p] # "out"
  /\ Shm!Detach(p)
  /\ Goto(p, "out")
  /\ call' = [call EXCEPT ![p] = "none"]
  /\ want' = [want EXCEPT ![p] = 0]
  /\ shmId' = [shmId EXCEPT ![p] = Shm!NoSeg]
  /\ lock' = [lock EXCEPT ![p] = NoLocks]
  /\ todo' = [todo EXCEPT ![p] = {}]
  /\ late' = late \ {p}
  /\ UNCHANGED <<made, agreed, asked, orderly>>

Init ==
  /\ Shm!Init
  /\ pc = [p \in Procs |-> "out"]
  /\ call = [p \in Procs |-> "none"]
  /\ want = [p \in Procs |-> 0]
  /\ shmId = [p \in Procs |-> Shm!NoSeg]
  /\ lock = [p \in Procs |-> NoLocks]
  /\ todo = [p \in Procs |-> {}]
  /\ made = {}
  /\ late = {}
  /\ agreed = TRUE
  /\ asked = 0
  /\ orderly = TRUE

Next == \E p \in Procs :
  \/ \E n \in Sizes : CreateInstance(p, n) \/ GetInstance(p, n)
  \/ ShmgetExcl(p) \/ ShmgetAny(p) \/ ShmgetOld(p)
  \/ RemoveOld(p) \/ ShmgetAgain(p) \/ Shmat(p)
  \/ Zero(p) \/ StoreIndices(p) \/ StoreSize(p) \/ StoreMode(p)
  \/ InitBeginLock(p) \/ InitEndLock(p)
  \/ Send(p) \/ Receive(p)
  \/ Delete(p) \/ Shmdt(p) \/ RemoveKeyed(p) \/ FreeLocks(p)
  \/ Exit(p)

Spec == Init /\ [][Next]_vars

-----------------------------------------------------------------------------
(* Properties.                                                             *)

Places == Building \cup {"out", "spin", "in", "fault", "failed",
                         "shmdt", "remove", "pointers", "done"}

Trunks == [msgs : 0..MaxMsgs, size : Nat, mode : Modes, key : BOOLEAN]
Pointers == {"unset", "lock", "alien", "stray"}

\* The types of the variables.
TypeOK ==
  /\ segs \in [Shm!Ids -> [state : {"none", "live", "removed", "gone"},
                           size : Nat, trunk : Trunks]]
  /\ keyed \in Shm!Ids \cup {Shm!NoSeg}
  /\ addr \in [Procs -> Shm!Ids \cup {Shm!NoSeg}]
  /\ pc \in [Procs -> Places]
  /\ call \in [Procs -> {"none", "create", "attach"}]
  /\ want \in [Procs -> Nat]
  /\ shmId \in [Procs -> Shm!Ids \cup {Shm!NoSeg}]
  /\ lock \in [Procs -> [begin : Pointers, end : Pointers]]
  /\ todo \in [Procs -> SUBSET Fields]
  /\ made \subseteq Shm!Ids
  /\ late \subseteq Procs
  /\ agreed \in BOOLEAN
  /\ asked \in Nat
  /\ orderly \in BOOLEAN

\* Whatever sizes programs ask for, whoever removes, recreates or zeroes what,
\* the ring that a process finds in its trunk, as long as it has a size, lies
\* inside the segment the process has mapped: SendMessage and GetMessage do not
\* leave the mapping.
RingInSegment ==
  \A p \in Procs :
    addr[p] # Shm!NoSeg /\ Trunk(p).size # 0 =>
      Trunk(p).size + TRUNK <= segs[addr[p]].size

\* While users agree, all of them work on one segment, whoever creates,
\* attaches or dies in which order, and no call gives up.
OneSegment ==
  agreed =>
    /\ \A p, q \in Procs :
         addr[p] # Shm!NoSeg /\ addr[q] # Shm!NoSeg => addr[p] = addr[q]
    /\ \A p \in Procs : pc[p] # "failed"

\* While users agree, a queue that was created once stays under its key, also
\* when all its users are gone; and it stays initialised, for those who come
\* later, if creators have been orderly, dead ones included.
QueuePersists ==
  agreed /\ made # {} =>
    /\ keyed \in made
    /\ orderly => /\ segs[keyed].trunk.size = asked
                  /\ segs[keyed].trunk.mode = Mode
                  /\ segs[keyed].trunk.key

HasLocks(p) ==
  /\ IsBeginLock(p) => lock[p].begin = "lock"
  /\ IsEndLock(p) => lock[p].end = "lock"

\* The object has been created, or attached to a queue that existed already
\* (README: GetInstance binds "an already created shared memory instance").
InUse(p) == pc[p] = "in" /\ (call[p] = "create" \/ p \in late)

\* While users agree and creators are orderly, an object of the class has the
\* locks of its queue that the mode of its trunk calls for.
ClassHasLocks ==
  agreed /\ orderly => \A p \in Procs : Impl[p] = "cpp" /\ InUse(p) => HasLocks(p)

\* The same for an object of the C port.
PortHasLocks ==
  agreed /\ orderly => \A p \in Procs : Impl[p] = "c" /\ InUse(p) => HasLocks(p)

\* Whatever size was stored in whichever segment, and whoever resumed it, the
\* size a ring is masked with is the least power of two that holds a size some
\* caller passed (in the range of Fls, which the sizes of the run stay in or
\* make spin): an index & (m_iSize - 1) is a position and no room is lost.
RoundsUp ==
  \A i \in Shm!Ids : LET size == segs[i].trunk.size IN
    size # 0 =>
      /\ \E k \in 0..size : size = 2^k
      /\ \E n \in Sizes : n <= size /\ size < 2 * n

\* Messages leave the queue only through receivers: a creator that comes back
\* to a segment that exists (SHM_RESUME) resumes with what is in it.
ResumeKeeps ==
  [][\A i \in Shm!Ids :
       segs'[i].state = "live" /\ segs'[i].trunk.msgs < segs[i].trunk.msgs =>
         \E p \in Procs : Receive(p)]_vars
=============================================================================
