------------------------ MODULE QueueLifecycleProofs ------------------------
(***************************************************************************)
(* Proofs about QueueLifecycle, for any number of processes of either      *)
(* program, any sizes and modes, and starts, restarts and deaths anywhere. *)
(***************************************************************************)
EXTENDS QueueLifecycle, QueueSizingProofs

USE DEF Shm!NoSeg, Shm!Ids

-----------------------------------------------------------------------------
(* What the kernel's operations do to the types.                           *)

Contents == [state : {"none", "live", "removed", "gone"}, size : Nat, trunk : Trunks]

SegsOK == segs \in [Shm!Ids -> Contents]
KeyedOK == keyed \in Shm!Ids \cup {0}
AddrOK == addr \in [Procs -> Shm!Ids \cup {0}]
KernelOK == SegsOK /\ KeyedOK /\ AddrOK

\* A trunk of zeros is a trunk.
LEMMA ZeroedTrunk == Shm!Segment \in Contents /\ Shm!Segment.trunk = Zeroed /\ Zeroed \in Trunks
  BY LifecycleAssumption DEF Shm!Segment, Contents, Trunks, Zeroed, Modes

\* Creating, removing, attaching, detaching and storing keep the types of the
\* kernel's variables.
LEMMA KernelTypes ==
  ASSUME KernelOK,
         \/ \E i \in Shm!Ids, n \in Nat : Shm!Alloc(i, n)
         \/ \E i \in Shm!Ids \cup {0} : Shm!Remove(i)
         \/ \E p \in Procs, i \in Shm!Ids \cup {0} : Shm!Attach(p, i)
         \/ \E p \in Procs : Shm!Detach(p)
         \/ \E p \in Procs, t \in Trunks : Shm!Store(p, t)
         \/ UNCHANGED kernel
  PROVE  KernelOK'
<1>1. CASE \E i \in Shm!Ids, n \in Nat : Shm!Alloc(i, n)
  <2>1. PICK i \in Shm!Ids, n \in Nat : Shm!Alloc(i, n)
    BY <1>1
  <2>2. [Shm!Segment EXCEPT !.state = "live", !.size = n] \in Contents
    BY ZeroedTrunk DEF Contents
  <2>3. QED
    BY <2>1, <2>2 DEF Shm!Alloc, KernelOK, SegsOK, KeyedOK, AddrOK
<1>2. CASE \E i \in Shm!Ids \cup {0} : Shm!Remove(i)
  <2>1. PICK i \in Shm!Ids : Shm!Remove(i)
    BY <1>2 DEF Shm!Remove, Shm!Exists
  <2>2. [Shm!Segment EXCEPT !.state = "gone"] \in Contents
    BY ZeroedTrunk DEF Contents
  <2>3. [segs[i] EXCEPT !.state = "removed"] \in Contents
    BY DEF KernelOK, SegsOK, Contents
  <2>4. QED
    BY <2>1, <2>2, <2>3 DEF Shm!Remove, KernelOK, SegsOK, KeyedOK, AddrOK
<1>3. CASE \E p \in Procs, i \in Shm!Ids \cup {0} : Shm!Attach(p, i)
  BY <1>3 DEF Shm!Attach, KernelOK, SegsOK, KeyedOK, AddrOK
<1>4. CASE \E p \in Procs : Shm!Detach(p)
  <2>1. [Shm!Segment EXCEPT !.state = "gone"] \in Contents
    BY ZeroedTrunk DEF Contents
  <2>2. QED
    BY <1>4, <2>1 DEF Shm!Detach, KernelOK, SegsOK, KeyedOK, AddrOK
<1>5. CASE \E p \in Procs, t \in Trunks : Shm!Store(p, t)
  <2>1. PICK p \in Procs, t \in Trunks : Shm!Store(p, t)
    BY <1>5
  <2>2. \A i \in Shm!Ids : [segs[i] EXCEPT !.trunk = t] \in Contents
    BY DEF KernelOK, SegsOK, Contents
  <2>3. QED
    BY <2>1, <2>2 DEF Shm!Store, KernelOK, SegsOK, KeyedOK, AddrOK
<1>6. CASE UNCHANGED kernel
  BY <1>6 DEF kernel, KernelOK, SegsOK, KeyedOK, AddrOK
<1>7. QED
  BY <1>1, <1>2, <1>3, <1>4, <1>5, <1>6

-----------------------------------------------------------------------------
(* Types.                                                                  *)

LocalsOK ==
  /\ pc \in [Procs -> Places]
  /\ call \in [Procs -> {"none", "create", "attach"}]
  /\ want \in [Procs -> Nat]
  /\ shmId \in [Procs -> Shm!Ids \cup {0}]
  /\ lock \in [Procs -> [begin : Pointers, end : Pointers]]
  /\ todo \in [Procs -> SUBSET Fields]

HistoryOK ==
  /\ made \subseteq Shm!Ids
  /\ late \subseteq Procs
  /\ agreed \in BOOLEAN
  /\ asked \in Nat
  /\ orderly \in BOOLEAN

\* What the invariants below need to know of the places where a process works
\* on its segment: it has one.
Attached == {"zero", "stores", "beginlock", "endlock", "in", "shmdt"}

AttachedOK == \A p \in Procs : pc[p] \in Attached => addr[p] \in Shm!Ids

TypeInv == KernelOK /\ LocalsOK /\ HistoryOK /\ AttachedOK

LEMMA TypeInit == Init => TypeInv
<1> SUFFICES ASSUME Init PROVE TypeInv
  OBVIOUS
<1>1. KernelOK
  BY ZeroedTrunk DEF Init, Shm!Init, KernelOK, SegsOK, KeyedOK, AddrOK
<1>2. LocalsOK
  BY DEF Init, LocalsOK, Places, Building, NoLocks, Pointers
<1>3. HistoryOK
  BY DEF Init, HistoryOK
<1>4. AttachedOK
  BY DEF Init, AttachedOK, Attached
<1>5. QED
  BY <1>1, <1>2, <1>3, <1>4 DEF TypeInv

\* The calls up to shmat.
Acquire(p) ==
  \/ \E n \in Sizes : CreateInstance(p, n) \/ GetInstance(p, n)
  \/ ShmgetExcl(p) \/ ShmgetAny(p) \/ ShmgetOld(p)
  \/ RemoveOld(p) \/ ShmgetAgain(p) \/ Shmat(p)

\* The constructors and the use of the object.
Work(p) ==
  \/ Zero(p) \/ StoreIndices(p) \/ StoreSize(p) \/ StoreMode(p)
  \/ InitBeginLock(p) \/ InitEndLock(p)
  \/ Send(p) \/ Receive(p)

\* The destructor and the exit.
Leave(p) ==
  Delete(p) \/ Shmdt(p) \/ RemoveKeyed(p) \/ FreeLocks(p) \/ Exit(p)

LEMMA Steps == Next <=> \E p \in Procs : Acquire(p) \/ Work(p) \/ Leave(p)
  BY DEF Next, Acquire, Work, Leave

\* The check for 0 that follows the rounding never fires.
LEMMA RoundedSize == \A n \in Sizes : Rounds(n) => Rounded(n) \in Nat \ {0}
  BY LifecycleAssumption, RoundedPositive

LEMMA TypeAcquire ==
  ASSUME TypeInv, NEW p \in Procs, Acquire(p)
  PROVE  TypeInv'
<1> USE DEF TypeInv
<1>1. CASE \E n \in Sizes : CreateInstance(p, n) \/ GetInstance(p, n)
  <2>1. PICK n \in Sizes, c \in {"create", "attach"} : Call(p, c, n)
    BY <1>1 DEF CreateInstance, GetInstance
  <2>2. KernelOK'
    BY <2>1, KernelTypes DEF Call
  <2>3. LocalsOK'
    BY <2>1, RoundedSize DEF Call, Goto, LocalsOK, Places, Building
  <2>4. HistoryOK'
    <3>1. CASE Rounds(n) /\ Agrees(Rounded(n))
      <4>1. orderly' = (orderly /\ (c = "create" => InOrder(p)))
        BY <2>1, <3>1 DEF Call, Record
      <4>2. orderly' \in BOOLEAN
        BY <4>1, Zenon
      <4>3. /\ made' = made /\ agreed' = agreed /\ asked' = Rounded(n)
            /\ late' = late \cup {p} \/ late' = late
        BY <2>1, <3>1 DEF Call, Record
      <4>4. late' \subseteq Procs /\ made' \subseteq Shm!Ids
        BY <4>3 DEF HistoryOK
      <4>5. asked' \in Nat
        BY <3>1, <4>3, RoundedSize
      <4>6. agreed' \in BOOLEAN
        BY <4>3 DEF HistoryOK
      <4>7. QED
        BY <4>2, <4>4, <4>5, <4>6, Zenon DEF HistoryOK
    <3>2. CASE Rounds(n) /\ ~Agrees(Rounded(n))
      <4>1. made' = {} /\ late' = {} /\ agreed' = FALSE /\ asked' = 0 /\ orderly' = FALSE
        BY <2>1, <3>2 DEF Call, Record, Disagree
      <4>2. QED
        BY <4>1 DEF HistoryOK
    <3>3. CASE ~Rounds(n)
      BY <2>1, <3>3 DEF Call, history, HistoryOK
    <3>4. QED
      BY <3>1, <3>2, <3>3
  <2>5. AttachedOK'
    BY <2>1 DEF Call, Goto, kernel, AttachedOK, Attached, LocalsOK
  <2>6. QED
    BY <2>2, <2>3, <2>4, <2>5
<1>2. ASSUME NEW i \in Shm!Ids, NewSegment(p, i),
             pc[p] \in {"excl", "get", "again"},
             UNCHANGED <<call, want, lock, todo, history>>
      PROVE  TypeInv'
  <2>1. Need(p) \in Nat
    BY LifecycleAssumption DEF Need, LocalsOK
  <2>2. KernelOK'
    BY <1>2, <2>1, KernelTypes DEF NewSegment
  <2>3. QED
    BY <1>2, <2>2 DEF NewSegment, Goto, LocalsOK, Places, Building, HistoryOK, history,
         AttachedOK, Attached, Shm!Alloc
<1>3. ASSUME UNCHANGED kernel, UNCHANGED <<call, want, lock, todo, history>>,
             NEW l \in {"get", "failed", "touch", "shmat", "rmid"}, Goto(p, l),
             UNCHANGED shmId \/ shmId' = [shmId EXCEPT ![p] = keyed]
      PROVE  TypeInv'
  <2>1. KernelOK'
    BY <1>3, KernelTypes
  <2>2. QED
    BY <1>3, <2>1 DEF Goto, LocalsOK, Places, Building, HistoryOK, history, kernel,
         AttachedOK, Attached, KernelOK, KeyedOK
<1>4. CASE ShmgetExcl(p)
  BY <1>4, <1>2, <1>3 DEF ShmgetExcl
<1>5. CASE ShmgetAny(p)
  BY <1>5, <1>2, <1>3 DEF ShmgetAny
<1>6. CASE ShmgetOld(p)
  BY <1>6, <1>3 DEF ShmgetOld
<1>7. CASE ShmgetAgain(p)
  BY <1>7, <1>2, <1>3 DEF ShmgetAgain
<1>8. CASE RemoveOld(p)
  <2>1. shmId[p] \in Shm!Ids \cup {0}
    BY DEF LocalsOK
  <2>2. KernelOK'
    BY <1>8, <2>1, KernelTypes DEF RemoveOld
  <2>3. QED
    BY <1>8, <2>2 DEF RemoveOld, Shm!Remove, Goto, LocalsOK, Places, Building, HistoryOK,
         history, kernel, AttachedOK, Attached
<1>9. CASE Shmat(p)
  <2>1. shmId[p] \in Shm!Ids \cup {0}
    BY DEF LocalsOK
  <2>2. KernelOK'
    BY <1>9, <2>1, KernelTypes DEF Shmat
  <2>3. LocalsOK' /\ HistoryOK'
    BY <1>9 DEF Shmat, FirstPc, Goto, LocalsOK, Places, Building, HistoryOK, history
  <2>4. AttachedOK'
    BY <1>9, <2>1 DEF Shmat, Shm!Attach, Shm!Exists, FirstPc, Goto, LocalsOK, KernelOK,
         AddrOK, kernel, AttachedOK, Attached
  <2>5. QED
    BY <2>2, <2>3, <2>4
<1>10. QED
  BY <1>1, <1>4, <1>5, <1>6, <1>7, <1>8, <1>9 DEF Acquire

LEMMA TypeWork ==
  ASSUME TypeInv, NEW p \in Procs, Work(p)
  PROVE  TypeInv'
<1> USE DEF TypeInv
<1>1. pc[p] \in Attached
  BY DEF Work, Zero, StoreIndices, StoreSize, StoreMode, StoreField, InitBeginLock,
     InitEndLock, Send, Receive, Attached
<1>2. addr[p] \in Shm!Ids /\ Trunk(p) \in Trunks
  BY <1>1 DEF Trunk, AttachedOK, KernelOK, SegsOK, Contents
<1>3. ASSUME NEW t \in Trunks, Shm!Store(p, t), UNCHANGED <<call, want, shmId, lock>>,
             todo' \in [Procs -> SUBSET Fields], HistoryOK',
             \/ UNCHANGED pc
             \/ \E l \in {"stores", "beginlock", "in"} : Goto(p, l)
      PROVE  TypeInv'
  <2>1. KernelOK'
    BY <1>3, KernelTypes
  <2>2. LocalsOK'
    BY <1>3 DEF Goto, LocalsOK, Places, Building
  <2>3. AttachedOK'
    BY <1>1, <1>2, <1>3 DEF Goto, LocalsOK, Shm!Store, AttachedOK, Attached
  <2>4. QED
    BY <1>3, <2>1, <2>2, <2>3
<1>4. ASSUME NEW t \in Trunks, NEW f, StoreField(p, f, t)
      PROVE  TypeInv'
  <2>1. todo' \in [Procs -> SUBSET Fields]
    BY <1>4 DEF StoreField, LocalsOK
  <2>2. HistoryOK'
    BY <1>2, <1>4 DEF StoreField, HistoryOK
  <2>3. QED
    BY <1>3, <1>4, <2>1, <2>2 DEF StoreField
<1>5. CASE Zero(p)
  <2>1. todo' \in [Procs -> SUBSET Fields] /\ HistoryOK'
    BY <1>5 DEF Zero, LocalsOK, history, HistoryOK
  <2>2. QED
    BY <1>3, <1>5, <2>1, ZeroedTrunk DEF Zero
<1>6. CASE StoreIndices(p)
  <2>1. [Trunk(p) EXCEPT !.msgs = 0] \in Trunks
    BY <1>2, LifecycleAssumption DEF Trunks
  <2>2. QED
    BY <1>4, <1>6, <2>1 DEF StoreIndices
<1>7. CASE StoreSize(p)
  <2>1. [Trunk(p) EXCEPT !.key = TRUE, !.size = want[p]] \in Trunks
    BY <1>2 DEF Trunks, LocalsOK
  <2>2. QED
    BY <1>4, <1>7, <2>1 DEF StoreSize
<1>8. CASE StoreMode(p)
  <2>1. [Trunk(p) EXCEPT !.mode = Mode] \in Trunks
    BY <1>2, LifecycleAssumption DEF Trunks
  <2>2. QED
    BY <1>4, <1>8, <2>1 DEF StoreMode
<1>9. CASE Send(p)
  <2>1. [Trunk(p) EXCEPT !.msgs = @ + 1] \in Trunks
    BY <1>2, <1>9, LifecycleAssumption DEF Trunks, Send
  <2>2. QED
    BY <1>3, <1>9, <2>1 DEF Send, LocalsOK, history, HistoryOK
<1>10. CASE Receive(p)
  <2>1. [Trunk(p) EXCEPT !.msgs = @ - 1] \in Trunks
    BY <1>2, <1>10, LifecycleAssumption DEF Trunks, Receive
  <2>2. QED
    BY <1>3, <1>10, <2>1 DEF Receive, LocalsOK, history, HistoryOK
<1>11. CASE InitBeginLock(p)
  <2>1. KernelOK'
    BY <1>11, KernelTypes DEF InitBeginLock
  <2>2. LocalsOK'
    <3>1. lock' \in [Procs -> [begin : Pointers, end : Pointers]]
      BY <1>11 DEF InitBeginLock, NewLock, LocalsOK, Pointers
    <3>2. pc' \in [Procs -> Places]
      BY <1>11 DEF InitBeginLock, Goto, LocalsOK, Places, Building
    <3>3. UNCHANGED <<call, want, shmId, todo>>
      BY <1>11 DEF InitBeginLock
    <3>4. QED
      BY <3>1, <3>2, <3>3 DEF LocalsOK
  <2>3. HistoryOK' /\ AttachedOK'
    BY <1>2, <1>11 DEF InitBeginLock, Goto, LocalsOK, history, HistoryOK, kernel, AttachedOK, Attached
  <2>4. QED
    BY <2>1, <2>2, <2>3
<1>12. CASE InitEndLock(p)
  <2>1. KernelOK'
    BY <1>12, KernelTypes DEF InitEndLock
  <2>2. LocalsOK'
    <3>1. lock' \in [Procs -> [begin : Pointers, end : Pointers]]
      BY <1>12 DEF InitEndLock, NewLock, LocalsOK, Pointers
    <3>2. todo' \in [Procs -> SUBSET Fields]
      BY <1>12 DEF InitEndLock, LocalsOK
    <3>3. pc' \in [Procs -> Places]
      BY <1>12 DEF InitEndLock, Goto, LocalsOK, Places, Building
    <3>4. UNCHANGED <<call, want, shmId>>
      BY <1>12 DEF InitEndLock
    <3>5. QED
      BY <3>1, <3>2, <3>3, <3>4 DEF LocalsOK
  <2>3. HistoryOK' /\ AttachedOK'
    BY <1>2, <1>12 DEF InitEndLock, Goto, LocalsOK, history, HistoryOK, kernel, AttachedOK, Attached
  <2>4. QED
    BY <2>1, <2>2, <2>3
<1>13. QED
  BY <1>5, <1>6, <1>7, <1>8, <1>9, <1>10, <1>11, <1>12 DEF Work

LEMMA TypeLeave ==
  ASSUME TypeInv, NEW p \in Procs, Leave(p)
  PROVE  TypeInv'
<1> USE DEF TypeInv
<1>1. KernelOK'
  <2>1. shmId[p] \in Shm!Ids \cup {0}
    BY DEF LocalsOK
  <2>2. QED
    BY <2>1, KernelTypes DEF Leave, Delete, Shmdt, RemoveKeyed, FreeLocks, Exit
<1>2. LocalsOK' /\ HistoryOK'
  <2>1. CASE Delete(p)
    <3>1. LocalsOK'
      BY <2>1 DEF Delete, LocalsOK, Places, Building, Goto, KernelOK, KeyedOK
    <3>2. HistoryOK'
      BY <2>1 DEF Delete, Disagree, HistoryOK
    <3>3. QED
      BY <3>1, <3>2
  <2>2. CASE Shmdt(p)
    <3>1. LocalsOK'
      BY <2>2 DEF Shmdt, LocalsOK, Places, Building, Goto, history
    <3>2. HistoryOK'
      BY <2>2 DEF Shmdt, HistoryOK, Goto, history
    <3>3. QED
      BY <3>1, <3>2
  <2>3. CASE RemoveKeyed(p)
    <3>1. LocalsOK'
      BY <2>3 DEF RemoveKeyed, LocalsOK, Places, Building, Goto, history
    <3>2. HistoryOK'
      BY <2>3 DEF RemoveKeyed, HistoryOK, Goto, history
    <3>3. QED
      BY <3>1, <3>2
  <2>4. CASE FreeLocks(p)
    <3>1. LocalsOK'
      BY <2>4 DEF FreeLocks, LocalsOK, Places, Building, Goto, history, NoLocks, Pointers
    <3>2. HistoryOK'
      BY <2>4 DEF FreeLocks, HistoryOK, Goto, history, NoLocks, Pointers
    <3>3. QED
      BY <3>1, <3>2
  <2>5. CASE Exit(p)
    <3>1. LocalsOK'
      BY <2>5 DEF Exit, LocalsOK, Places, Building, Goto, NoLocks, Pointers
    <3>2. HistoryOK'
      BY <2>5 DEF Exit, HistoryOK, Goto, NoLocks, Pointers
    <3>3. QED
      BY <3>1, <3>2
  <2>6. QED
    BY <2>1, <2>2, <2>3, <2>4, <2>5 DEF Leave
<1>4. AttachedOK'
  <2>1. CASE Delete(p)
    BY <2>1 DEF Delete, Goto, kernel, LocalsOK, AttachedOK, Attached
  <2>2. CASE Shmdt(p)
    BY <2>2 DEF Shmdt, Shm!Detach, Goto, LocalsOK, AttachedOK, Attached
  <2>3. CASE RemoveKeyed(p)
    BY <2>3 DEF RemoveKeyed, Shm!Remove, Goto, kernel, LocalsOK, AttachedOK, Attached
  <2>4. CASE FreeLocks(p)
    BY <2>4 DEF FreeLocks, Goto, kernel, LocalsOK, AttachedOK, Attached
  <2>5. CASE Exit(p)
    BY <2>5 DEF Exit, Shm!Detach, Goto, LocalsOK, AttachedOK, Attached
  <2>6. QED
    BY <2>1, <2>2, <2>3, <2>4, <2>5 DEF Leave
<1>5. QED
  BY <1>1, <1>2, <1>4

LEMMA TypeStep == TypeInv /\ [Next]_vars => TypeInv'
<1> SUFFICES ASSUME TypeInv, [Next]_vars PROVE TypeInv'
  OBVIOUS
<1>1. CASE Next
  BY <1>1, Steps, TypeAcquire, TypeWork, TypeLeave
<1>2. CASE UNCHANGED vars
  BY <1>2 DEF vars, TypeInv, KernelOK, SegsOK, KeyedOK, AddrOK, LocalsOK, HistoryOK,
     AttachedOK
<1>3. QED
  BY <1>1, <1>2

LEMMA TypeInvariant == Spec => []TypeInv
  BY TypeInit, TypeStep, PTL DEF Spec

\* The variables of a queue's life keep their types: no message count leaves
\* its bound, no process refers to a segment that was never created.
THEOREM LifecycleTypes == Spec => []TypeOK
<1>1. TypeInv => TypeOK
  BY DEF TypeInv, TypeOK, KernelOK, SegsOK, KeyedOK, AddrOK, LocalsOK, HistoryOK, Contents
<1>2. QED
  BY <1>1, TypeInvariant, PTL

-----------------------------------------------------------------------------
(* Rings lie inside their segments.  The property speaks of the trunks that *)
(* processes have attached; what makes it inductive is that a creator,     *)
(* from the shmget that succeeded to its store of m_iSize, has a segment   *)
(* large enough for what it will store, whatever is removed meanwhile.     *)

RingsFit ==
  \A i \in Shm!Ids :
    segs[i].trunk.size # 0 => segs[i].trunk.size + TRUNK <= segs[i].size

\* A segment that somebody uses exists; the key leads to one that is live.
UsedExist ==
  /\ \A p \in Procs : addr[p] # 0 => Shm!Exists(addr[p])
  /\ keyed # 0 => segs[keyed].state = "live"

\* Between shmget and shmat.
FoundFits ==
  \A p \in Procs : pc[p] = "shmat" =>
    /\ shmId[p] \in Shm!Ids
    /\ segs[shmId[p]].state # "none"
    /\ Shm!Exists(shmId[p]) => segs[shmId[p]].size >= Need(p)

\* Between shmat and the end of the construction.
CreatorFits ==
  \A p \in Procs :
    /\ pc[p] \in {"zero", "stores"} => call[p] = "create"
    /\ call[p] = "create" /\ pc[p] \in {"zero", "stores", "beginlock", "endlock"} =>
         segs[addr[p]].size >= Need(p)

RingInv == RingsFit /\ UsedExist /\ FoundFits /\ CreatorFits

\* One step of the kernel, as the processes other than p see it: a segment
\* once created stays known as such, and as long as it exists it keeps its
\* size.
Others(p) ==
  /\ \A i \in Shm!Ids : segs[i].state # "none" =>
       /\ segs'[i].state # "none"
       /\ Shm!Exists(i)' => Shm!Exists(i) /\ segs'[i].size = segs[i].size
  /\ \A q \in Procs \ {p} : addr'[q] = addr[q]

\* No operation of the kernel disturbs the others, or makes a ring too large.
LEMMA KernelSteps ==
  ASSUME TypeInv, RingsFit, UsedExist, NEW p \in Procs,
         \/ \E i \in Shm!Ids, n \in Nat : Shm!Alloc(i, n)
         \/ \E i \in Shm!Ids \cup {0} : Shm!Remove(i)
         \/ \E i \in Shm!Ids \cup {0} : Shm!Attach(p, i)
         \/ Shm!Detach(p)
         \/ UNCHANGED kernel
  PROVE  Others(p) /\ RingsFit' /\ UsedExist'
<1> USE DEF TypeInv, KernelOK, SegsOK, KeyedOK, AddrOK
<1>a. Shm!Segment.trunk.size = 0 /\ Shm!Segment.state = "none"
  BY DEF Shm!Segment, Zeroed
<1>1. CASE \E i \in Shm!Ids, n \in Nat : Shm!Alloc(i, n)
  <2>1. PICK i \in Shm!Ids, n \in Nat : Shm!Alloc(i, n)
    BY <1>1
  <2>2. segs[i].state = "none" /\ segs'[i].state = "live" /\ segs'[i].trunk.size = 0
    BY <2>1, <1>a, ZeroedTrunk DEF Shm!Alloc, Shm!IsNext, Contents
  <2>3. \A j \in Shm!Ids \ {i} : segs'[j] = segs[j]
    BY <2>1 DEF Shm!Alloc
  <2>4. addr' = addr /\ keyed' = i
    BY <2>1 DEF Shm!Alloc
  <2>5. \A q \in Procs : addr[q] # 0 => addr[q] # i
    BY <2>2 DEF UsedExist, Shm!Exists
  <2>6. QED
    BY <2>2, <2>3, <2>4, <2>5 DEF Others, RingsFit, UsedExist, Shm!Exists
<1>2. CASE \E i \in Shm!Ids \cup {0} : Shm!Remove(i)
  <2>1. PICK i \in Shm!Ids : Shm!Remove(i)
    BY <1>2 DEF Shm!Remove, Shm!Exists
  <2>2. \A j \in Shm!Ids \ {i} : segs'[j] = segs[j]
    BY <2>1 DEF Shm!Remove
  <2>3. addr' = addr /\ (keyed' = 0 \/ (keyed' = keyed /\ keyed # i))
    BY <2>1 DEF Shm!Remove
  <2>4. CASE Shm!Users(i) = {}
    <3>1. segs'[i].state = "gone" /\ segs'[i].trunk.size = 0
      BY <2>1, <2>4, <1>a, ZeroedTrunk DEF Shm!Remove, Contents
    <3>2. \A q \in Procs : addr[q] # i
      BY <2>4 DEF Shm!Users
    <3>3. QED
      BY <2>1, <2>2, <2>3, <3>1, <3>2 DEF Others, RingsFit, UsedExist, Shm!Exists
  <2>5. CASE Shm!Users(i) # {}
    <3>1. segs'[i] = [segs[i] EXCEPT !.state = "removed"]
      BY <2>1, <2>5 DEF Shm!Remove
    <3>2. segs'[i].state = "removed" /\ segs'[i].size = segs[i].size /\ segs'[i].trunk = segs[i].trunk
      BY <3>1 DEF Contents
    <3>3. Shm!Exists(i)
      BY <2>1 DEF Shm!Remove
    <3>4. QED
      BY <2>1, <2>2, <2>3, <3>2, <3>3 DEF Others, RingsFit, UsedExist, Shm!Exists
  <2>6. QED
    BY <2>4, <2>5
<1>3. CASE \E i \in Shm!Ids \cup {0} : Shm!Attach(p, i)
  BY <1>3 DEF Shm!Attach, Others, RingsFit, UsedExist, Shm!Exists
<1>4. CASE Shm!Detach(p)
  <2>1. addr' = [addr EXCEPT ![p] = 0] /\ keyed' = keyed
    BY <1>4 DEF Shm!Detach
  <2>2. \A i \in Shm!Ids :
          \/ segs'[i] = segs[i]
          \/ /\ segs[i].state = "removed" /\ Shm!Users(i) = {p}
             /\ segs'[i].state = "gone" /\ segs'[i].trunk.size = 0
    BY <1>4, <1>a, ZeroedTrunk DEF Shm!Detach, Contents
  <2>3. \A q \in Procs \ {p}, i \in Shm!Ids : addr[q] = i => segs'[i] = segs[i]
    BY <2>2 DEF Shm!Users
  <2>4. QED
    BY <2>1, <2>2, <2>3 DEF Others, RingsFit, UsedExist, Shm!Exists
<1>5. CASE UNCHANGED kernel
  BY <1>5 DEF kernel, Others, RingsFit, UsedExist, Shm!Exists
<1>6. QED
  BY <1>1, <1>2, <1>3, <1>4, <1>5

\* What holds of the other processes goes on holding.
LEMMA OthersFit ==
  ASSUME TypeInv, RingInv, NEW p \in Procs, Others(p), UsedExist',
         \A q \in Procs \ {p} :
           /\ pc'[q] = pc[q] /\ call'[q] = call[q]
           /\ want'[q] = want[q] /\ shmId'[q] = shmId[q],
         NEW q \in Procs \ {p}
  PROVE  /\ pc'[q] = "shmat" =>
              /\ shmId'[q] \in Shm!Ids
              /\ segs'[shmId'[q]].state # "none"
              /\ Shm!Exists(shmId[q])' => segs'[shmId'[q]].size >= Need(q)'
         /\ pc'[q] \in {"zero", "stores"} => call'[q] = "create"
         /\ call'[q] = "create" /\ pc'[q] \in {"zero", "stores", "beginlock", "endlock"} =>
              segs'[addr'[q]].size >= Need(q)'
<1> USE DEF RingInv
<1>1. Need(q)' = Need(q) /\ addr'[q] = addr[q]
  BY DEF Need, Others
<1>2. CASE pc[q] = "shmat"
  <2>1. shmId[q] \in Shm!Ids /\ segs[shmId[q]].state # "none"
    BY <1>2 DEF FoundFits
  <2>2. segs'[shmId[q]].state # "none"
    BY <2>1 DEF Others
  <2>3. Shm!Exists(shmId[q])' => Shm!Exists(shmId[q]) /\ segs'[shmId[q]].size = segs[shmId[q]].size
    BY <2>1 DEF Others, Shm!Exists
  <2>4. QED
    BY <1>1, <1>2, <2>1, <2>2, <2>3 DEF FoundFits, Shm!Exists
<1>3. CASE call[q] = "create" /\ pc[q] \in {"zero", "stores", "beginlock", "endlock"}
  <2>1. addr[q] \in Shm!Ids
    BY <1>3 DEF TypeInv, AttachedOK, Attached
  <2>2. segs[addr[q]].state # "none"
    BY <2>1 DEF UsedExist, Shm!Exists
  <2>3. Shm!Exists(addr[q])'
    BY <1>1, <2>1 DEF UsedExist
  <2>4. segs'[addr[q]].size = segs[addr[q]].size
    BY <2>1, <2>2, <2>3, <1>1 DEF Others, Shm!Exists
  <2>5. QED
    BY <1>1, <1>3, <2>4 DEF CreatorFits
<1>4. QED
  BY <1>2, <1>3 DEF CreatorFits

LEMMA RingInit == Init => RingInv
  BY ZeroedTrunk DEF Init, Shm!Init, RingInv, RingsFit, UsedExist, FoundFits, CreatorFits,
     Shm!Segment, Zeroed

\* The calls up to shmat.
LEMMA RingAcquire ==
  ASSUME TypeInv, RingInv, NEW p \in Procs, Acquire(p)
  PROVE  RingInv'
<1> USE DEF TypeInv, RingInv
<1>1. Others(p) /\ RingsFit' /\ UsedExist'
  <2>1. Need(p) \in Nat /\ shmId[p] \in Shm!Ids \cup {0}
    BY LifecycleAssumption DEF Need, LocalsOK
  <2>2. QED
    BY <2>1, KernelSteps DEF Acquire, CreateInstance, GetInstance, Call, ShmgetExcl,
       ShmgetAny, ShmgetOld, RemoveOld, ShmgetAgain, Shmat, NewSegment
<1>2. \A q \in Procs \ {p} :
        /\ pc'[q] = pc[q] /\ call'[q] = call[q]
        /\ want'[q] = want[q] /\ shmId'[q] = shmId[q]
  BY DEF Acquire, CreateInstance, GetInstance, Call, ShmgetExcl, ShmgetAny, ShmgetOld,
     RemoveOld, ShmgetAgain, Shmat, NewSegment, Goto, LocalsOK
<1>3. pc'[p] = "shmat" =>
        /\ shmId'[p] \in Shm!Ids
        /\ segs'[shmId'[p]].state # "none"
        /\ segs'[shmId'[p]].size >= Need(p)'
  <2>1. ASSUME NEW i \in Shm!Ids, NewSegment(p, i), want' = want
        PROVE  shmId'[p] = i /\ segs'[i].state = "live" /\ segs'[i].size >= Need(p)'
    <3>1. segs'[i] = [Shm!Segment EXCEPT !.state = "live", !.size = Need(p)]
      BY <2>1 DEF NewSegment, Shm!Alloc, KernelOK, SegsOK
    <3>2. segs'[i].state = "live" /\ segs'[i].size = Need(p) /\ Need(p) \in Nat
      BY <3>1, ZeroedTrunk, LifecycleAssumption DEF Contents, Need, LocalsOK
    <3>3. QED
      BY <2>1, <3>2 DEF NewSegment, LocalsOK, Need
  <2>2. CASE ShmgetExcl(p)
    BY <2>1, <2>2 DEF ShmgetExcl, Goto, LocalsOK
  <2>3. CASE ShmgetAny(p)
    <3>1. CASE \E i \in Shm!Ids : NewSegment(p, i)
      BY <2>1, <2>3, <3>1 DEF ShmgetAny
    <3>2. CASE /\ keyed # Shm!NoSeg
               /\ LargeEnough(p)
               /\ shmId' = [shmId EXCEPT ![p] = keyed]
               /\ UNCHANGED kernel
      BY <2>3, <3>2 DEF ShmgetAny, LargeEnough, kernel, Need, LocalsOK, UsedExist,
         KernelOK, KeyedOK
    <3>3. CASE Goto(p, "touch")
      BY <3>3 DEF Goto, LocalsOK
    <3>4. QED
      BY <2>3, <3>1, <3>2, <3>3 DEF ShmgetAny
  <2>4. CASE ShmgetAgain(p)
    BY <2>1, <2>4 DEF ShmgetAgain, Goto, LocalsOK
  <2>5. CASE ShmgetOld(p) \/ RemoveOld(p) \/ Shmat(p)
    BY <2>5 DEF ShmgetOld, RemoveOld, Shmat, FirstPc, Goto, LocalsOK
  <2>6. CASE \E n \in Sizes : CreateInstance(p, n) \/ GetInstance(p, n)
    BY <2>6 DEF CreateInstance, GetInstance, Call, Goto, LocalsOK
  <2>7. QED
    BY <2>2, <2>3, <2>4, <2>5, <2>6 DEF Acquire
<1>4. /\ pc'[p] \in {"zero", "stores"} => call'[p] = "create"
      /\ call'[p] = "create" /\ pc'[p] \in {"zero", "stores", "beginlock", "endlock"} =>
           segs'[addr'[p]].size >= Need(p)'
  <2>1. CASE Shmat(p) /\ Shm!Exists(shmId[p])
    <3>1. /\ pc[p] = "shmat"
          /\ segs' = segs /\ addr'[p] = shmId[p] /\ want' = want /\ call' = call
      BY <2>1 DEF Shmat, Shm!Attach, KernelOK, AddrOK
    <3>2. segs[shmId[p]].size >= Need(p)
      BY <2>1, <3>1 DEF FoundFits
    <3>3. pc'[p] \in {"zero", "stores"} => call[p] = "create"
      BY <2>1 DEF Shmat, FirstPc, Goto, LocalsOK
    <3>4. QED
      BY <3>1, <3>2, <3>3 DEF Need
  <2>2. CASE ~(Shmat(p) /\ Shm!Exists(shmId[p]))
    BY <2>2 DEF Acquire, CreateInstance, GetInstance, Call, ShmgetExcl, ShmgetAny,
       ShmgetOld, RemoveOld, ShmgetAgain, Shmat, NewSegment, Goto, LocalsOK
  <2>3. QED
    BY <2>1, <2>2
<1>5. FoundFits' /\ CreatorFits'
  BY <1>1, <1>2, <1>3, <1>4, OthersFit DEF FoundFits, CreatorFits
<1>6. QED
  BY <1>1, <1>5

\* A store changes one trunk and nothing else.
LEMMA StoreEffect ==
  ASSUME TypeInv, NEW p \in Procs, addr[p] \in Shm!Ids, NEW t, Shm!Store(p, t)
  PROVE  /\ segs'[addr[p]].trunk = t
         /\ segs'[addr[p]].size = segs[addr[p]].size
         /\ segs'[addr[p]].state = segs[addr[p]].state
         /\ \A i \in Shm!Ids \ {addr[p]} : segs'[i] = segs[i]
         /\ keyed' = keyed /\ addr' = addr
  BY DEF Shm!Store, TypeInv, KernelOK, SegsOK, Contents

\* The constructors and the users change neither the size nor the state of a
\* segment.
LEMMA StoresOnly ==
  ASSUME TypeInv, NEW p \in Procs, addr[p] \in Shm!Ids, Work(p), NEW i \in Shm!Ids
  PROVE  segs'[i].size = segs[i].size /\ segs'[i].state = segs[i].state
<1>1. CASE InitBeginLock(p) \/ InitEndLock(p)
  BY <1>1 DEF InitBeginLock, InitEndLock, kernel
<1>2. CASE ~(InitBeginLock(p) \/ InitEndLock(p))
  <2>1. PICK t : Shm!Store(p, t)
    BY <1>2 DEF Work, Zero, StoreIndices, StoreSize, StoreMode, StoreField, Send, Receive
  <2>2. QED
    BY <2>1, StoreEffect
<1>3. QED
  BY <1>1, <1>2

\* The constructors and the use of the object.
LEMMA RingWork ==
  ASSUME TypeInv, RingInv, NEW p \in Procs, Work(p)
  PROVE  RingInv'
<1> USE DEF TypeInv, RingInv
<1>1. pc[p] \in Attached /\ addr[p] \in Shm!Ids
  BY DEF Work, Zero, StoreIndices, StoreSize, StoreMode, StoreField, InitBeginLock,
     InitEndLock, Send, Receive, Attached, AttachedOK
<1>2. call' = call /\ want' = want /\ shmId' = shmId /\ addr' = addr /\ keyed' = keyed
  BY <1>1 DEF Work, Zero, StoreIndices, StoreSize, StoreMode, StoreField, InitBeginLock,
     InitEndLock, Send, Receive, kernel, Shm!Store
<1>3. \A i \in Shm!Ids : segs'[i].size = segs[i].size /\ segs'[i].state = segs[i].state
  BY <1>1, StoresOnly
<1>4. UsedExist'
  BY <1>2, <1>3 DEF UsedExist, Shm!Exists, KernelOK, KeyedOK
<1>5. RingsFit'
  <2>1. Trunk(p) \in Trunks
    BY <1>1 DEF Trunk, KernelOK, SegsOK, Contents
  <2>2. CASE StoreSize(p)
    <3>1. segs[addr[p]].size >= Need(p)
      BY <2>2 DEF StoreSize, StoreField, CreatorFits
    <3>2. [Trunk(p) EXCEPT !.key = TRUE, !.size = want[p]].size = want[p]
      BY <2>1 DEF Trunks
    <3>3. segs'[addr[p]].trunk.size = want[p] /\ \A i \in Shm!Ids \ {addr[p]} : segs'[i] = segs[i]
      BY <1>1, <2>2, <3>2, StoreEffect DEF StoreSize, StoreField
    <3>4. QED
      BY <1>1, <1>3, <3>1, <3>3, LifecycleAssumption DEF RingsFit, Need, LocalsOK
  <2>3. CASE InitBeginLock(p) \/ InitEndLock(p)
    BY <2>3 DEF InitBeginLock, InitEndLock, kernel, RingsFit
  <2>4. CASE Zero(p) \/ StoreIndices(p) \/ StoreMode(p) \/ Send(p) \/ Receive(p)
    <3>1. PICK t : Shm!Store(p, t) /\ t.size \in {0, Trunk(p).size}
      BY <2>1, <2>4 DEF Zero, Zeroed, StoreIndices, StoreMode, StoreField, Send, Receive, Trunks
    <3>2. QED
      BY <1>1, <3>1, StoreEffect DEF RingsFit, Trunk
  <2>5. QED
    BY <2>2, <2>3, <2>4 DEF Work
<1>6. \A q \in Procs \ {p} : pc'[q] = pc[q]
  BY DEF Work, Zero, StoreIndices, StoreSize, StoreMode, StoreField, InitBeginLock,
     InitEndLock, Send, Receive, Goto, LocalsOK
<1>7. /\ pc'[p] \in {"zero", "stores", "beginlock", "endlock", "in", "fault"}
      /\ pc'[p] \in {"zero", "stores"} => call[p] = "create"
      /\ pc'[p] \in {"zero", "stores", "beginlock", "endlock"}
           => pc[p] \in {"zero", "stores", "beginlock", "endlock"}
  <2>1. CASE Zero(p) \/ Send(p) \/ Receive(p)
    BY <2>1 DEF Zero, Send, Receive, Goto, LocalsOK, CreatorFits
  <2>2. CASE StoreIndices(p) \/ StoreSize(p) \/ StoreMode(p)
    BY <2>2 DEF StoreIndices, StoreSize, StoreMode, StoreField, Goto, LocalsOK, CreatorFits
  <2>3. CASE InitBeginLock(p) \/ InitEndLock(p)
    BY <2>3 DEF InitBeginLock, InitEndLock, Goto, LocalsOK, CreatorFits
  <2>4. QED
    BY <2>1, <2>2, <2>3 DEF Work
<1>8. \A q \in Procs : Need(q)' = Need(q)
  BY <1>2 DEF Need
<1>9. FoundFits'
  BY <1>2, <1>3, <1>6, <1>7, <1>8 DEF FoundFits, Shm!Exists
<1>10. CreatorFits'
  <2> SUFFICES ASSUME NEW q \in Procs
               PROVE  /\ pc'[q] \in {"zero", "stores"} => call'[q] = "create"
                      /\ call'[q] = "create" /\ pc'[q] \in {"zero", "stores", "beginlock", "endlock"} =>
                           segs'[addr'[q]].size >= Need(q)'
    BY DEF CreatorFits
  <2>1. pc[q] \in {"zero", "stores", "beginlock", "endlock"} => addr[q] \in Shm!Ids
    BY DEF AttachedOK, Attached
  <2>2. CASE q = p
    BY <2>1, <2>2, <1>2, <1>3, <1>7, <1>8 DEF CreatorFits
  <2>3. CASE q # p
    BY <2>1, <2>3, <1>2, <1>3, <1>6, <1>8 DEF CreatorFits
  <2>4. QED
    BY <2>2, <2>3
<1>11. QED
  BY <1>4, <1>5, <1>9, <1>10

\* The destructor and the exit.
LEMMA RingLeave ==
  ASSUME TypeInv, RingInv, NEW p \in Procs, Leave(p)
  PROVE  RingInv'
<1> USE DEF TypeInv, RingInv
<1>1. Others(p) /\ RingsFit' /\ UsedExist'
  <2>1. shmId[p] \in Shm!Ids \cup {0}
    BY DEF LocalsOK
  <2>2. QED
    BY <2>1, KernelSteps DEF Leave, Delete, Shmdt, RemoveKeyed, FreeLocks, Exit
<1>2. \A q \in Procs \ {p} :
        /\ pc'[q] = pc[q] /\ call'[q] = call[q]
        /\ want'[q] = want[q] /\ shmId'[q] = shmId[q]
  BY DEF Leave, Delete, Shmdt, RemoveKeyed, FreeLocks, Exit, Goto, LocalsOK
<1>3. pc'[p] \in {"shmdt", "pointers", "remove", "done", "fault", "out"}
  BY DEF Leave, Delete, Shmdt, RemoveKeyed, FreeLocks, Exit, Goto, LocalsOK
<1>4. FoundFits' /\ CreatorFits'
  BY <1>1, <1>2, <1>3, OthersFit DEF FoundFits, CreatorFits
<1>5. QED
  BY <1>1, <1>4

LEMMA RingStep == TypeInv /\ RingInv /\ [Next]_vars => RingInv'
<1> SUFFICES ASSUME TypeInv, RingInv, [Next]_vars PROVE RingInv'
  OBVIOUS
<1>1. CASE Next
  BY <1>1, Steps, RingAcquire, RingWork, RingLeave
<1>2. CASE UNCHANGED vars
  BY <1>2 DEF vars, RingInv, RingsFit, UsedExist, FoundFits, CreatorFits, Need, Shm!Exists
<1>3. QED
  BY <1>1, <1>2

LEMMA RingInvariant == Spec => []RingInv
  BY RingInit, RingStep, TypeInvariant, PTL DEF Spec

\* Whatever sizes programs ask for and whoever removes or recreates what, the
\* m_iSize that a process finds in its trunk fits the segment it has mapped.
THEOREM RingStaysInSegment == Spec => []RingInSegment
<1>1. TypeInv /\ RingInv => RingInSegment
  BY DEF TypeInv, KernelOK, AddrOK, RingInv, RingsFit, RingInSegment, Trunk
<1>2. QED
  BY <1>1, TypeInvariant, RingInvariant, PTL

-----------------------------------------------------------------------------
(* Sizes.  A size in a trunk came there from an object that asked for it,  *)
(* possibly long dead, which had it from the rounding.                     *)

IsRounded(size) == \E n \in Sizes : Rounds(n) /\ size = Rounded(n)

SizesInv ==
  /\ \A p \in Procs : want[p] # 0 => IsRounded(want[p])
  /\ \A i \in Shm!Ids : segs[i].trunk.size # 0 => IsRounded(segs[i].trunk.size)

\* Only a store changes the size in a trunk, apart from the zeros of a new
\* segment.
LEMMA KernelSizes ==
  ASSUME TypeInv, NEW p \in Procs,
         \/ \E i \in Shm!Ids, n \in Nat : Shm!Alloc(i, n)
         \/ \E i \in Shm!Ids \cup {0} : Shm!Remove(i)
         \/ \E i \in Shm!Ids \cup {0} : Shm!Attach(p, i)
         \/ Shm!Detach(p)
         \/ UNCHANGED kernel,
         NEW i \in Shm!Ids
  PROVE  segs'[i].trunk.size \in {0, segs[i].trunk.size}
<1> USE DEF TypeInv, KernelOK, SegsOK
<1>1. Shm!Segment.trunk.size = 0
  BY DEF Shm!Segment, Zeroed
<1>2. CASE \E j \in Shm!Ids, n \in Nat : Shm!Alloc(j, n)
  <2>1. PICK j \in Shm!Ids, n \in Nat : Shm!Alloc(j, n)
    BY <1>2
  <2>2. segs'[i] \in {segs[i], [Shm!Segment EXCEPT !.state = "live", !.size = n]}
    BY <2>1 DEF Shm!Alloc
  <2>3. QED
    BY <1>1, <2>2, ZeroedTrunk DEF Contents
<1>3. CASE \E j \in Shm!Ids \cup {0} : Shm!Remove(j)
  <2>1. PICK j \in Shm!Ids : Shm!Remove(j)
    BY <1>3 DEF Shm!Remove, Shm!Exists
  <2>2. segs'[i] \in {segs[i], [Shm!Segment EXCEPT !.state = "gone"],
                    [segs[i] EXCEPT !.state = "removed"]}
    BY <2>1 DEF Shm!Remove
  <2>3. QED
    BY <1>1, <2>2, ZeroedTrunk DEF Contents
<1>4. CASE \E j \in Shm!Ids \cup {0} : Shm!Attach(p, j)
  BY <1>4 DEF Shm!Attach
<1>5. CASE Shm!Detach(p)
  BY <1>1, <1>5, ZeroedTrunk DEF Shm!Detach, Contents
<1>6. CASE UNCHANGED kernel
  BY <1>6 DEF kernel
<1>7. QED
  BY <1>2, <1>3, <1>4, <1>5, <1>6

LEMMA SizesInit == Init => SizesInv
  BY ZeroedTrunk DEF Init, Shm!Init, SizesInv, Shm!Segment, Zeroed

LEMMA SizesAcquire ==
  ASSUME TypeInv, SizesInv, NEW p \in Procs, Acquire(p)
  PROVE  SizesInv'
<1> USE DEF TypeInv
<1>1. \A i \in Shm!Ids : segs'[i].trunk.size \in {0, segs[i].trunk.size}
  <2>1. Need(p) \in Nat /\ shmId[p] \in Shm!Ids \cup {0}
    BY LifecycleAssumption DEF Need, LocalsOK
  <2>2. QED
    BY <2>1, KernelSizes DEF Acquire, CreateInstance, GetInstance, Call, ShmgetExcl,
       ShmgetAny, ShmgetOld, RemoveOld, ShmgetAgain, Shmat, NewSegment
<1>2. want' = want \/ \E n \in Sizes : Rounds(n) /\ want' = [want EXCEPT ![p] = Rounded(n)]
  BY DEF Acquire, CreateInstance, GetInstance, Call, ShmgetExcl, ShmgetAny, ShmgetOld,
     RemoveOld, ShmgetAgain, Shmat, NewSegment
<1>3. \A q \in Procs : want'[q] # 0 => IsRounded(want'[q])
  BY <1>2 DEF SizesInv, IsRounded, LocalsOK
<1>4. QED
  BY <1>1, <1>3 DEF SizesInv, IsRounded

LEMMA SizesWork ==
  ASSUME TypeInv, SizesInv, NEW p \in Procs, Work(p)
  PROVE  SizesInv'
<1> USE DEF TypeInv
<1>1. addr[p] \in Shm!Ids
  BY DEF Work, Zero, StoreIndices, StoreSize, StoreMode, StoreField, InitBeginLock,
     InitEndLock, Send, Receive, Attached, AttachedOK
<1>2. Trunk(p) \in Trunks
  BY <1>1 DEF Trunk, KernelOK, SegsOK, Contents
<1>3. want' = want
  BY DEF Work, Zero, StoreIndices, StoreSize, StoreMode, StoreField, InitBeginLock,
     InitEndLock, Send, Receive
<1>4. CASE InitBeginLock(p) \/ InitEndLock(p)
  BY <1>3, <1>4 DEF InitBeginLock, InitEndLock, kernel, SizesInv, IsRounded
<1>5. CASE ~(InitBeginLock(p) \/ InitEndLock(p))
  <2>1. PICK t : Shm!Store(p, t) /\ t.size \in {0, Trunk(p).size, want[p]}
    <3>1. CASE StoreSize(p)
      <4>1. [Trunk(p) EXCEPT !.key = TRUE, !.size = want[p]].size = want[p]
        BY <1>2 DEF Trunks
      <4>2. QED
        BY <3>1, <4>1 DEF StoreSize, StoreField
    <3>2. CASE ~StoreSize(p)
      BY <1>2, <1>5, <3>2 DEF Work, Zero, Zeroed, StoreIndices, StoreMode, StoreField,
         Send, Receive, Trunks
    <3>3. QED
      BY <3>1, <3>2
  <2>2. segs'[addr[p]].trunk = t /\ \A i \in Shm!Ids \ {addr[p]} : segs'[i] = segs[i]
    BY <1>1, <2>1, StoreEffect
  <2>3. QED
    BY <1>1, <1>3, <2>1, <2>2 DEF SizesInv, IsRounded, Trunk
<1>6. QED
  BY <1>4, <1>5

LEMMA SizesLeave ==
  ASSUME TypeInv, SizesInv, NEW p \in Procs, Leave(p)
  PROVE  SizesInv'
<1> USE DEF TypeInv
<1>1. \A i \in Shm!Ids : segs'[i].trunk.size \in {0, segs[i].trunk.size}
  <2>1. shmId[p] \in Shm!Ids \cup {0}
    BY DEF LocalsOK
  <2>2. QED
    BY <2>1, KernelSizes DEF Leave, Delete, Shmdt, RemoveKeyed, FreeLocks, Exit
<1>2. want' = want \/ want' = [want EXCEPT ![p] = 0]
  BY DEF Leave, Delete, Shmdt, RemoveKeyed, FreeLocks, Exit
<1>3. QED
  BY <1>1, <1>2 DEF SizesInv, IsRounded, LocalsOK

LEMMA SizesStep == TypeInv /\ SizesInv /\ [Next]_vars => SizesInv'
<1> SUFFICES ASSUME TypeInv, SizesInv, [Next]_vars PROVE SizesInv'
  OBVIOUS
<1>1. CASE Next
  BY <1>1, Steps, SizesAcquire, SizesWork, SizesLeave
<1>2. CASE UNCHANGED vars
  BY <1>2 DEF vars, SizesInv, IsRounded
<1>3. QED
  BY <1>1, <1>2

\* Whatever sizes programs ask for, up to twice the values of an int (Fls counts
\* the bits of these, or spins), and whoever resumes, removes or recreates what,
\* a ring is only ever masked with the least power of two that holds a size
\* some caller passed.
THEOREM SizesRoundUp ==
  ASSUME \A n \in Sizes : n <= 2 * IntMod
  PROVE  Spec => []RoundsUp
<1>1. SizesInv => RoundsUp
  <2> SUFFICES ASSUME SizesInv, NEW i \in Shm!Ids, segs[i].trunk.size # 0
               PROVE  /\ \E k \in 0..segs[i].trunk.size : segs[i].trunk.size = 2^k
                      /\ \E n \in Sizes : n <= segs[i].trunk.size /\ segs[i].trunk.size < 2 * n
    BY DEF RoundsUp
  <2>1. PICK n \in Sizes : Rounds(n) /\ segs[i].trunk.size = Rounded(n)
    BY DEF SizesInv, IsRounded
  <2>2. n \in Nat \ {0} /\ n <= 2 * IntMod
    BY LifecycleAssumption
  <2>3. /\ \E k \in 0..Rounded(n) : Rounded(n) = 2^k
        /\ n <= Rounded(n) /\ Rounded(n) < 2 * n
    BY <2>1, <2>2, RoundedIs
  <2>4. QED
    BY <2>1, <2>3
<1>2. Init /\ [][Next]_vars => []SizesInv
  BY SizesInit, SizesStep, TypeInvariant, PTL DEF Spec
<1>3. QED
  BY <1>1, <1>2, PTL DEF Spec

-----------------------------------------------------------------------------
(* What holds while users agree.  No call then ever comes to the point     *)
(* where it would remove a segment, so the segment that was created first  *)
(* is the only one.  If creators are orderly as well, one works at a time, *)
(* and what is in the trunk of a queue is what every creator stores there. *)

\* Everybody asks for one size that can be had, and nobody is on the way to
\* remove anything.
OneSize ==
  /\ asked # 0 => asked + TRUNK <= SHMMAX
  /\ \A p \in Procs : pc[p] \notin {"out", "spin"} => want[p] = asked /\ asked # 0
  /\ \A p \in Procs : pc[p] \in {"out", "spin", "excl", "get", "shmat", "zero", "stores",
                                 "beginlock", "endlock", "in", "fault"}

\* One segment at most has ever been created, and the key leads to it.
OneLive ==
  \A i \in Shm!Ids :
    \/ segs[i].state = "none"
    \/ /\ segs[i].state = "live"
       /\ keyed = i
       /\ segs[i].size = asked + TRUNK
       /\ asked # 0

\* All processes have found it.
AllThere ==
  /\ \A p \in Procs :
       /\ pc[p] = "get" => keyed # 0
       /\ pc[p] = "shmat" => keyed # 0 /\ shmId[p] = keyed
       /\ addr[p] # 0 => addr[p] = keyed
  /\ made \subseteq {keyed}

Agreement == OneSize /\ OneLive /\ AllThere

\* What creators have stored is what they all store.
StoredSize == segs[keyed].trunk.size = asked /\ segs[keyed].trunk.key
StoredMode == segs[keyed].trunk.mode = Mode

\* One creator is at work at most, and before the queue exists if it is one that
\* starts from zeros.
OneBuilder ==
  /\ \A p, q \in Procs :
       /\ call[p] = "create" /\ pc[p] \in Building
       /\ call[q] = "create" /\ pc[q] \in Building
       => p = q
  /\ \A p \in Procs :
       /\ Impl[p] = "cpp" /\ call[p] = "create"
       => /\ pc[p] \in {"excl", "get", "shmat", "zero", "stores"} => made = {}
          /\ pc[p] \in {"beginlock", "endlock", "in"} => made # {}
  /\ \A p \in Procs : pc[p] = "zero" => Impl[p] = "cpp"

\* The trunk of a queue that exists is filled in, that of one at work as far as
\* its creator has come.
Filled ==
  /\ made # {} => StoredSize /\ StoredMode
  /\ \A p \in Procs : pc[p] = "stores" =>
       /\ "size" \notin todo[p] => StoredSize
       /\ "mode" \notin todo[p] => StoredMode
  /\ late # {} => made # {}

\* The pointers of an object are those of the mode.
LocksSet ==
  \A p \in Procs : Impl[p] = "cpp" /\ (call[p] = "create" \/ p \in late) =>
    /\ pc[p] \in {"endlock", "in"} /\ Mode \in {"MUL_READ_MUL_WRITE", "MUL_READ_ONE_WRITE"} =>
         lock[p].begin = "lock"
    /\ pc[p] = "in" /\ Mode \in {"MUL_READ_MUL_WRITE", "ONE_READ_MUL_WRITE"} =>
         lock[p].end = "lock"

Order == OneBuilder /\ Filled /\ LocksSet

AgreedInv == (agreed => Agreement) /\ (orderly => agreed /\ Order)

LEMMA AgreedInit == Init => AgreedInv
  BY ZeroedTrunk DEF Init, Shm!Init, AgreedInv, Agreement, OneSize, OneLive, AllThere,
     Order, OneBuilder, Filled, LocksSet, Building, Shm!Segment

\* As long as nothing is under the key, nobody is further than his first shmget.
LEMMA NoQueueYet ==
  ASSUME TypeInv, RingInv, Agreement, keyed = 0
  PROVE  /\ made = {}
         /\ \A i \in Shm!Ids : segs[i].state = "none"
         /\ \A p \in Procs : addr[p] = 0 /\ pc[p] \in {"out", "spin", "excl", "fault"}
<1> USE DEF Agreement
<1>1. made = {}
  <2>1. \A i \in made : i \in 1..MaxSegs /\ i = 0
    BY DEF TypeInv, HistoryOK, AllThere
  <2>2. QED
    BY <2>1, LifecycleAssumption
<1>2. \A i \in Shm!Ids : segs[i].state = "none"
  BY DEF OneLive
<1>3. \A p \in Procs : addr[p] = 0
  BY DEF TypeInv, KernelOK, AddrOK, AllThere
<1>4. \A p \in Procs : pc[p] \in {"out", "spin", "excl", "fault"}
  BY <1>3 DEF TypeInv, AttachedOK, Attached, OneSize, AllThere
<1>5. QED
  BY <1>1, <1>2, <1>3, <1>4

\* Otherwise the segment under the key is as large as everybody asks.
LEMMA QueueThere ==
  ASSUME TypeInv, RingInv, Agreement, keyed # 0
  PROVE  /\ keyed \in Shm!Ids /\ Shm!Exists(keyed)
         /\ segs[keyed].size = asked + TRUNK
         /\ asked # 0
  BY DEF TypeInv, KernelOK, KeyedOK, RingInv, UsedExist, Agreement, OneLive, Shm!Exists

LEMMA AgreedCall ==
  ASSUME TypeInv, RingInv, AgreedInv, NEW p \in Procs, NEW n \in Sizes,
         NEW c \in {"create", "attach"}, Call(p, c, n)
  PROVE  AgreedInv'
<1> USE DEF TypeInv
<1>1. CASE ~agreed'
  <2>1. ~orderly'
    BY <1>1 DEF Call, Record, Disagree, history, AgreedInv
  <2>2. QED
    BY <1>1, <2>1 DEF AgreedInv
<1>2. CASE agreed'
  <2>1. agreed
    BY <1>2 DEF Call, Record, Disagree, history
  <2> USE <2>1 DEF AgreedInv, Agreement
  <2>2. /\ UNCHANGED <<kernel, shmId, lock, todo, made>>
        /\ call' = [call EXCEPT ![p] = c]
        /\ late' \in {late, late \cup {p}}
        /\ late' # {} => late # {} \/ made # {}
        /\ pc[p] = "out"
    BY <1>2 DEF Call, Record, Disagree, history
  <2>3. \/ /\ pc' = [pc EXCEPT ![p] = "excl"] /\ want' = [want EXCEPT ![p] = asked']
           /\ asked' # 0 /\ asked' \in Nat /\ asked \in {0, asked'} /\ asked' + TRUNK <= SHMMAX
        \/ pc' = [pc EXCEPT ![p] = "spin"] /\ want' = want /\ asked' = asked
    <3>1. CASE Rounds(n)
      BY <1>2, <3>1, RoundedSize DEF Call, Record, Agrees, Disagree, Goto
    <3>2. CASE ~Rounds(n)
      BY <3>2 DEF Call, history, Goto
    <3>3. QED
      BY <3>1, <3>2
  <2>4. OneSize'
    BY <2>3 DEF OneSize, LocalsOK
  <2>5. OneLive'
    BY <2>2, <2>3 DEF OneLive, kernel
  <2>6. AllThere'
    BY <2>2, <2>3 DEF AllThere, kernel, LocalsOK
  <2>7. keyed # 0 => asked' = asked
    BY <2>3, QueueThere
  <2>8. ASSUME orderly' PROVE Order'
    <3>1. orderly
      BY <1>2, <2>8 DEF Call, Record, Disagree, history
    <3> USE <3>1 DEF Order
    <3>2. \A q \in Procs \ {p} : pc'[q] = pc[q] /\ call'[q] = call[q]
      BY <2>2, <2>3 DEF LocalsOK
    <3>3. pc'[p] = "spin" \/ (pc'[p] = "excl" /\ (call'[p] = "create" => InOrder(p)))
      <4>1. CASE Rounds(n)
        BY <1>2, <2>2, <2>8, <4>1 DEF Call, Record, Disagree, Goto, LocalsOK
      <4>2. CASE ~Rounds(n)
        BY <4>2 DEF Call, Goto, LocalsOK
      <4>3. QED
        BY <4>1, <4>2
    <3>4. keyed \notin made => made = {}
      BY DEF AllThere
    <3>5. OneBuilder'
      BY <2>2, <3>2, <3>3, <3>4 DEF OneBuilder, InOrder, Building
    <3>6. Filled'
      <4>1. made # {} => keyed # 0
        BY NoQueueYet
      <4>2. \A q \in Procs : pc'[q] = "stores" => pc[q] = "stores" /\ keyed # 0
        BY <3>2, <3>3, NoQueueYet
      <4>3. QED
        BY <2>2, <2>7, <4>1, <4>2 DEF Filled, StoredSize, StoredMode, kernel
    <3>7. LocksSet'
      BY <2>2, <3>2, <3>3 DEF LocksSet
    <3>8. QED
      BY <3>5, <3>6, <3>7
  <2>9. QED
    BY <1>2, <2>4, <2>5, <2>6, <2>8
<1>3. QED
  BY <1>1, <1>2

\* The call that finds no segment creates the only one.
LEMMA AgreedNew ==
  ASSUME TypeInv, RingInv, AgreedInv, agreed, NEW p \in Procs, NEW i \in Shm!Ids,
         pc[p] = "excl", NewSegment(p, i), UNCHANGED <<call, want, lock, todo, history>>
  PROVE  AgreedInv'
<1> USE DEF TypeInv, AgreedInv, Agreement
<1>1. keyed = 0
  BY DEF NewSegment, Shm!Alloc
<1>2. /\ made = {}
      /\ \A j \in Shm!Ids : segs[j].state = "none"
      /\ \A q \in Procs : addr[q] = 0 /\ pc[q] \in {"out", "spin", "excl", "fault"}
  BY <1>1, NoQueueYet
<1>3. /\ pc' = [pc EXCEPT ![p] = "shmat"] /\ shmId' = [shmId EXCEPT ![p] = i]
      /\ keyed' = i /\ addr' = addr
      /\ made' = {} /\ late' = late /\ asked' = asked /\ orderly' = orderly /\ agreed'
  BY <1>2 DEF NewSegment, Shm!Alloc, Goto, history
<1>4. OneSize'
  BY <1>3 DEF OneSize, LocalsOK
<1>5. OneLive'
  <2>1. want[p] = asked /\ asked # 0
    BY DEF OneSize
  <2>2. segs'[i] = [Shm!Segment EXCEPT !.state = "live", !.size = Need(p)]
    BY DEF NewSegment, Shm!Alloc, KernelOK, SegsOK
  <2>3. segs'[i].state = "live" /\ segs'[i].size = asked + TRUNK
    BY <2>1, <2>2, ZeroedTrunk DEF Contents, Need
  <2>4. \A j \in Shm!Ids \ {i} : segs'[j].state = "none"
    BY <1>2 DEF NewSegment, Shm!Alloc
  <2>5. QED
    BY <1>3, <2>1, <2>3, <2>4 DEF OneLive
<1>6. AllThere'
  BY <1>2, <1>3 DEF AllThere, LocalsOK
<1>7. ASSUME orderly' PROVE Order'
  <2> USE <1>3, <1>7 DEF Order
  <2>1. \A q \in Procs : /\ pc'[q] \in {"out", "spin", "excl", "fault", "shmat"}
                         /\ pc'[q] \in Building => pc[q] \in Building
    BY <1>2 DEF LocalsOK, Building
  <2>2. QED
    BY <1>2, <2>1 DEF OneBuilder, Filled, LocksSet
<1>8. QED
  BY <1>3, <1>4, <1>5, <1>6, <1>7

LEMMA AgreedAcquire ==
  ASSUME TypeInv, RingInv, AgreedInv, NEW p \in Procs, Acquire(p)
  PROVE  AgreedInv'
<1> USE DEF TypeInv
<1>1. CASE \E n \in Sizes : CreateInstance(p, n) \/ GetInstance(p, n)
  BY <1>1, AgreedCall DEF CreateInstance, GetInstance
<1>2. CASE ~ \E n \in Sizes : CreateInstance(p, n) \/ GetInstance(p, n)
  <2>1. UNCHANGED <<call, want, lock, todo, history>>
    BY <1>2 DEF Acquire, ShmgetExcl, ShmgetAny, ShmgetOld, RemoveOld, ShmgetAgain, Shmat
  <2>2. CASE ~agreed
    BY <2>1, <2>2 DEF history, AgreedInv
  <2>3. CASE agreed
    <3> USE <2>3 DEF AgreedInv, Agreement
    <3>1. pc[p] \in {"excl", "get", "shmat"}
      BY <1>2 DEF OneSize, Acquire, ShmgetExcl, ShmgetAny, ShmgetOld, RemoveOld,
         ShmgetAgain, Shmat
    <3>2. Need(p) = asked + TRUNK /\ ~CannotCreate(p)
      BY <3>1, LifecycleAssumption DEF OneSize, Need, CannotCreate, HistoryOK
    <3>3. pc[p] \in {"get", "shmat"} =>
            /\ keyed \in Shm!Ids /\ Shm!Exists(keyed) /\ LargeEnough(p)
            /\ pc[p] = "shmat" => shmId[p] = keyed
      BY <3>2, QueueThere, LifecycleAssumption DEF AllThere, LargeEnough, HistoryOK
    <3>4. CASE \E i \in Shm!Ids : pc[p] = "excl" /\ NewSegment(p, i)
      BY <2>1, <3>4, AgreedNew
    <3>5. CASE \/ /\ UNCHANGED <<segs, keyed, addr, shmId>> /\ pc[p] = "excl" /\ keyed # 0
                  /\ Goto(p, "get")
               \/ /\ UNCHANGED <<segs, keyed, addr>> /\ pc[p] = "get" /\ Goto(p, "shmat")
                  /\ shmId' = [shmId EXCEPT ![p] = keyed]
               \/ /\ UNCHANGED <<segs, keyed>> /\ pc[p] = "shmat" /\ Goto(p, FirstPc(p))
                  /\ addr' = [addr EXCEPT ![p] = keyed]
                  /\ shmId' = [shmId EXCEPT ![p] = 0]
      <4>0. /\ FirstPc(p) \in {"zero", "beginlock"}
            /\ Impl[p] = "cpp" /\ call[p] = "create" => FirstPc(p) = "zero"
            /\ FirstPc(p) = "zero" => Impl[p] = "cpp"
        BY LifecycleAssumption DEF FirstPc, InitLockFirst
      <4>1. /\ pc'[p] \in {"get", "shmat", "zero", "beginlock"}
            /\ pc'[p] = "beginlock" => ~(Impl[p] = "cpp" /\ call[p] = "create")
            /\ pc'[p] = "zero" => Impl[p] = "cpp"
            /\ \A q \in Procs \ {p} : pc'[q] = pc[q] /\ addr'[q] = addr[q] /\ shmId'[q] = shmId[q]
        BY <3>5, <4>0 DEF Goto, LocalsOK, KernelOK, AddrOK
      <4>2. /\ segs' = segs /\ keyed' = keyed /\ keyed # 0
            /\ addr'[p] \in {addr[p], keyed}
            /\ pc'[p] = "shmat" => shmId'[p] = keyed
        BY <3>3, <3>5, <4>0 DEF Goto, LocalsOK, KernelOK, AddrOK
      <4>3. OneSize'
        BY <2>1, <3>1, <4>1 DEF OneSize, history
      <4>4. OneLive'
        BY <2>1, <4>2 DEF OneLive, history
      <4>5. AllThere'
        BY <2>1, <4>1, <4>2 DEF AllThere, history
      <4>6. ASSUME orderly PROVE Order'
        <5> USE <4>6 DEF Order
        <5>1. OneBuilder'
          BY <2>1, <3>1, <4>1 DEF OneBuilder, Building, history
        <5>2. Filled'
          BY <2>1, <4>1, <4>2 DEF Filled, StoredSize, StoredMode, history
        <5>3. LocksSet'
          BY <2>1, <4>1 DEF LocksSet, history
        <5>4. QED
          BY <5>1, <5>2, <5>3
      <4>7. QED
        BY <2>1, <4>3, <4>4, <4>5, <4>6 DEF history
    <3>6. CASE ShmgetExcl(p)
      BY <3>2, <3>4, <3>5, <3>6 DEF ShmgetExcl, kernel
    <3>7. CASE ShmgetAny(p)
      BY <3>3, <3>5, <3>7 DEF ShmgetAny, kernel, NewSegment, Shm!Alloc
    <3>8. CASE Shmat(p)
      BY <3>3, <3>5, <3>8 DEF Shmat, Shm!Attach
    <3>9. QED
      BY <1>2, <3>1, <3>6, <3>7, <3>8 DEF Acquire, ShmgetOld, RemoveOld, ShmgetAgain
  <2>4. QED
    BY <2>2, <2>3
<1>3. QED
  BY <1>1, <1>2

\* What a step of a constructor, or of a user, does to the trunk, as far as the
\* invariant looks at it.
LEMMA WorkEffect ==
  ASSUME TypeInv, RingInv, agreed, Agreement, NEW p \in Procs, Work(p)
  PROVE  /\ keyed \in Shm!Ids /\ addr[p] = keyed /\ pc[p] \in Attached
         /\ Trunk(p) = segs[keyed].trunk
         /\ keyed' = keyed /\ addr' = addr /\ call' = call /\ want' = want /\ shmId' = shmId
         /\ late' = late /\ agreed' = agreed /\ asked' = asked /\ orderly' = orderly
         /\ \A q \in Procs \ {p} : pc'[q] = pc[q] /\ todo'[q] = todo[q] /\ lock'[q] = lock[q]
         /\ pc'[p] \in {"stores", "beginlock", "endlock", "in", "fault"}
         /\ \/ Zero(p) /\ made' = made /\ pc'[p] = "stores" /\ todo'[p] = Fields /\ lock' = lock
            \/ /\ \E f \in todo[p] :
                    /\ todo'[p] = todo[p] \ {f}
                    /\ \/ todo[p] # {f} /\ made' = made /\ pc' = pc
                       \/ /\ todo[p] = {f} /\ made' = made \cup {keyed}
                          /\ pc'[p] = IF Impl[p] = "c" THEN "in" ELSE "beginlock"
                    /\ f = "size" \/ StoredSize => StoredSize'
                    /\ f = "mode" \/ StoredMode => StoredMode'
               /\ pc[p] = "stores" /\ lock' = lock
            \/ /\ pc[p] \in {"beginlock", "endlock"} /\ segs' = segs /\ made' = made
               /\ InitBeginLock(p) \/ InitEndLock(p)
            \/ /\ pc[p] = "in" /\ pc' = pc /\ made' = made /\ todo' = todo /\ lock' = lock
               /\ StoredSize => StoredSize'
               /\ StoredMode => StoredMode'
<1> USE DEF TypeInv, Agreement
<1>1. pc[p] \in Attached /\ addr[p] \in Shm!Ids
  BY DEF Work, Zero, StoreIndices, StoreSize, StoreMode, StoreField, InitBeginLock,
     InitEndLock, Send, Receive, Attached, AttachedOK
<1>2. addr[p] = keyed /\ keyed \in Shm!Ids
  BY <1>1, LifecycleAssumption DEF AllThere
<1>3. Trunk(p) = segs[keyed].trunk /\ Trunk(p) \in Trunks
  BY <1>2 DEF Trunk, KernelOK, SegsOK, Contents
<1>4. want[p] = asked
  BY <1>1 DEF OneSize, Attached
<1>5. /\ keyed' = keyed /\ addr' = addr /\ call' = call /\ want' = want /\ shmId' = shmId
      /\ late' = late /\ agreed' = agreed /\ asked' = asked /\ orderly' = orderly
  BY <1>2 DEF Work, Zero, StoreIndices, StoreSize, StoreMode, StoreField, InitBeginLock,
     InitEndLock, Send, Receive, kernel, history, Shm!Store
<1>6. \A q \in Procs \ {p} : pc'[q] = pc[q] /\ todo'[q] = todo[q] /\ lock'[q] = lock[q]
  BY DEF Work, Zero, StoreIndices, StoreSize, StoreMode, StoreField, InitBeginLock,
     InitEndLock, Send, Receive, Goto, LocalsOK
<1>7. pc'[p] \in {"stores", "beginlock", "endlock", "in", "fault"}
  BY DEF Work, Zero, StoreIndices, StoreSize, StoreMode, StoreField, InitBeginLock,
     InitEndLock, Send, Receive, Goto, LocalsOK
<1>8. CASE Zero(p)
  BY <1>1, <1>2, <1>3, <1>5, <1>6, <1>7, <1>8 DEF Zero, history, LocalsOK, Goto
<1>9. ASSUME NEW f, NEW t \in Trunks, StoreField(p, f, t),
             f = "size" \/ (t.size = Trunk(p).size /\ t.key = Trunk(p).key),
             f = "size" => t.size = want[p] /\ t.key,
             f = "mode" \/ t.mode = Trunk(p).mode,
             f = "mode" => t.mode = Mode
      PROVE  /\ f \in todo[p] /\ todo'[p] = todo[p] \ {f}
             /\ \/ todo[p] # {f} /\ made' = made /\ pc' = pc
                \/ /\ todo[p] = {f} /\ made' = made \cup {keyed}
                   /\ pc'[p] = IF Impl[p] = "c" THEN "in" ELSE "beginlock"
             /\ f = "size" \/ StoredSize => StoredSize'
             /\ f = "mode" \/ StoredMode => StoredMode'
             /\ pc[p] = "stores" /\ lock' = lock
  <2>1. segs'[keyed].trunk = t
    BY <1>2, <1>9, StoreEffect DEF StoreField
  <2>2. /\ f = "size" \/ StoredSize => StoredSize'
        /\ f = "mode" \/ StoredMode => StoredMode'
    BY <1>3, <1>4, <1>5, <1>9, <2>1 DEF StoredSize, StoredMode
  <2>3. /\ f \in todo[p] /\ todo'[p] = todo[p] \ {f}
        /\ pc[p] = "stores" /\ lock' = lock
    BY <1>9 DEF StoreField, LocalsOK
  <2>4. \/ todo[p] # {f} /\ made' = made /\ pc' = pc
        \/ /\ todo[p] = {f} /\ made' = made \cup {keyed}
           /\ pc'[p] = IF Impl[p] = "c" THEN "in" ELSE "beginlock"
    BY <1>2, <1>9 DEF StoreField, Goto, InitLockFirst, LocalsOK
  <2>5. QED
    BY <2>2, <2>3, <2>4
<1>10. CASE StoreIndices(p)
  <2>1. [Trunk(p) EXCEPT !.msgs = 0] \in Trunks
    BY <1>3, LifecycleAssumption DEF Trunks
  <2>2. QED
    BY <1>1, <1>2, <1>3, <1>5, <1>6, <1>7, <1>9, <1>10, <2>1 DEF StoreIndices, Trunks
<1>11. CASE StoreSize(p)
  <2>1. [Trunk(p) EXCEPT !.key = TRUE, !.size = want[p]] \in Trunks
    BY <1>3 DEF Trunks, LocalsOK
  <2>2. QED
    BY <1>1, <1>2, <1>3, <1>5, <1>6, <1>7, <1>9, <1>11, <2>1 DEF StoreSize, Trunks
<1>12. CASE StoreMode(p)
  <2>1. [Trunk(p) EXCEPT !.mode = Mode] \in Trunks
    BY <1>3, LifecycleAssumption DEF Trunks
  <2>2. QED
    BY <1>1, <1>2, <1>3, <1>5, <1>6, <1>7, <1>9, <1>12, <2>1 DEF StoreMode, Trunks
<1>13. CASE InitBeginLock(p) \/ InitEndLock(p)
  BY <1>1, <1>2, <1>3, <1>5, <1>6, <1>7, <1>13 DEF InitBeginLock, InitEndLock, kernel, history
<1>14. CASE Send(p) \/ Receive(p)
  <2>1. PICK m : Shm!Store(p, [Trunk(p) EXCEPT !.msgs = m])
    BY <1>14 DEF Send, Receive
  <2>2. segs'[keyed].trunk = [Trunk(p) EXCEPT !.msgs = m]
    BY <1>2, <2>1, StoreEffect
  <2>3. /\ StoredSize => StoredSize'
        /\ StoredMode => StoredMode'
    BY <1>3, <1>5, <2>2 DEF StoredSize, StoredMode, Trunks
  <2>4. pc[p] = "in" /\ pc' = pc /\ made' = made /\ todo' = todo /\ lock' = lock
    BY <1>14 DEF Send, Receive, history
  <2>5. QED
    BY <1>1, <1>2, <1>3, <1>5, <1>6, <1>7, <2>3, <2>4
<1>15. QED
  BY <1>8, <1>10, <1>11, <1>12, <1>13, <1>14 DEF Work

LEMMA AgreedWork ==
  ASSUME TypeInv, RingInv, AgreedInv, NEW p \in Procs, Work(p)
  PROVE  AgreedInv'
<1> USE DEF TypeInv
<1>1. CASE ~agreed
  <2>1. agreed' = agreed /\ orderly' = orderly
    BY DEF Work, Zero, StoreIndices, StoreSize, StoreMode, StoreField, InitBeginLock,
       InitEndLock, Send, Receive, history
  <2>2. QED
    BY <1>1, <2>1 DEF AgreedInv
<1>2. CASE agreed
  <2> USE <1>2 DEF AgreedInv, Agreement
  <2>1. /\ keyed \in Shm!Ids /\ addr[p] = keyed /\ pc[p] \in Attached
        /\ Trunk(p) = segs[keyed].trunk
        /\ keyed' = keyed /\ addr' = addr /\ call' = call /\ want' = want /\ shmId' = shmId
        /\ late' = late /\ agreed' = agreed /\ asked' = asked /\ orderly' = orderly
        /\ \A q \in Procs \ {p} : pc'[q] = pc[q] /\ todo'[q] = todo[q] /\ lock'[q] = lock[q]
        /\ pc'[p] \in {"stores", "beginlock", "endlock", "in", "fault"}
        /\ made' = made \/ made' = made \cup {keyed}
    BY WorkEffect
  <2>2. \A i \in Shm!Ids : segs'[i].size = segs[i].size /\ segs'[i].state = segs[i].state
    BY <2>1, StoresOnly
  <2>3. OneSize'
    BY <2>1 DEF OneSize, Attached
  <2>4. OneLive'
    BY <2>1, <2>2 DEF OneLive
  <2>5. AllThere'
    BY <2>1 DEF AllThere
  <2>6. ASSUME orderly PROVE Order'
    <3> USE <2>6 DEF Order
    <3>1. pc'[p] \in Building => pc[p] \in Building
      BY <2>1, WorkEffect DEF Building, Zero
    <3>2. CASE Zero(p)
      <4>1. /\ made' = made /\ pc'[p] = "stores" /\ todo'[p] = Fields /\ lock' = lock
            /\ pc[p] = "zero" /\ call[p] = "create"
        BY <3>2 DEF Zero, history, Goto, LocalsOK, RingInv, CreatorFits
      <4>2. Impl[p] = "cpp"
        BY <4>1 DEF OneBuilder
      <4>3. made = {}
        BY <4>1, <4>2 DEF OneBuilder
      <4>4. \A q \in Procs : pc[q] = "stores" => q = p
        BY <4>1 DEF OneBuilder, Building, RingInv, CreatorFits
      <4>5. OneBuilder'
        BY <2>1, <3>1, <4>1, <4>2, <4>3 DEF OneBuilder
      <4>6. Filled'
        BY <2>1, <4>1, <4>3, <4>4 DEF Filled, Fields
      <4>7. LocksSet'
        BY <2>1, <4>1 DEF LocksSet
      <4>8. QED
        BY <4>5, <4>6, <4>7
    <3>3. CASE pc[p] = "stores"
      <4>1. PICK f \in todo[p] :
              /\ todo'[p] = todo[p] \ {f}
              /\ \/ todo[p] # {f} /\ made' = made /\ pc' = pc
                 \/ /\ todo[p] = {f} /\ made' = made \cup {keyed}
                    /\ pc'[p] = IF Impl[p] = "c" THEN "in" ELSE "beginlock"
              /\ f = "size" \/ StoredSize => StoredSize'
              /\ f = "mode" \/ StoredMode => StoredMode'
              /\ lock' = lock
        BY <3>3, WorkEffect DEF Zero, InitBeginLock, InitEndLock
      <4>2. call[p] = "create"
        BY <3>3 DEF RingInv, CreatorFits
      <4>3. \A q \in Procs \ {p} : ~(call[q] = "create" /\ pc[q] \in Building)
        BY <3>3, <4>2 DEF OneBuilder, Building
      <4>4. OneBuilder'
        BY <2>1, <3>1, <3>3, <4>1, <4>2, <4>3, LifecycleAssumption DEF OneBuilder, Building
      <4>5. Filled'
        <5>1. \A q \in Procs \ {p} : pc[q] # "stores"
          BY <4>3 DEF Building, RingInv, CreatorFits
        <5>2. /\ "size" \notin todo'[p] => StoredSize'
              /\ "mode" \notin todo'[p] => StoredMode'
          BY <3>3, <4>1 DEF Filled
        <5>3. todo[p] = {f} => "size" \notin todo'[p] /\ "mode" \notin todo'[p]
          BY <4>1
        <5>4. QED
          BY <2>1, <3>3, <4>1, <5>1, <5>2, <5>3 DEF Filled
      <4>6. LocksSet'
        BY <2>1, <3>3, <4>1, <4>2 DEF LocksSet
      <4>7. QED
        BY <4>4, <4>5, <4>6
    <3>4. CASE pc[p] \in {"beginlock", "endlock"}
      <4>1. segs' = segs /\ made' = made /\ (InitBeginLock(p) \/ InitEndLock(p))
        BY <3>4, WorkEffect DEF Zero
      <4>2. Impl[p] = "cpp" => pc'[p] \in {"endlock", "in"} /\ todo' = todo
        BY <4>1 DEF InitBeginLock, InitEndLock, Goto, LocalsOK, InitLockFirst
      <4>3. pc'[p] = "stores" => todo'[p] = Fields /\ call[p] = "create"
        BY <4>1 DEF InitBeginLock, InitEndLock, Goto, LocalsOK
      <4>4. OneBuilder'
        BY <2>1, <3>1, <3>4, <4>1, <4>2 DEF OneBuilder
      <4>5. Filled'
        BY <2>1, <4>1, <4>3 DEF Filled, StoredSize, StoredMode, Fields
      <4>6. LocksSet'
        <5>1. ASSUME Impl[p] = "cpp", call[p] = "create" \/ p \in late
              PROVE  Trunk(p).mode = Mode /\ NewLock(p) = "lock"
          BY <2>1, <3>4, <5>1 DEF OneBuilder, Filled, StoredSize, StoredMode, NewLock
        <5>2. ASSUME Impl[p] = "cpp", call[p] = "create" \/ p \in late
              PROVE  /\ Mode \in {"MUL_READ_MUL_WRITE", "MUL_READ_ONE_WRITE"} =>
                          lock'[p].begin = "lock"
                     /\ pc'[p] = "in" /\ Mode \in {"MUL_READ_MUL_WRITE", "ONE_READ_MUL_WRITE"} =>
                          lock'[p].end = "lock"
          <6>1. CASE InitBeginLock(p)
            BY <5>1, <5>2, <6>1 DEF InitBeginLock, Goto, IsBeginLock, LocalsOK
          <6>2. CASE InitEndLock(p)
            BY <5>1, <5>2, <6>2 DEF InitEndLock, IsEndLock, LocalsOK, LocksSet
          <6>3. QED
            BY <4>1, <6>1, <6>2
        <5>3. QED
          BY <2>1, <5>2 DEF LocksSet
      <4>7. QED
        BY <4>4, <4>5, <4>6
    <3>5. CASE pc[p] = "in"
      <4>1. /\ pc' = pc /\ made' = made /\ todo' = todo /\ lock' = lock
            /\ StoredSize => StoredSize'
            /\ StoredMode => StoredMode'
        BY <3>5, WorkEffect DEF Zero
      <4>2. QED
        BY <2>1, <4>1 DEF OneBuilder, Filled, LocksSet
    <3>6. QED
      BY <3>2, <3>3, <3>4, <3>5, WorkEffect
  <2>7. QED
    BY <2>1, <2>3, <2>4, <2>5, <2>6
<1>3. QED
  BY <1>1, <1>2

LEMMA AgreedLeave ==
  ASSUME TypeInv, RingInv, AgreedInv, NEW p \in Procs, Leave(p)
  PROVE  AgreedInv'
<1> USE DEF TypeInv
<1>1. CASE ~agreed'
  BY <1>1 DEF Leave, Delete, Disagree, Shmdt, RemoveKeyed, FreeLocks, Exit, history, AgreedInv
<1>2. CASE agreed'
  <2>1. agreed
    BY <1>2 DEF Leave, Delete, Disagree, Shmdt, RemoveKeyed, FreeLocks, Exit, history
  <2> USE <2>1 DEF AgreedInv, Agreement
  <2>2. Exit(p)
    BY <1>2 DEF Leave, Delete, Disagree, Shmdt, RemoveKeyed, FreeLocks, OneSize
  <2>3. \A i \in Shm!Ids : segs[i].state # "removed"
    BY DEF OneLive
  <2>4. segs' = segs
    BY <2>2, <2>3 DEF Exit, Shm!Detach, KernelOK, SegsOK
  <2>5. /\ keyed' = keyed /\ addr' = [addr EXCEPT ![p] = 0] /\ pc' = [pc EXCEPT ![p] = "out"]
        /\ call' = [call EXCEPT ![p] = "none"] /\ want' = [want EXCEPT ![p] = 0]
        /\ shmId' = [shmId EXCEPT ![p] = 0] /\ lock' = [lock EXCEPT ![p] = NoLocks]
        /\ todo' = [todo EXCEPT ![p] = {}]
        /\ late' = late \ {p} /\ made' = made /\ asked' = asked
        /\ orderly' = orderly
    BY <2>2 DEF Exit, Shm!Detach, Goto
  <2>6. OneSize'
    BY <2>5 DEF OneSize, LocalsOK
  <2>7. OneLive'
    BY <2>4, <2>5 DEF OneLive
  <2>8. AllThere'
    BY <2>5 DEF AllThere, LocalsOK, KernelOK, AddrOK
  <2>9. ASSUME orderly PROVE Order'
    <3> USE <2>9 DEF Order
    <3>1. OneBuilder'
      BY <2>5 DEF OneBuilder, Building, LocalsOK
    <3>2. Filled'
      BY <2>4, <2>5 DEF Filled, StoredSize, StoredMode, LocalsOK
    <3>3. LocksSet'
      BY <2>5 DEF LocksSet, LocalsOK
    <3>4. QED
      BY <3>1, <3>2, <3>3
  <2>10. QED
    BY <1>2, <2>5, <2>6, <2>7, <2>8, <2>9
<1>3. QED
  BY <1>1, <1>2

LEMMA AgreedStep == TypeInv /\ RingInv /\ AgreedInv /\ [Next]_vars => AgreedInv'
<1> SUFFICES ASSUME TypeInv, RingInv, AgreedInv, [Next]_vars PROVE AgreedInv'
  OBVIOUS
<1>1. CASE Next
  BY <1>1, Steps, AgreedAcquire, AgreedWork, AgreedLeave
<1>2. CASE UNCHANGED vars
  BY <1>2 DEF vars, AgreedInv, Agreement, OneSize, OneLive, AllThere, Order, OneBuilder,
     Filled, StoredSize, StoredMode, LocksSet
<1>3. QED
  BY <1>1, <1>2

LEMMA AgreedInvariant == Spec => []AgreedInv
  BY AgreedInit, AgreedStep, TypeInvariant, RingInvariant, PTL DEF Spec

\* As long as users ask for one size and destroy nothing, they all work on one
\* segment and no call fails, however their first calls interleave.
THEOREM UsersShareSegment == Spec => []OneSegment
<1>1. AgreedInv => OneSegment
  BY DEF AgreedInv, Agreement, OneSize, AllThere, OneSegment
<1>2. QED
  BY <1>1, AgreedInvariant, PTL

\* Under the same condition a queue that has been created stays under its key,
\* through the deaths of all its users, and stays initialised if creators come
\* one at a time.
THEOREM QueueOutlivesUsers == Spec => []QueuePersists
<1>1. TypeInv /\ AgreedInv => QueuePersists
  BY DEF TypeInv, HistoryOK, AgreedInv, Agreement, AllThere, Order, Filled, StoredSize,
     StoredMode, QueuePersists
<1>2. QED
  BY <1>1, TypeInvariant, AgreedInvariant, PTL

\* Under both conditions an object of the class that was created, or attached to
\* a queue that existed, has every lock that SendMessage and GetMessage take.
THEOREM ObjectsHaveLocks == Spec => []ClassHasLocks
<1>1. TypeInv /\ AgreedInv => ClassHasLocks
  <2> SUFFICES ASSUME TypeInv, Agreement, Order, NEW p \in Procs, Impl[p] = "cpp", InUse(p)
               PROVE  HasLocks(p)
    BY DEF AgreedInv, ClassHasLocks
  <2>1. made # {} /\ addr[p] \in Shm!Ids
    BY DEF TypeInv, AttachedOK, Attached, Order, OneBuilder, Filled, InUse
  <2>2. addr[p] = keyed
    BY <2>1, LifecycleAssumption DEF Agreement, AllThere
  <2>3. Trunk(p).mode = Mode
    BY <2>1, <2>2 DEF Order, Filled, StoredMode, Trunk
  <2>4. QED
    BY <2>3 DEF Order, LocksSet, HasLocks, InUse, IsBeginLock, IsEndLock
<1>2. QED
  BY <1>1, TypeInvariant, AgreedInvariant, PTL
=============================================================================
