--------------------------- MODULE SemQueueProofs ---------------------------
(***************************************************************************)
(* That the queue on semaphore sets is a ShmQueue, for any number of       *)
(* processes, any ring and any deaths, provided that no process attaches   *)
(* to a set that is being created (Simultaneous = FALSE).                  *)
(*                                                                         *)
(* A step of SemQueue is a step, or none, of three machines: of ShmQueue   *)
(* and of one ShmRWlock for each semaphore set.  The invariants proved of  *)
(* ShmRWlock then hold of both sets, and say that a semop goes through     *)
(* exactly when RWLock, on the holders recorded in beginLock and endLock,  *)
(* lets the call through.                                                  *)
(***************************************************************************)
EXTENDS SemQueue, ShmQueueFifoProofs

BeginProofs == INSTANCE ShmRWlockProofs
  WITH exists <- beginSet, sem <- beginSem, adj <- beginAdj, pc <- BeginPlaces

EndProofs == INSTANCE ShmRWlockProofs
  WITH exists <- endSet, sem <- endSem, adj <- endAdj, pc <- EndPlaces

-----------------------------------------------------------------------------
(* The two sets satisfy the invariant of ShmRWlock.                        *)

LEMMA FiniteProcs == BeginProofs!IsFiniteSet(Procs) /\ EndProofs!IsFiniteSet(Procs)
BY SemQueueAssumption DEF BeginProofs!IsFiniteSet, EndProofs!IsFiniteSet, IsFiniteSet

LEMMA BeginInit == BeginSem!Init => BeginProofs!IInv
<1>1. BeginSem!Init => BeginProofs!Init
  BY DEF BeginSem!Init, BeginSem!Zero, BeginProofs!Init, BeginProofs!Zero
<1>2. QED
  BY <1>1, BeginProofs!InvInit, FiniteProcs, SemQueueAssumption

LEMMA EndInit == EndSem!Init => EndProofs!IInv
<1>1. EndSem!Init => EndProofs!Init
  BY DEF EndSem!Init, EndSem!Zero, EndProofs!Init, EndProofs!Zero
<1>2. QED
  BY <1>1, EndProofs!InvInit, FiniteProcs, SemQueueAssumption

LEMMA BeginStep ==
  ASSUME Simultaneous = FALSE, BeginProofs!IInv, [BeginSem!Next]_(BeginSem!vars)
  PROVE  BeginProofs!IInv'
<1>1. [BeginProofs!Next]_(BeginProofs!vars)
  BY DEF BeginSem!Next, BeginSem!vars, BeginSem!Create, BeginSem!SetAll, BeginSem!Attach,
         BeginSem!WantR, BeginSem!WantW, BeginSem!Rlock, BeginSem!Wlock, BeginSem!TryRlock,
         BeginSem!TryWlock, BeginSem!AcquireR, BeginSem!AcquireW, BeginSem!UnRlock,
         BeginSem!UnWlock, BeginSem!Exit, BeginSem!Goto, BeginSem!Zero, BeginSem!AtLeast0,
         BeginProofs!Next, BeginProofs!vars, BeginProofs!Create, BeginProofs!SetAll,
         BeginProofs!Attach, BeginProofs!WantR, BeginProofs!WantW, BeginProofs!Rlock,
         BeginProofs!Wlock, BeginProofs!TryRlock, BeginProofs!TryWlock,
         BeginProofs!AcquireR, BeginProofs!AcquireW, BeginProofs!UnRlock,
         BeginProofs!UnWlock, BeginProofs!Exit, BeginProofs!Goto, BeginProofs!Zero,
         BeginProofs!AtLeast0
<1>2. QED
  BY <1>1, BeginProofs!InvStep, FiniteProcs, SemQueueAssumption

LEMMA EndStep ==
  ASSUME Simultaneous = FALSE, EndProofs!IInv, [EndSem!Next]_(EndSem!vars)
  PROVE  EndProofs!IInv'
<1>1. [EndProofs!Next]_(EndProofs!vars)
  BY DEF EndSem!Next, EndSem!vars, EndSem!Create, EndSem!SetAll, EndSem!Attach,
         EndSem!WantR, EndSem!WantW, EndSem!Rlock, EndSem!Wlock, EndSem!TryRlock,
         EndSem!TryWlock, EndSem!AcquireR, EndSem!AcquireW, EndSem!UnRlock,
         EndSem!UnWlock, EndSem!Exit, EndSem!Goto, EndSem!Zero, EndSem!AtLeast0,
         EndProofs!Next, EndProofs!vars, EndProofs!Create, EndProofs!SetAll,
         EndProofs!Attach, EndProofs!WantR, EndProofs!WantW, EndProofs!Rlock,
         EndProofs!Wlock, EndProofs!TryRlock, EndProofs!TryWlock, EndProofs!AcquireR,
         EndProofs!AcquireW, EndProofs!UnRlock, EndProofs!UnWlock, EndProofs!Exit,
         EndProofs!Goto, EndProofs!Zero, EndProofs!AtLeast0
<1>2. QED
  BY <1>1, EndProofs!InvStep, FiniteProcs, SemQueueAssumption

\* What a counter of zero says about the places.
LEMMA BeginZero ==
  ASSUME BeginProofs!IInv
  PROVE  /\ beginSem.w = 0 => Holders(BeginPlaces).w = {}
         /\ beginSem.r = 0 => Holders(BeginPlaces).r = {}
BY BeginProofs!Counters, FiniteProcs, SemQueueAssumption
   DEF BeginProofs!WritersIn, BeginProofs!ReadersIn, Holders

LEMMA EndZero ==
  ASSUME EndProofs!IInv
  PROVE  /\ endSem.w = 0 => Holders(EndPlaces).w = {}
         /\ endSem.r = 0 => Holders(EndPlaces).r = {}
BY EndProofs!Counters, FiniteProcs, SemQueueAssumption
   DEF EndProofs!WritersIn, EndProofs!ReadersIn, Holders

-----------------------------------------------------------------------------
(* The holders.                                                            *)

LEMMA HoldersMove ==
  ASSUME NEW f, DOMAIN f = Procs, NEW p \in Procs, NEW l
  PROVE  Holders([f EXCEPT ![p] = l]) =
           [w |-> IF l = "writing" THEN Holders(f).w \cup {p} ELSE Holders(f).w \ {p},
            r |-> IF l = "reading" THEN Holders(f).r \cup {p} ELSE Holders(f).r \ {p}]
<1> DEFINE g == [f EXCEPT ![p] = l]
<1>1. \A q \in Procs : g[q] = IF q = p THEN l ELSE f[q]
  OBVIOUS
<1> HIDE DEF g
<1>2. Holders(g).w = IF l = "writing" THEN Holders(f).w \cup {p} ELSE Holders(f).w \ {p}
  BY <1>1 DEF Holders
<1>3. Holders(g).r = IF l = "reading" THEN Holders(f).r \cup {p} ELSE Holders(f).r \ {p}
  BY <1>1 DEF Holders
<1>4. Holders(g) = [w |-> Holders(g).w, r |-> Holders(g).r]
  BY DEF Holders
<1>5. QED
  BY <1>2, <1>3, <1>4 DEF g

\* Going from one place outside the lock to another changes no holder.
LEMMA HoldersStay ==
  ASSUME NEW f, DOMAIN f = Procs, NEW p \in Procs, NEW l,
         f[p] \notin {"reading", "writing"}, l \notin {"reading", "writing"}
  PROVE  Holders([f EXCEPT ![p] = l]) = Holders(f)
BY DEF Holders

LEMMA PlacesDomain ==
  /\ DOMAIN BeginPlaces = Procs
  /\ DOMAIN EndPlaces = Procs
BY DEF BeginPlaces, EndPlaces

LEMMA LockExcept ==
  ASSUME NEW f, NEW s
  PROVE  /\ [Holders(f) EXCEPT !.w = s] = [w |-> s, r |-> Holders(f).r]
         /\ [Holders(f) EXCEPT !.r = s] = [w |-> Holders(f).w, r |-> s]
<1>1. \A k \in [w : SUBSET Procs, r : SUBSET Procs] :
        /\ [k EXCEPT !.w = s] = [w |-> s, r |-> k.r]
        /\ [k EXCEPT !.r = s] = [w |-> k.w, r |-> s]
  OBVIOUS
<1>2. Holders(f) \in [w : SUBSET Procs, r : SUBSET Procs]
  BY DEF Holders
<1>3. QED
  BY <1>1, <1>2

\* The semops on the set of m_iBegin are the operations of its RWLock.
LEMMA BeginOps ==
  ASSUME BeginProofs!IInv, NEW p \in Procs,
         beginLock = Holders(BeginPlaces), beginLock' = Holders(BeginPlaces')
  PROVE  /\ BeginSem!Rlock(p) => BeginLock!Rlock(p)
         /\ BeginSem!Wlock(p) => BeginLock!Wlock(p)
         /\ BeginSem!UnRlock(p) => BeginLock!UnRlock(p)
         /\ BeginSem!UnWlock(p) => BeginLock!UnWlock(p)
         /\ BeginSem!Exit(p) => BeginLock!Undo(p)
<1>1. beginLock = [w |-> beginLock.w, r |-> beginLock.r]
  BY DEF Holders
<1>2. ASSUME BeginSem!Rlock(p) PROVE BeginLock!Rlock(p)
  <2>1. beginLock.w = {} /\ BeginPlaces' = [BeginPlaces EXCEPT ![p] = "reading"]
    BY <1>2, BeginZero DEF BeginSem!Rlock, BeginSem!AcquireR, BeginSem!Goto
  <2>2. beginLock' = [w |-> beginLock.w \ {p}, r |-> beginLock.r \cup {p}]
    BY <2>1, HoldersMove, PlacesDomain
  <2>3. beginLock' = [w |-> beginLock.w, r |-> beginLock.r \cup {p}]
    <3>1. beginLock.w \ {p} = beginLock.w
      BY <2>1
    <3>2. beginLock.r \cup {p} = beginLock.r \cup {p}
      BY <2>1
    <3>3. QED
      BY <2>2, <3>1, <3>2
  <2>4. QED
    BY <2>1, <2>3, LockExcept DEF BeginLock!Rlock
<1>3. ASSUME BeginSem!Wlock(p) PROVE BeginLock!Wlock(p)
  <2>1. /\ beginLock.w = {} /\ beginLock.r = {}
        /\ BeginPlaces' = [BeginPlaces EXCEPT ![p] = "writing"]
    BY <1>3, BeginZero DEF BeginSem!Wlock, BeginSem!AcquireW, BeginSem!Goto
  <2>2. beginLock' = [w |-> beginLock.w \cup {p}, r |-> beginLock.r \ {p}]
    BY <2>1, HoldersMove, PlacesDomain
  <2>3. beginLock' = [w |-> {p}, r |-> beginLock.r]
    <3>1. beginLock.w \cup {p} = {p}
      BY <2>1
    <3>2. beginLock.r \ {p} = beginLock.r
      BY <2>1
    <3>3. QED
      BY <2>2, <3>1, <3>2
  <2>4. QED
    BY <2>1, <2>3, LockExcept DEF BeginLock!Wlock
<1>4. ASSUME BeginSem!UnRlock(p) PROVE BeginLock!UnRlock(p)
  <2>1. p \in beginLock.r /\ p \notin beginLock.w
        /\ BeginPlaces' = [BeginPlaces EXCEPT ![p] = "free"]
    BY <1>4 DEF BeginSem!UnRlock, BeginSem!Goto, Holders
  <2>2. beginLock' = [w |-> beginLock.w \ {p}, r |-> beginLock.r \ {p}]
    BY <2>1, HoldersMove, PlacesDomain
  <2>3. beginLock' = [w |-> beginLock.w, r |-> beginLock.r \ {p}]
    <3>1. beginLock.w \ {p} = beginLock.w
      BY <2>1
    <3>2. beginLock.r \ {p} = beginLock.r \ {p}
      BY <2>1
    <3>3. QED
      BY <2>2, <3>1, <3>2
  <2>4. QED
    BY <2>1, <2>3, LockExcept DEF BeginLock!UnRlock
<1>5. ASSUME BeginSem!UnWlock(p) PROVE BeginLock!UnWlock(p)
  <2>1. p \in beginLock.w /\ p \notin beginLock.r
        /\ BeginPlaces' = [BeginPlaces EXCEPT ![p] = "free"]
    BY <1>5 DEF BeginSem!UnWlock, BeginSem!Goto, Holders
  <2>2. beginLock' = [w |-> beginLock.w \ {p}, r |-> beginLock.r \ {p}]
    BY <2>1, HoldersMove, PlacesDomain
  <2>3. beginLock' = [w |-> beginLock.w \ {p}, r |-> beginLock.r]
    <3>1. beginLock.w \ {p} = beginLock.w \ {p}
      BY <2>1
    <3>2. beginLock.r \ {p} = beginLock.r
      BY <2>1
    <3>3. QED
      BY <2>2, <3>1, <3>2
  <2>4. QED
    BY <2>1, <2>3, LockExcept DEF BeginLock!UnWlock
<1>6. ASSUME BeginSem!Exit(p) PROVE BeginLock!Undo(p)
  <2>1. BeginPlaces' = [BeginPlaces EXCEPT ![p] = "out"]
    BY <1>6 DEF BeginSem!Exit, BeginSem!Goto
  <2>2. QED
    BY <2>1, HoldersMove, PlacesDomain DEF BeginLock!Undo
<1>7. QED
  BY <1>2, <1>3, <1>4, <1>5, <1>6

\* So are those on the set of m_iEnd, which nobody takes in shared mode.
LEMMA EndOps ==
  ASSUME EndProofs!IInv, NEW p \in Procs,
         endLock = Holders(EndPlaces), endLock' = Holders(EndPlaces')
  PROVE  /\ EndSem!Wlock(p) => EndLock!Wlock(p)
         /\ EndSem!UnWlock(p) => EndLock!UnWlock(p)
         /\ EndSem!Exit(p) => EndLock!Undo(p)
<1>1. endLock = [w |-> endLock.w, r |-> endLock.r]
  BY DEF Holders
<1>2. ASSUME EndSem!Wlock(p) PROVE EndLock!Wlock(p)
  <2>1. /\ endLock.w = {} /\ endLock.r = {}
        /\ EndPlaces' = [EndPlaces EXCEPT ![p] = "writing"]
    BY <1>2, EndZero DEF EndSem!Wlock, EndSem!AcquireW, EndSem!Goto
  <2>2. endLock' = [w |-> endLock.w \cup {p}, r |-> endLock.r \ {p}]
    BY <2>1, HoldersMove, PlacesDomain
  <2>3. endLock' = [w |-> {p}, r |-> endLock.r]
    <3>1. endLock.w \cup {p} = {p}
      BY <2>1
    <3>2. endLock.r \ {p} = endLock.r
      BY <2>1
    <3>3. QED
      BY <2>2, <3>1, <3>2
  <2>4. QED
    BY <2>1, <2>3, LockExcept DEF EndLock!Wlock
<1>3. ASSUME EndSem!UnWlock(p) PROVE EndLock!UnWlock(p)
  <2>1. p \in endLock.w /\ p \notin endLock.r
        /\ EndPlaces' = [EndPlaces EXCEPT ![p] = "free"]
    BY <1>3 DEF EndSem!UnWlock, EndSem!Goto, Holders
  <2>2. endLock' = [w |-> endLock.w \ {p}, r |-> endLock.r \ {p}]
    BY <2>1, HoldersMove, PlacesDomain
  <2>3. endLock' = [w |-> endLock.w \ {p}, r |-> endLock.r]
    <3>1. endLock.w \ {p} = endLock.w \ {p}
      BY <2>1
    <3>2. endLock.r \ {p} = endLock.r
      BY <2>1
    <3>3. QED
      BY <2>2, <3>1, <3>2
  <2>4. QED
    BY <2>1, <2>3, LockExcept DEF EndLock!UnWlock
<1>4. ASSUME EndSem!Exit(p) PROVE EndLock!Undo(p)
  <2>1. EndPlaces' = [EndPlaces EXCEPT ![p] = "out"]
    BY <1>4 DEF EndSem!Exit, EndSem!Goto
  <2>2. QED
    BY <2>1, HoldersMove, PlacesDomain DEF EndLock!Undo
<1>5. QED
  BY <1>2, <1>3, <1>4

-----------------------------------------------------------------------------
(* The calls.                                                              *)

LEMMA EveryoneLocks == \A p \in Procs : Locks(p) /\ Impl[p] = "cpp"
BY SemQueueAssumption DEF Locks, IsBeginLock, IsEndLock

\* The other processes are where they were.
OthersStay(p) == \A q \in Procs : q # p => pc'[q] = pc[q] /\ loc'[q] = loc[q]

\* Entering a call leads from outside the lock to waiting for it.
Enters(p) == pc[p] = "idle" /\ CallPlace(p)' \in {"wantR", "wantW"}

\* A step inside a call, its returns to the guard's destructor included,
\* leaves the process where it is with respect to the lock.
LEMMA StaysIn ==
  ASSUME TypeInv, NEW p \in Procs, pc[p] \notin {"idle", "lock"},
         \/ \E x \in Int : Return(p, x)
         \/ \E l \in InnerPcs \cup {"fault"} : Goto(p, l)
              /\ \A q \in Procs : /\ loc'[q].op = loc[q].op
                                  /\ q # p => loc'[q] = loc[q]
  PROVE  OthersStay(p) /\ CallPlace(p)' = CallPlace(p)
<1> USE DEF InnerPcs, SizePcs, CopyPcs
<1>1. CASE \E x \in Int : Return(p, x)
  <2>1. PICK x \in Int : Return(p, x)
    BY <1>1
  <2>2. OthersStay(p)
    BY <2>1, Returning DEF OthersStay
  <2>3. ReturnPc(p) = "unlock"
    BY EveryoneLocks DEF ReturnPc
  <2>4. pc'[p] = "unlock" /\ loc'[p] = [NoCall EXCEPT !.op = loc[p].op]
    BY <2>1, <2>3 DEF Return, Goto, TypeInv, TypeOK
  <2>5. SharedRead(p)' = SharedRead(p)
    BY <2>4 DEF SharedRead, NoCall
  <2>6. QED
    BY <2>2, <2>4, <2>5 DEF CallPlace
<1>2. CASE \E l \in InnerPcs \cup {"fault"} : Goto(p, l)
             /\ \A q \in Procs : /\ loc'[q].op = loc[q].op
                                 /\ q # p => loc'[q] = loc[q]
  <2>1. PICK l \in InnerPcs \cup {"fault"} : Goto(p, l)
    BY <1>2
  <2>2. pc'[p] = l /\ \A q \in Procs : q # p => pc'[q] = pc[q]
    BY <2>1 DEF Goto, TypeInv, TypeOK
  <2>3. SharedRead(p)' = SharedRead(p)
    BY <1>2 DEF SharedRead
  <2>4. QED
    BY <1>2, <2>2, <2>3 DEF OthersStay, CallPlace
<1>3. QED
  BY <1>1, <1>2

\* A change of one local other than the kind of call.
LEMMA LocalSet ==
  ASSUME TypeInv, NEW p \in Procs, NEW l, l.op = loc[p].op,
         loc' = [loc EXCEPT ![p] = l]
  PROVE  /\ \A q \in Procs : /\ loc'[q].op = loc[q].op
                             /\ q # p => loc'[q] = loc[q]
BY DEF TypeInv, TypeOK

LEMMA SizesStayIn ==
  ASSUME TypeInv, NEW p \in Procs,
         SizeEqual(p) \/ SizeOrder(p) \/ SizeWrapped(p) \/ SizeMiddle(p)
  PROVE  OthersStay(p) /\ CallPlace(p)' = CallPlace(p)
<1>1. pc[p] \notin {"idle", "lock"}
  BY DEF SizeEqual, SizeOrder, SizeWrapped, SizeMiddle
<1>2. CASE \E l \in InnerPcs : Goto(p, l) /\ UNCHANGED loc
  BY <1>1, <1>2, StaysIn
<1>3. ASSUME NEW n, SizeKnown(p, n)
      PROVE  OthersStay(p) /\ CallPlace(p)' = CallPlace(p)
  <2>1. CASE \E x \in Int : Return(p, x)
    BY <1>1, <2>1, StaysIn
  <2>2. CASE /\ Goto(p, "head")
             /\ loc' = [loc EXCEPT ![p].room = MaxLength(p, n)]
    <3> DEFINE l == [loc[p] EXCEPT !.room = MaxLength(p, n)]
    <3>1. l.op = loc[p].op
      BY DEF TypeInv, TypeOK, Locals
    <3>2. loc' = [loc EXCEPT ![p] = l]
      BY <2>2
    <3> HIDE DEF l
    <3>3. QED
      BY <1>1, <2>2, <3>1, <3>2, LocalSet, StaysIn DEF InnerPcs, CopyPcs
  <2>3. \/ \E l \in InnerPcs : Goto(p, l) /\ UNCHANGED loc
        \/ \E x \in Int : Return(p, x)
        \/ Goto(p, "head") /\ loc' = [loc EXCEPT ![p].room = MaxLength(p, n)]
    BY <1>3 DEF SizeKnown, SendCheck, ReadCheck, ReadSequenceError, QUEUE_NO_SPACE,
                QUEUE_NO_MESSAGE, QUEUE_DATA_SEQUENCE_ERROR, InnerPcs, CopyPcs
  <2>4. QED
    BY <1>2, <2>1, <2>2, <2>3
<1>4. QED
  BY <1>2, <1>3 DEF SizeEqual, SizeOrder, SizeWrapped, SizeMiddle, InnerPcs, SizePcs

LEMMA CopiesStayIn ==
  ASSUME TypeInv, NEW p \in Procs,
         \/ WriteHeader(p) \/ WriteFirst(p) \/ WriteRest(p) \/ Publish(p)
         \/ ReadHeader(p) \/ ReadFirst(p) \/ ReadRest(p)
         \/ Consume(p) \/ Answer(p) \/ ResetEnd(p) \/ ResetBegin(p)
  PROVE  OthersStay(p) /\ CallPlace(p)' = CallPlace(p)
<1> USE DEF InnerPcs, CopyPcs
<1>1. pc[p] \notin {"idle", "lock"}
  BY DEF WriteHeader, WriteFirst, WriteRest, Publish, ReadHeader, ReadFirst, ReadRest,
         Consume, Answer, ResetEnd, ResetBegin
<1>2. loc[p] \in Locals /\ loc[p].len \in Int
  BY DEF TypeInv, TypeOK, Locals
<1>3. CASE WriteFirst(p) \/ WriteRest(p) \/ ReadFirst(p) \/ ReadRest(p)
  BY <1>1, <1>3, StaysIn DEF WriteFirst, WriteRest, ReadFirst, ReadRest
<1>4. CASE Publish(p) \/ Consume(p) \/ Answer(p) \/ ResetBegin(p)
  BY <1>1, <1>2, <1>4, StaysIn DEF Publish, Consume, Answer, ResetBegin, QUEUE_OK,
                                   QUEUE_DATA_SEQUENCE_ERROR
<1>5. CASE WriteHeader(p)
  <2> DEFINE m == [src |-> p, num |-> sent[p] + 1, len |-> loc[p].len, pos |-> end]
             l == [loc[p] EXCEPT !.msg = m, !.idx = Slot(end, HDR)]
  <2>1. l.op = loc[p].op
    BY <1>2 DEF Locals
  <2>2. loc' = [loc EXCEPT ![p] = l] /\ Goto(p, "copy")
    BY <1>5 DEF WriteHeader
  <2> HIDE DEF l
  <2>3. QED
    BY <1>1, <2>1, <2>2, LocalSet, StaysIn
<1>6. CASE ReadHeader(p)
  <2>1. PICK n : Decode(p, n)
    BY <1>6 DEF ReadHeader
  <2>2. CASE ReadSequenceError(p)
    BY <1>1, <2>2, StaysIn DEF ReadSequenceError, QUEUE_DATA_SEQUENCE_ERROR
  <2>3. CASE /\ Goto(p, IF loc[p].op = "del" THEN "publish" ELSE "copy")
             /\ loc' = [loc EXCEPT ![p].len = n, ![p].idx = Slot(begin, HDR)]
    <3> DEFINE l == [loc[p] EXCEPT !.len = n, !.idx = Slot(begin, HDR)]
    <3>1. l.op = loc[p].op
      BY <1>2 DEF Locals
    <3>2. loc' = [loc EXCEPT ![p] = l]
      BY <2>3
    <3> HIDE DEF l
    <3>3. QED
      BY <1>1, <2>3, <3>1, <3>2, LocalSet, StaysIn
  <2>4. QED
    BY <2>1, <2>2, <2>3 DEF Decode
<1>7. CASE ResetEnd(p)
  <2> DEFINE l == [loc[p] EXCEPT !.idx = end]
  <2>1. l.op = loc[p].op
    BY <1>2 DEF Locals
  <2>2. loc' = [loc EXCEPT ![p] = l] /\ Goto(p, "resetBegin")
    BY <1>7 DEF ResetEnd
  <2> HIDE DEF l
  <2>3. QED
    BY <1>1, <2>1, <2>2, LocalSet, StaysIn
<1>8. QED
  BY <1>3, <1>4, <1>5, <1>6, <1>7

LEMMA EntriesMove ==
  ASSUME TypeInv, NEW p \in Procs,
         \/ \E n \in Lens : SendMessage(p, n)
         \/ \E op \in Ops : ReadMessage(p, op) \/ ReadNull(p, op)
  PROVE  OthersStay(p) /\ (Enters(p) \/ CallPlace(p)' = CallPlace(p))
<1>1. CASE UNCHANGED <<pc, loc>>
  BY <1>1 DEF OthersStay, CallPlace, SharedRead
<1>2. CASE /\ pc[p] = "idle"
           /\ Goto(p, IF Locks(p) THEN "lock" ELSE "equal")
           /\ \E l : loc' = [loc EXCEPT ![p] = l]
  <2>1. pc'[p] = "lock" /\ OthersStay(p)
    BY <1>2, EveryoneLocks DEF Goto, TypeInv, TypeOK, OthersStay
  <2>2. CallPlace(p)' \in {"wantR", "wantW"}
    BY <2>1 DEF CallPlace
  <2>3. QED
    BY <1>2, <2>1, <2>2 DEF Enters
<1>3. QED
  BY <1>1, <1>2 DEF SendMessage, ReadMessage, ReadNull

\* What a step of the ring, entering a call included, does to the places.
LEMMA RingMoves ==
  ASSUME TypeInv, NEW p \in Procs, RingWork(p)
  PROVE  OthersStay(p) /\ (Enters(p) \/ CallPlace(p)' = CallPlace(p))
BY SizesStayIn, CopiesStayIn, EntriesMove DEF RingWork, ReadEnd

-----------------------------------------------------------------------------
(* The invariant.                                                          *)

Stages == {"down", "setBegin", "half", "setEnd", "up"}

\* A process that is not through InitLock has not made a call since it started.
Unused ==
  \A p \in Procs : stage[p] # "up" =>
    /\ pc[p] = "idle" /\ loc[p] = NoCall /\ ret[p] = 0
    /\ p \in Readers => got[p] = NoMsg

\* The recorded holders are those the semops have let through.
Recorded == beginLock = Holders(BeginPlaces) /\ endLock = Holders(EndPlaces)

SemInv ==
  /\ TypeInv
  /\ stage \in [Procs -> Stages]
  /\ Unused
  /\ Recorded
  /\ BeginProofs!IInv
  /\ EndProofs!IInv

\* What a step of p makes of the three machines, and of p's own state.
Simulates(p) ==
  /\ [Next]_vars
  /\ [BeginSem!Next]_(BeginSem!vars)
  /\ [EndSem!Next]_(EndSem!vars)
  /\ Recorded'
  /\ \E s \in Stages : Advance(p, s)
  /\ \A q \in Procs : q # p => UNCHANGED <<pc[q], loc[q], ret[q]>>
  /\ \A q \in Readers : q # p => got'[q] = got[q]
  /\ stage'[p] # "up" =>
       /\ pc'[p] = "idle" /\ loc'[p] = NoCall /\ ret'[p] = 0
       /\ p \in Readers => got'[p] = NoMsg

LEMMA SimulationKeeps ==
  ASSUME Simultaneous = FALSE, SemInv, NEW p \in Procs, Simulates(p)
  PROVE  SemInv'
<1>1. TypeInv'
  BY TypeStep DEF SemInv, Simulates
<1>2. stage' \in [Procs -> Stages] /\ \A q \in Procs : q # p => stage'[q] = stage[q]
  BY DEF SemInv, Simulates, Advance
<1>3. Unused'
  BY <1>2 DEF SemInv, Simulates, Unused, Procs
<1>4. BeginProofs!IInv' /\ EndProofs!IInv'
  BY BeginStep, EndStep DEF SemInv, Simulates
<1>5. QED
  BY <1>1, <1>2, <1>3, <1>4 DEF SemInv, Simulates

\* A set whose places and counters stay has stood still.
LEMMA StandStill ==
  /\ BeginPlaces' = BeginPlaces /\ UNCHANGED beginKernel => UNCHANGED BeginSem!vars
  /\ EndPlaces' = EndPlaces /\ UNCHANGED endKernel => UNCHANGED EndSem!vars
BY DEF BeginSem!vars, EndSem!vars, beginKernel, endKernel

\* Where p is in InitLock and in a call.
LEMMA PlaceOf ==
  ASSUME SemInv, NEW p \in Procs
  PROVE  /\ stage[p] \in Stages
         /\ BeginPlaces[p] = "out" <=> stage[p] = "down"
         /\ BeginPlaces[p] = "setall" <=> stage[p] = "setBegin"
         /\ EndPlaces[p] = "out" <=> stage[p] \in {"down", "setBegin", "half"}
         /\ EndPlaces[p] = "setall" <=> stage[p] = "setEnd"
         /\ EndPlaces[p] = "out" => BeginPlaces[p] \notin {"reading", "writing"}
<1>1. stage[p] \in Stages
  BY DEF SemInv
<1>2. CallPlace(p) \in {"free", "wantR", "wantW", "reading", "writing"}
  BY DEF CallPlace
<1>3. stage[p] = "half" => CallPlace(p) = "free"
  BY DEF SemInv, Unused, CallPlace
<1>4. BeginPlaces[p] = "out" <=> stage[p] = "down"
  BY <1>1, <1>2 DEF BeginPlaces
<1>5. BeginPlaces[p] = "setall" <=> stage[p] = "setBegin"
  BY <1>1, <1>2 DEF BeginPlaces
<1>6. EndPlaces[p] = "out" <=> stage[p] \in {"down", "setBegin", "half"}
  BY <1>1, <1>2 DEF EndPlaces
<1>7. EndPlaces[p] = "setall" <=> stage[p] = "setEnd"
  BY <1>1, <1>2 DEF EndPlaces
<1>8. stage[p] \in {"down", "setBegin", "half"} =>
        BeginPlaces[p] \notin {"reading", "writing"}
  BY <1>3 DEF BeginPlaces
<1>9. QED
  BY <1>1, <1>4, <1>5, <1>6, <1>7, <1>8

-----------------------------------------------------------------------------
(* InitLock.                                                               *)

LEMMA InitBeginSimulates ==
  ASSUME SemInv, NEW p \in Procs, InitBeginLock(p)
  PROVE  Simulates(p)
<1>1. PICK l \in {"setall", "free"}, s \in {"setBegin", "half"} :
        /\ BeginSem!Next
        /\ BeginPlaces' = [BeginPlaces EXCEPT ![p] = l]
        /\ BeginPlaces[p] \in {"out", "setall"}
        /\ Advance(p, s)
  BY DEF InitBeginLock, BeginSem!Next, BeginSem!Create, BeginSem!SetAll, BeginSem!Attach,
         BeginSem!Goto
<1>2. UNCHANGED vars /\ UNCHANGED endKernel
  BY DEF InitBeginLock
<1>3. stage[p] \in {"down", "setBegin"}
  BY <1>1, PlaceOf
<1>4. stage'[p] = s /\ \A q \in Procs : q # p => stage'[q] = stage[q]
  BY <1>1 DEF Advance, SemInv
<1>5. \A q \in Procs : CallPlace(q)' = CallPlace(q)
  BY <1>2 DEF vars, CallPlace, SharedRead
<1>6. EndPlaces' = EndPlaces
  BY <1>1, <1>3, <1>4, <1>5 DEF EndPlaces
<1>7. Recorded'
  BY <1>1, <1>2, <1>6, HoldersStay, PlacesDomain DEF SemInv, Recorded, vars
<1>8. pc'[p] = "idle" /\ loc'[p] = NoCall /\ ret'[p] = 0
      /\ (p \in Readers => got'[p] = NoMsg)
  BY <1>2, <1>3 DEF SemInv, Unused, vars
<1>9. UNCHANGED EndSem!vars
  BY <1>2, <1>6, StandStill
<1>10. QED
  BY <1>1, <1>2, <1>7, <1>8, <1>9 DEF Simulates, vars, Stages

LEMMA InitEndSimulates ==
  ASSUME SemInv, NEW p \in Procs, InitEndLock(p)
  PROVE  Simulates(p)
<1>1. PICK l \in {"setall", "free"}, s \in {"setEnd", "up"} :
        /\ EndSem!Next
        /\ EndPlaces' = [EndPlaces EXCEPT ![p] = l]
        /\ stage[p] = "half" \/ EndPlaces[p] = "setall"
        /\ Advance(p, s)
  BY DEF InitEndLock, EndSem!Next, EndSem!Create, EndSem!SetAll, EndSem!Attach, EndSem!Goto
<1>2. UNCHANGED vars /\ UNCHANGED beginKernel
  BY DEF InitEndLock
<1>3. stage[p] \in {"half", "setEnd"}
  BY <1>1, PlaceOf
<1>4. stage'[p] = s /\ \A q \in Procs : q # p => stage'[q] = stage[q]
  BY <1>1 DEF Advance, SemInv
<1>5. \A q \in Procs : CallPlace(q)' = CallPlace(q)
  BY <1>2 DEF vars, CallPlace, SharedRead
<1>6. BeginPlaces' = BeginPlaces
  BY <1>1, <1>3, <1>4, <1>5 DEF BeginPlaces
<1>7. EndPlaces[p] \notin {"reading", "writing"}
  BY <1>3, PlaceOf
<1>8. Recorded'
  BY <1>1, <1>2, <1>6, <1>7, HoldersStay, PlacesDomain DEF SemInv, Recorded, vars
<1>9. pc'[p] = "idle" /\ loc'[p] = NoCall /\ ret'[p] = 0
      /\ (p \in Readers => got'[p] = NoMsg)
  BY <1>2, <1>3 DEF SemInv, Unused, vars
<1>10. UNCHANGED BeginSem!vars
  BY <1>2, <1>6, StandStill
<1>11. QED
  BY <1>1, <1>2, <1>8, <1>9, <1>10 DEF Simulates, vars, Stages

-----------------------------------------------------------------------------
(* The calls.                                                              *)

\* What a step of the ring leaves alone.
LEMMA RingFrame ==
  ASSUME SemInv, NEW p \in Procs, RingWork(p)
  PROVE  /\ Next
         /\ UNCHANGED <<beginLock, endLock>>
         /\ \A q \in Procs : q # p => ret'[q] = ret[q]
         /\ \A q \in Readers : q # p => got'[q] = got[q]
<1> USE DEF SemInv, TypeInv, TypeOK
<1>1. ASSUME NEW n \in Lens, p \in Writers, SendMessage(p, n)
      PROVE  /\ Next /\ UNCHANGED <<beginLock, endLock, got>>
             /\ \A q \in Procs : q # p => ret'[q] = ret[q]
  BY <1>1 DEF SendMessage, locks, Next, Send
<1>2. ASSUME NEW op \in Ops, p \in Readers, ReadMessage(p, op) \/ ReadNull(p, op)
      PROVE  /\ Next /\ UNCHANGED <<beginLock, endLock>>
             /\ \A q \in Procs : q # p => ret'[q] = ret[q]
             /\ \A q \in Readers : q # p => got'[q] = got[q]
  BY <1>2 DEF ReadMessage, ReadNull, locks, Next, Read
<1>3. ASSUME SizeEqual(p) \/ SizeOrder(p) \/ SizeWrapped(p) \/ SizeMiddle(p)
      PROVE  /\ UNCHANGED <<beginLock, endLock, got>>
             /\ \A q \in Procs : q # p => ret'[q] = ret[q]
  BY <1>3 DEF SizeEqual, SizeOrder, SizeWrapped, SizeMiddle, SizeKnown, SendCheck, ReadCheck,
              ReadSequenceError, Return, locks
<1>4. ASSUME WriteHeader(p) \/ WriteFirst(p) \/ WriteRest(p) \/ Publish(p)
             \/ ReadHeader(p) \/ ReadFirst(p) \/ ReadRest(p)
      PROVE  /\ UNCHANGED <<beginLock, endLock, got>>
             /\ \A q \in Procs : q # p => ret'[q] = ret[q]
  BY <1>4 DEF WriteHeader, WriteFirst, WriteRest, Publish, ReadHeader, Decode, ReadFirst,
              ReadRest, ReadSequenceError, Return, locks
<1>5. ASSUME ReadEnd(p)
      PROVE  /\ UNCHANGED <<beginLock, endLock>>
             /\ \A q \in Procs : q # p => ret'[q] = ret[q]
             /\ \A q \in Readers : q # p => got'[q] = got[q]
  BY <1>5 DEF ReadEnd, Consume, Answer, ResetEnd, ResetBegin, Return, locks
<1>6. RingWork(p) =>
        \/ \E n \in Lens : p \in Writers /\ SendMessage(p, n)
        \/ \E op \in Ops : p \in Readers /\ (ReadMessage(p, op) \/ ReadNull(p, op))
        \/ /\ Work(p)
           /\ \/ SizeEqual(p) \/ SizeOrder(p) \/ SizeWrapped(p) \/ SizeMiddle(p)
              \/ WriteHeader(p) \/ WriteFirst(p) \/ WriteRest(p) \/ Publish(p)
              \/ ReadHeader(p) \/ ReadFirst(p) \/ ReadRest(p) \/ ReadEnd(p)
  BY DEF RingWork, Work
<1>7. Work(p) => Next
  BY DEF Next
<1>8. QED
  BY <1>1, <1>2, <1>3, <1>4, <1>5, <1>6, <1>7

LEMMA RingSimulates ==
  ASSUME SemInv, NEW p \in Procs, RingWork(p)
  PROVE  Simulates(p)
<1>1. stage[p] = "up" /\ UNCHANGED <<beginKernel, endKernel, stage>>
  BY DEF RingWork
<1>2. OthersStay(p) /\ (Enters(p) \/ CallPlace(p)' = CallPlace(p))
  BY RingMoves DEF SemInv
<1>3. \A q \in Procs : q # p => CallPlace(q)' = CallPlace(q)
  BY <1>2 DEF OthersStay, CallPlace, SharedRead
<1>4. Next /\ UNCHANGED <<beginLock, endLock>>
      /\ (\A q \in Procs : q # p => UNCHANGED <<pc[q], loc[q], ret[q]>>)
      /\ (\A q \in Readers : q # p => got'[q] = got[q])
  BY <1>2, RingFrame DEF OthersStay
<1>5. Advance(p, "up") /\ stage'[p] = "up"
  BY <1>1 DEF Advance, SemInv
<1>6. SUFFICES /\ [BeginSem!Next]_(BeginSem!vars) /\ [EndSem!Next]_(EndSem!vars)
               /\ Holders(BeginPlaces') = Holders(BeginPlaces)
               /\ Holders(EndPlaces') = Holders(EndPlaces)
  BY <1>4, <1>5 DEF Simulates, Recorded, SemInv, Stages
<1>7. /\ p \in Readers => EndPlaces' = EndPlaces
      /\ p \in Writers => BeginPlaces' = BeginPlaces
  BY <1>1, <1>3, ShmQueueAssumption DEF BeginPlaces, EndPlaces
<1>8. CASE CallPlace(p)' = CallPlace(p)
  <2>1. BeginPlaces' = BeginPlaces /\ EndPlaces' = EndPlaces
    BY <1>1, <1>3, <1>8 DEF BeginPlaces, EndPlaces
  <2>2. QED
    BY <1>1, <2>1, StandStill
<1>9. CASE Enters(p)
  <2> DEFINE l == CallPlace(p)'
  <2>1. CallPlace(p) = "free" /\ l \in {"wantR", "wantW"}
    BY <1>9 DEF Enters, CallPlace
  <2>2. CASE p \in Readers
    <3>1. BeginPlaces[p] = "free" /\ BeginPlaces' = [BeginPlaces EXCEPT ![p] = l]
      BY <1>1, <1>3, <2>1, <2>2 DEF BeginPlaces
    <3> HIDE DEF l
    <3>2. BeginSem!WantR(p) \/ BeginSem!WantW(p)
      BY <1>1, <2>1, <3>1 DEF BeginSem!WantR, BeginSem!WantW, BeginSem!Goto, beginKernel
    <3>3. BeginSem!Next
      BY <3>2 DEF BeginSem!Next
    <3>4. Holders(BeginPlaces') = Holders(BeginPlaces)
      BY <2>1, <3>1, HoldersStay, PlacesDomain
    <3>5. QED
      BY <1>1, <1>7, <2>2, <3>3, <3>4, StandStill
  <2>3. CASE p \in Writers
    <3>1. EndPlaces[p] = "free" /\ EndPlaces' = [EndPlaces EXCEPT ![p] = l]
      BY <1>1, <1>3, <2>1, <2>3 DEF EndPlaces
    <3> HIDE DEF l
    <3>2. EndSem!WantR(p) \/ EndSem!WantW(p)
      BY <1>1, <2>1, <3>1 DEF EndSem!WantR, EndSem!WantW, EndSem!Goto, endKernel
    <3>3. EndSem!Next
      BY <3>2 DEF EndSem!Next
    <3>4. Holders(EndPlaces') = Holders(EndPlaces)
      BY <2>1, <3>1, HoldersStay, PlacesDomain
    <3>5. QED
      BY <1>1, <1>7, <2>3, <3>3, <3>4, StandStill
  <2>4. QED
    BY <2>2, <2>3 DEF Procs
<1>10. QED
  BY <1>2, <1>8, <1>9

-----------------------------------------------------------------------------
(* Taking and giving back a lock.                                          *)

\* A step in which p goes from one place of its call to another leaves the
\* set of the other side as it is.
LEMMA OtherSide ==
  ASSUME SemInv, NEW p \in Procs, stage[p] = "up", stage' = stage, OthersStay(p)
  PROVE  /\ p \in Readers => EndPlaces' = EndPlaces
         /\ p \in Writers => BeginPlaces' = BeginPlaces
<1>1. \A q \in Procs : q # p => CallPlace(q)' = CallPlace(q)
  BY DEF OthersStay, CallPlace, SharedRead
<1>2. QED
  BY <1>1, ShmQueueAssumption DEF BeginPlaces, EndPlaces

LEMMA LockSimulates ==
  ASSUME SemInv, NEW p \in Procs, SemTakeLock(p) \/ SemUnlock(p)
  PROVE  Simulates(p)
<1>1. /\ pc[p] \in {"lock", "unlock"} /\ stage' = stage /\ Recorded'
      /\ UNCHANGED <<shared, ret, sent, frames, got, buf>>
      /\ Recorded
  BY DEF SemTakeLock, SemUnlock, RecordHolders, Recorded, SemInv
<1>2. stage[p] = "up" /\ Advance(p, "up") /\ stage'[p] = "up"
  BY <1>1 DEF SemInv, Unused, Advance
<1>3. OthersStay(p)
  BY DEF SemTakeLock, SemUnlock, Goto, OthersStay, SemInv, TypeInv, TypeOK
<1>4. SUFFICES Work(p) /\ [BeginSem!Next]_(BeginSem!vars) /\ [EndSem!Next]_(EndSem!vars)
  BY <1>1, <1>2, <1>3 DEF Simulates, Next, OthersStay, Stages
<1>5. CASE p \in Writers
  <2>1. (EndSem!Wlock(p) \/ EndSem!UnWlock(p)) /\ UNCHANGED beginKernel
    BY <1>5 DEF SemTakeLock, SemUnlock
  <2>2. BeginPlaces' = BeginPlaces
    BY <1>1, <1>2, <1>3, <1>5, OtherSide
  <2>3. UNCHANGED beginLock
    BY <1>1, <2>2 DEF Recorded
  <2>4. CASE SemTakeLock(p)
    <3>1. EndLock!Wlock(p)
      BY <1>1, <1>5, <2>4, EndOps DEF SemTakeLock, SemInv, Recorded
    <3>2. TakeLock(p)
      BY <1>5, <2>3, <2>4, <3>1 DEF SemTakeLock, TakeLock
    <3>3. QED
      BY <2>1, <2>2, <3>2, StandStill DEF Work, EndSem!Next
  <2>5. CASE SemUnlock(p)
    <3>1. EndLock!UnWlock(p)
      BY <1>1, <1>5, <2>5, EndOps DEF SemUnlock, SemInv, Recorded
    <3>2. Unlock(p)
      BY <1>5, <2>3, <2>5, <3>1 DEF SemUnlock, Unlock
    <3>3. QED
      BY <2>1, <2>2, <3>2, StandStill DEF Work, EndSem!Next
  <2>6. QED
    BY <2>4, <2>5
<1>6. CASE p \notin Writers
  <2>1. /\ \/ BeginSem!Rlock(p) \/ BeginSem!Wlock(p)
           \/ BeginSem!UnRlock(p) \/ BeginSem!UnWlock(p)
        /\ UNCHANGED endKernel
    BY <1>6 DEF SemTakeLock, SemUnlock
  <2>2. EndPlaces' = EndPlaces
    BY <1>1, <1>2, <1>3, <1>6, OtherSide DEF Procs
  <2>3. UNCHANGED endLock
    BY <1>1, <2>2 DEF Recorded
  <2>4. CASE SemTakeLock(p)
    <3>1. IF SharedRead(p) THEN BeginLock!Rlock(p) ELSE BeginLock!Wlock(p)
      BY <1>1, <1>6, <2>4, BeginOps DEF SemTakeLock, SemInv, Recorded
    <3>2. TakeLock(p)
      BY <1>6, <2>3, <2>4, <3>1 DEF SemTakeLock, TakeLock
    <3>3. QED
      BY <2>1, <2>2, <3>2, StandStill DEF Work, BeginSem!Next
  <2>5. CASE SemUnlock(p)
    <3>1. IF SharedRead(p) THEN BeginLock!UnRlock(p) ELSE BeginLock!UnWlock(p)
      BY <1>1, <1>6, <2>5, BeginOps DEF SemUnlock, SemInv, Recorded
    <3>2. Unlock(p)
      BY <1>6, <2>3, <2>5, <3>1 DEF SemUnlock, Unlock
    <3>3. QED
      BY <2>1, <2>2, <3>2, StandStill DEF Work, BeginSem!Next
  <2>6. QED
    BY <2>4, <2>5
<1>7. QED
  BY <1>5, <1>6

\* A death.
LEMMA ExitSimulates ==
  ASSUME SemInv, NEW p \in Procs, SemExit(p)
  PROVE  Simulates(p)
<1> USE DEF SemInv, TypeInv, TypeOK
<1>1. /\ Advance(p, "down") /\ stage'[p] = "down"
      /\ pc'[p] = "idle" /\ loc'[p] = NoCall /\ ret'[p] = 0
      /\ p \in Readers => got'[p] = NoMsg
  BY DEF SemExit, Advance, Goto
<1>2. /\ \A q \in Procs : q # p => UNCHANGED <<pc[q], loc[q], ret[q]>>
      /\ \A q \in Readers : q # p => got'[q] = got[q]
  BY DEF SemExit, Goto
<1>3. \A q \in Procs : q # p => CallPlace(q)' = CallPlace(q) /\ stage'[q] = stage[q]
  BY <1>1, <1>2 DEF CallPlace, SharedRead, Advance
<1>4. BeginSem!Exit(p) /\ Recorded /\ Recorded' /\ BeginSem!Next
  BY DEF SemExit, RecordHolders, Recorded, BeginSem!Next
<1>5. BeginLock!Undo(p)
  BY <1>4, BeginOps DEF Recorded
<1>6. EndLock!Undo(p) /\ [EndSem!Next]_(EndSem!vars)
  <2>1. CASE EndPlaces[p] = "out"
    <3>1. stage[p] \in {"down", "setBegin", "half"}
      BY <2>1, PlaceOf
    <3>2. EndPlaces' = EndPlaces
      BY <1>1, <1>3, <3>1 DEF EndPlaces
    <3>3. UNCHANGED EndSem!vars
      BY <2>1, <3>2, StandStill DEF SemExit
    <3>4. endLock' = endLock /\ p \notin endLock.w /\ p \notin endLock.r
      BY <1>4, <2>1, <3>2 DEF Recorded, Holders
    <3>5. endLock = [w |-> endLock.w, r |-> endLock.r]
      BY <1>4 DEF Recorded, Holders
    <3>6. endLock.w \ {p} = endLock.w /\ endLock.r \ {p} = endLock.r
      BY <3>4
    <3>7. QED
      BY <3>3, <3>4, <3>5, <3>6 DEF EndLock!Undo
  <2>2. CASE EndPlaces[p] # "out"
    <3>1. EndSem!Exit(p)
      BY <2>2 DEF SemExit
    <3>2. QED
      BY <1>4, <3>1, EndOps DEF Recorded, EndSem!Next
  <2>3. QED
    BY <2>1, <2>2
<1>7. [Next]_vars
  <2>1. CASE stage[p] = "up"
    <3>1. pc[p] # "idle"
      BY <2>1 DEF SemExit
    <3>2. Exit(p)
      BY <1>5, <1>6, <3>1 DEF SemExit, Exit
    <3>3. QED
      BY <3>2 DEF Next
  <2>2. CASE stage[p] # "up"
    <3>1. /\ pc[p] = "idle" /\ loc[p] = NoCall /\ ret[p] = 0
          /\ p \in Readers => got[p] = NoMsg
      BY <2>2 DEF Unused
    <3>2. UNCHANGED <<pc, loc, ret, got>>
      BY <3>1 DEF SemExit, Goto
    <3>3. BeginPlaces[p] \notin {"reading", "writing"}
          /\ EndPlaces[p] \notin {"reading", "writing"}
      BY <2>2, <3>1 DEF BeginPlaces, EndPlaces, CallPlace
    <3>4. beginLock' = beginLock
      BY <1>4, <3>3, HoldersStay, PlacesDomain DEF Recorded, BeginSem!Exit, BeginSem!Goto
    <3>5. endLock' = endLock
      <4>1. CASE EndPlaces[p] = "out"
        <5>1. stage[p] \in {"down", "setBegin", "half"}
          BY <4>1, PlaceOf
        <5>2. EndPlaces' = EndPlaces
          BY <1>1, <1>3, <5>1 DEF EndPlaces
        <5>3. QED
          BY <1>4, <5>2 DEF Recorded
      <4>2. CASE EndPlaces[p] # "out"
        <5>1. EndPlaces' = [EndPlaces EXCEPT ![p] = "out"]
          BY <4>2 DEF SemExit, EndSem!Exit, EndSem!Goto
        <5>2. QED
          BY <1>4, <3>3, <5>1, HoldersStay, PlacesDomain DEF Recorded
      <4>3. QED
        BY <4>1, <4>2
    <3>6. QED
      BY <3>2, <3>4, <3>5 DEF SemExit, vars, shared
  <2>3. QED
    BY <2>1, <2>2
<1>8. QED
  BY <1>1, <1>2, <1>4, <1>6, <1>7 DEF Simulates, Stages

-----------------------------------------------------------------------------
(* The theorem.                                                            *)

LEMMA SemInvInit == SemInit => SemInv
<1> SUFFICES ASSUME SemInit PROVE SemInv
  OBVIOUS
<1>1. TypeInv
  BY TypeInit DEF SemInit
<1>2. stage \in [Procs -> Stages] /\ \A p \in Procs : stage[p] = "down"
  BY DEF SemInit, Stages
<1>3. Unused
  BY DEF SemInit, Init, Unused, Procs
<1>4. BeginProofs!IInv /\ EndProofs!IInv
  BY BeginInit, EndInit DEF SemInit
<1>5. Recorded
  <2>1. \A p \in Procs : BeginPlaces[p] = "out" /\ EndPlaces[p] = "out"
    BY <1>2 DEF BeginPlaces, EndPlaces
  <2>2. Holders(BeginPlaces) = [w |-> {}, r |-> {}]
        /\ Holders(EndPlaces) = [w |-> {}, r |-> {}]
    BY <2>1 DEF Holders
  <2>3. QED
    BY <2>2 DEF Recorded, SemInit, Init, BeginLock!Init, EndLock!Init, BeginLock!Unlocked,
                EndLock!Unlocked
<1>6. QED
  BY <1>1, <1>2, <1>3, <1>4, <1>5 DEF SemInv

LEMMA SemStep ==
  ASSUME Simultaneous = FALSE, SemInv, [SemNext]_semVars
  PROVE  SemInv' /\ [Next]_vars
<1>1. CASE SemNext
  <2>1. PICK p \in Procs : Simulates(p)
    BY <1>1, InitBeginSimulates, InitEndSimulates, RingSimulates, LockSimulates, ExitSimulates
       DEF SemNext
  <2>2. QED
    BY <2>1, SimulationKeeps DEF Simulates
<1>2. CASE UNCHANGED semVars
  <2>1. UNCHANGED vars /\ UNCHANGED stage /\ UNCHANGED beginKernel /\ UNCHANGED endKernel
    BY <1>2 DEF semVars
  <2>2. \A q \in Procs : CallPlace(q)' = CallPlace(q)
    BY <2>1 DEF vars, CallPlace, SharedRead
  <2>3. BeginPlaces' = BeginPlaces /\ EndPlaces' = EndPlaces
    BY <2>1, <2>2 DEF BeginPlaces, EndPlaces
  <2>4. BeginProofs!IInv' /\ EndProofs!IInv'
    BY <2>1, <2>3, StandStill, BeginStep, EndStep DEF SemInv
  <2>5. TypeInv'
    BY <2>1, TypeStep DEF SemInv
  <2>6. Recorded' /\ Unused'
    BY <2>1, <2>3 DEF SemInv, Recorded, Unused, vars
  <2>7. QED
    BY <2>1, <2>4, <2>5, <2>6 DEF SemInv
<1>3. QED
  BY <1>1, <1>2

\* The queue on semaphore sets is a ShmQueue, through deaths in any step and
\* restarts, if the program that creates a set is through InitLock before
\* another one attaches: what is proved of ShmQueue holds of it.
THEOREM SemaphoresSuffice ==
  ASSUME Simultaneous = FALSE
  PROVE  SemSpec => ImplementsShmQueue
<1>1. SemInit => SemInv /\ Init
  BY SemInvInit DEF SemInit
<1>2. SemInv /\ [SemNext]_semVars => SemInv' /\ [Next]_vars
  BY SemStep
<1>3. QED
  BY <1>1, <1>2, PTL DEF SemSpec, ImplementsShmQueue, Spec

\* Processes that share both locks have a queue: messages come out whole, each
\* once and in order, one process is inside on each side, unread bytes stay,
\* and no call faults, whoever dies in a call or in InitLock.
THEOREM SharedQueueWorks ==
  ASSUME Simultaneous = FALSE, L <= IntMod \div 2
  PROVE  SemSpec => /\ ImplementsFifo
                    /\ [](OneSender /\ OneReceiver /\ UnreadIntact /\ NoFault)
<1>1. SendersApart /\ ReceiversApart /\ Deployment /\ PeeksLocked
  BY SemQueueAssumption
     DEF SendersApart, ReceiversApart, Deployment, PeeksLocked, Locks, IsEndLock, IsBeginLock, Procs
<1>2. SemSpec => Spec
  BY SemaphoresSuffice DEF ImplementsShmQueue
<1>3. Spec => ImplementsFifo
  BY <1>1, FifoImplemented
<1>4. Spec => []OneSender
  BY <1>1, SendersExclude
<1>5. Spec => []OneReceiver
  BY <1>1, ReceiversExclude
<1>6. Spec => []UnreadIntact
  BY <1>1, UnreadStaysIntact
<1>7. Spec => []NoFault
  BY <1>1, NeverFaults
<1>8. QED
  BY <1>2, <1>3, <1>4, <1>5, <1>6, <1>7, PTL
=============================================================================
