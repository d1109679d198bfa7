--------------------------- MODULE ShmQueueProofs ---------------------------
(***************************************************************************)
(* Proofs about ShmQueue for every size of the ring, every number of       *)
(* processes, both implementations and all modes: the type invariant, and  *)
(* that the locks keep senders, and receivers, apart.  Then what the proof *)
(* that the ring keeps its messages (ShmQueueDataProofs) rests on:         *)
(* arithmetic on the ring, the invariant (DataInv), and what writing       *)
(* behind the used bytes does to them.                                     *)
(***************************************************************************)
EXTENDS ShmQueue, TLAPS

-----------------------------------------------------------------------------
(* The type invariant.  To be preserved it needs to know more about a call *)
(* that is under way: which locals have been set at which place.           *)

\* The places of a sender between the parameter check and the return.
SendPcs == {"lock"} \cup SizePcs \cup CopyPcs

\* A sender that is in a call may still send one message, of a length it was
\* called with; once the header is written its frame is known.
SenderLocals ==
  \A w \in Writers :
    /\ pc[w] \in SendPcs => sent[w] < MaxSend /\ loc[w].len \in Lens
    /\ pc[w] \in {"copy", "rest", "publish"} => loc[w].msg \in Frames

\* What a receiver has copied so far are cells of the ring, as many as the
\* length says.
ReceiverLocals ==
  \A r \in Readers :
    /\ pc[r] = "rest" => buf[r] \in [0..(FirstPart(r) - 1) -> Cells]
    /\ pc[r] = "publish" /\ loc[r].op # "del" => buf[r] \in [0..(loc[r].len - 1) -> Cells]

TypeInv == TypeOK /\ SenderLocals /\ ReceiverLocals

\* Remainders lie where they should, and conversions give integers.
LEMMA Remainder ==
  ASSUME NEW x \in Int, NEW m \in Nat \ {0}
  PROVE  x % m \in 0..(m - 1)
OBVIOUS

LEMMA SlotType ==
  ASSUME NEW s \in Int, NEW k \in Int
  PROVE  Slot(s, k) \in Slots
BY Remainder, ShmQueueAssumption DEF Slot, Slots

LEMMA ConversionType ==
  ASSUME NEW x \in Int
  PROVE  /\ Unsigned(x) \in 0..(SizeMod - 1)
         /\ Signed(x) \in Int
<1>1. Unsigned(x) \in 0..(SizeMod - 1)
  BY Remainder, MachineAssumption DEF Unsigned
<1>2. x % IntMod \in Int
  BY Remainder, MachineAssumption
<1>3. QED
  BY <1>1, <1>2, MachineAssumption DEF Signed

\* Filling cells of the ring leaves a ring of cells.
LEMMA FillType ==
  ASSUME TypeOK, NEW m \in Frames, NEW from \in Nat, NEW to, NEW at \in Int
  PROVE  Fill(m, from, to, at) \in [Slots -> Cells]
<1>1. ASSUME NEW x \in Slots
      PROVE  Off(at, x) \in Nat
  BY Remainder, ShmQueueAssumption DEF Off, Slots
<1>2. QED
  BY <1>1 DEF Fill, Byte, Cells, TypeOK

\* The constants, as the proofs use them.
LEMMA Constants ==
  /\ L \in Nat \ {0} /\ HDR \in Nat \ {0} /\ EXTRA \in Nat \ {0}
  /\ Lens \subseteq Nat /\ GarbageLens \subseteq Nat
  /\ 0 \in Slots /\ Slots \subseteq Nat
<1>1. L \in Nat \ {0} /\ HDR \in Nat \ {0} /\ EXTRA \in Nat \ {0}
  BY ShmQueueAssumption
<1>2. Lens \subseteq Nat
  BY ShmQueueAssumption
<1>3. SizeMod \in Nat
  BY MachineAssumption
<1>4. GarbageLens \subseteq Nat
  BY <1>3, ShmQueueAssumption
<1>5. QED
  BY <1>1, <1>2, <1>4 DEF Slots

LEMMA NoCallType == NoCall \in Locals
BY Constants DEF NoCall, Locals

LEMMA TypeInit == Init => TypeInv
<1> SUFFICES ASSUME Init PROVE TypeInv
  OBVIOUS
<1> USE DEF Init
<1>1. mem \in [Slots -> Cells]
  BY DEF Byte, Cells
<1>2. beginLock \in LockStates /\ endLock \in LockStates
  BY DEF BeginLock!Init, EndLock!Init, BeginLock!Unlocked, EndLock!Unlocked, LockStates
<1>3. begin \in Slots /\ end \in Slots
  BY Constants
<1>4. pc \in [Procs -> InnerPcs \cup {"idle", "lock", "fault"}]
  OBVIOUS
<1>5. loc \in [Procs -> Locals]
  BY NoCallType
<1>6. sent \in [Writers -> 0..MaxSend]
  BY ShmQueueAssumption
<1>7. got \in [Readers -> Frames \cup {NoMsg, Torn}]
  OBVIOUS
<1>8. frames \in Seq(Frames)
  OBVIOUS
<1>9. DOMAIN buf = Readers /\ ret \in [Procs -> Int]
  OBVIOUS
<1>10. TypeOK
  BY <1>1, <1>2, <1>3, <1>4, <1>5, <1>6, <1>7, <1>8, <1>9 DEF TypeOK
<1>11. SenderLocals /\ ReceiverLocals
  BY DEF SenderLocals, ReceiverLocals, SendPcs, SizePcs, CopyPcs, Procs
<1>12. QED
  BY <1>10, <1>11 DEF TypeInv

\* A step of p changes nobody else's place, locals or copy.
OthersKeep(p) ==
  \A q \in Procs : q # p => /\ pc'[q] = pc[q]
                            /\ loc'[q] = loc[q]
                            /\ q \in Writers => sent'[q] = sent[q]
                            /\ q \in Readers => buf'[q] = buf[q]

\* So the facts about locals need only be shown for p itself.
LEMMA OwnLocals ==
  ASSUME TypeInv, NEW p \in Procs, OthersKeep(p),
         p \in Writers =>
           /\ pc'[p] \in SendPcs => sent'[p] < MaxSend /\ loc'[p].len \in Lens
           /\ pc'[p] \in {"copy", "rest", "publish"} => loc'[p].msg \in Frames,
         p \in Readers =>
           /\ pc'[p] = "rest" => buf'[p] \in [0..(FirstPart(p)' - 1) -> Cells]
           /\ pc'[p] = "publish" /\ loc'[p].op # "del" =>
                buf'[p] \in [0..(loc'[p].len - 1) -> Cells]
  PROVE  SenderLocals' /\ ReceiverLocals'
<1>1. ASSUME NEW w \in Writers
      PROVE  /\ pc'[w] \in SendPcs => sent'[w] < MaxSend /\ loc'[w].len \in Lens
             /\ pc'[w] \in {"copy", "rest", "publish"} => loc'[w].msg \in Frames
  <2>1. CASE w = p
    BY <2>1
  <2>2. CASE w # p
    BY <2>2 DEF OthersKeep, TypeInv, SenderLocals, Procs
  <2>3. QED
    BY <2>1, <2>2
<1>2. ASSUME NEW r \in Readers
      PROVE  /\ pc'[r] = "rest" => buf'[r] \in [0..(FirstPart(r)' - 1) -> Cells]
             /\ pc'[r] = "publish" /\ loc'[r].op # "del" =>
                  buf'[r] \in [0..(loc'[r].len - 1) -> Cells]
  <2>1. CASE r = p
    BY <2>1
  <2>2. CASE r # p
    <3>1. /\ pc'[r] = pc[r] /\ buf'[r] = buf[r] /\ loc'[r] = loc[r]
      BY <2>2 DEF OthersKeep, Procs
    <3>2. FirstPart(r)' = FirstPart(r)
      BY <3>1 DEF FirstPart, Min2
    <3>3. QED
      BY <3>1, <3>2 DEF TypeInv, ReceiverLocals
  <2>3. QED
    BY <2>1, <2>2
<1>3. SenderLocals'
  BY <1>1 DEF SenderLocals
<1>4. ReceiverLocals'
  BY <1>2 DEF ReceiverLocals
<1>5. QED
  BY <1>3, <1>4

\* Returning from a call: to the caller, to the guard's destructor, or to
\* nowhere.
LEMMA Returning ==
  ASSUME TypeInv, NEW p \in Procs, NEW x \in Int, Return(p, x)
  PROVE  /\ pc' \in [Procs -> InnerPcs \cup {"idle", "lock", "fault"}]
         /\ loc' \in [Procs -> Locals]
         /\ ret' \in [Procs -> Int]
         /\ pc'[p] \in {"idle", "unlock", "fault"}
         /\ \A q \in Procs : q # p => pc'[q] = pc[q] /\ loc'[q] = loc[q]
<1>1. ReturnPc(p) \in {"idle", "unlock", "fault"}
  BY DEF ReturnPc
<1>2. RetValue(p, x) \in Int
  BY ConversionType DEF RetValue
<1>3. pc' = [pc EXCEPT ![p] = ReturnPc(p)] /\ ret' = [ret EXCEPT ![p] = RetValue(p, x)]
  BY DEF Return, Goto
<1>4. PICK l \in Locals : loc' = [loc EXCEPT ![p] = l]
  <2>1. loc[p] \in Locals
    BY DEF TypeInv, TypeOK
  <2>2. [NoCall EXCEPT !.op = loc[p].op] \in Locals
    BY <2>1, NoCallType DEF Locals
  <2>3. QED
    BY <2>2, NoCallType DEF Return
<1>5. QED
  BY <1>1, <1>2, <1>3, <1>4 DEF TypeInv, TypeOK, InnerPcs

\* SendMessage and the reading calls once GetDataSize has answered.
LEMMA SizeKnownType ==
  ASSUME TypeInv, NEW p \in Procs, pc[p] \in SizePcs, NEW n \in Int, SizeKnown(p, n)
  PROVE  TypeInv'
<1>1. /\ pc' \in [Procs -> InnerPcs \cup {"idle", "lock", "fault"}]
      /\ loc' \in [Procs -> Locals]
      /\ ret' \in [Procs -> Int]
      /\ pc'[p] \in {"idle", "unlock", "fault", "head", "reset"}
      /\ p \in Writers /\ pc'[p] = "head" => loc' = loc
      /\ \A q \in Procs : q # p => pc'[q] = pc[q] /\ loc'[q] = loc[q]
  <2>1. CASE p \in Writers
    <3>1. SendCheck(p, n)
      BY <2>1 DEF SizeKnown
    <3>2. CASE Goto(p, "head") /\ UNCHANGED <<loc, ret>>
      BY <3>2 DEF Goto, TypeInv, TypeOK, InnerPcs, CopyPcs
    <3>3. CASE Return(p, QUEUE_NO_SPACE)
      BY <3>3, Returning DEF QUEUE_NO_SPACE
    <3>4. QED
      BY <3>1, <3>2, <3>3 DEF SendCheck
  <2>2. CASE p \notin Writers
    <3>1. ReadCheck(p, n)
      BY <2>2 DEF SizeKnown
    <3>2. MaxLength(p, n) \in Int
      BY ConversionType DEF MaxLength
    <3>3. CASE Return(p, QUEUE_NO_MESSAGE)
      BY <2>2, <3>3, Returning DEF QUEUE_NO_MESSAGE
    <3>4. CASE ReadSequenceError(p)
      <4>1. CASE Return(p, QUEUE_DATA_SEQUENCE_ERROR)
        BY <2>2, <4>1, Returning DEF QUEUE_DATA_SEQUENCE_ERROR
      <4>2. CASE Goto(p, "reset") /\ UNCHANGED <<loc, ret>>
        BY <2>2, <4>2 DEF Goto, TypeInv, TypeOK, InnerPcs
      <4>3. QED
        BY <3>4, <4>1, <4>2 DEF ReadSequenceError
    <3>5. CASE /\ MaxLength(p, n) > HDR
               /\ Goto(p, "head")
               /\ loc' = [loc EXCEPT ![p].room = MaxLength(p, n)]
               /\ UNCHANGED ret
      <4>1. MaxLength(p, n) \in Nat
        BY <3>2, <3>5, Constants
      <4>2. [loc[p] EXCEPT !.room = MaxLength(p, n)] \in Locals
        BY <4>1 DEF TypeInv, TypeOK, Locals
      <4>3. loc' = [loc EXCEPT ![p] = [loc[p] EXCEPT !.room = MaxLength(p, n)]]
        BY <3>5
      <4>4. QED
        BY <2>2, <3>5, <4>2, <4>3 DEF Goto, TypeInv, TypeOK, InnerPcs, CopyPcs
    <3>6. QED
      BY <3>1, <3>2, <3>3, <3>4, <3>5, Constants DEF ReadCheck
  <2>3. QED
    BY <2>1, <2>2
<1>2. UNCHANGED <<mem, begin, end, beginLock, endLock, sent, frames, got, buf>>
  BY DEF SizeKnown, shared, locks
<1>3. TypeOK'
  BY <1>1, <1>2 DEF TypeInv, TypeOK
<1>4. OthersKeep(p)
  BY <1>1, <1>2 DEF OthersKeep
<1>5. p \in Writers /\ pc'[p] \in SendPcs => sent'[p] < MaxSend /\ loc'[p].len \in Lens
  BY <1>1, <1>2 DEF TypeInv, SenderLocals, SendPcs, SizePcs, CopyPcs
<1>6. QED
  BY <1>1, <1>3, <1>4, <1>5, OwnLocals DEF TypeInv

\* The lock operations leave lock states.
LEMMA LockTypes ==
  ASSUME TypeInv, NEW p \in Procs
  PROVE  /\ BeginLock!Rlock(p) \/ BeginLock!UnRlock(p) \/ BeginLock!Wlock(p)
              \/ BeginLock!UnWlock(p) \/ BeginLock!Undo(p) => beginLock' \in LockStates
         /\ EndLock!Wlock(p) \/ EndLock!UnWlock(p) \/ EndLock!Undo(p) => endLock' \in LockStates
<1>1. beginLock \in LockStates /\ endLock \in LockStates
  BY DEF TypeInv, TypeOK
<1>2. BeginLock!Rlock(p) \/ BeginLock!UnRlock(p) \/ BeginLock!Wlock(p)
        \/ BeginLock!UnWlock(p) \/ BeginLock!Undo(p) => beginLock' \in LockStates
  BY <1>1 DEF LockStates, BeginLock!Rlock, BeginLock!UnRlock, BeginLock!Wlock,
              BeginLock!UnWlock, BeginLock!Undo
<1>3. EndLock!Wlock(p) \/ EndLock!UnWlock(p) \/ EndLock!Undo(p) => endLock' \in LockStates
  BY <1>1 DEF LockStates, EndLock!Wlock, EndLock!UnWlock, EndLock!Undo
<1>4. QED
  BY <1>2, <1>3

\* Entering a call and taking or releasing its lock.
LEMMA EntryType ==
  ASSUME TypeInv, NEW p \in Procs,
         \/ p \in Writers /\ \E n \in Lens : SendMessage(p, n)
         \/ p \in Readers /\ \E op \in Ops : ReadMessage(p, op) \/ ReadNull(p, op)
         \/ TakeLock(p)
         \/ Unlock(p)
         \/ Exit(p)
  PROVE  TypeInv'
<1> USE DEF TypeInv
<1>1. CASE p \in Writers /\ \E n \in Lens : SendMessage(p, n)
  <2>1. PICK n \in Lens : SendMessage(p, n)
    BY <1>1
  <2>2. CASE n = 0
    <3>1. TypeOK'
      BY <2>1, <2>2 DEF SendMessage, shared, locks, TypeOK, QUEUE_PARAM_ERROR
    <3>2. SenderLocals' /\ ReceiverLocals'
      BY <2>1, <2>2 DEF SendMessage, shared, locks, SenderLocals, ReceiverLocals,
                        FirstPart, Min2
    <3>3. QED
      BY <3>1, <3>2
  <2>3. CASE n # 0
    <3>1. /\ pc' = [pc EXCEPT ![p] = IF Locks(p) THEN "lock" ELSE "equal"]
          /\ loc' = [loc EXCEPT ![p] = [NoCall EXCEPT !.op = "send", !.len = n]]
          /\ ret' = [ret EXCEPT ![p] = 0]
          /\ UNCHANGED <<mem, begin, end, beginLock, endLock, sent, frames, got, buf>>
          /\ sent[p] < MaxSend
      BY <2>1, <2>3 DEF SendMessage, shared, locks, Goto
    <3>2. [NoCall EXCEPT !.op = "send", !.len = n] \in Locals
      BY NoCallType, Constants DEF Locals
    <3>3. TypeOK'
      BY <3>1, <3>2 DEF TypeOK, InnerPcs, SizePcs
    <3>4. OthersKeep(p)
      BY <3>1 DEF OthersKeep, TypeOK
    <3>5. pc'[p] \in {"lock", "equal"} /\ sent'[p] < MaxSend /\ loc'[p].len \in Lens
      BY <3>1, <3>2, NoCallType DEF TypeOK, NoCall
    <3>6. QED
      BY <3>3, <3>4, <3>5, OwnLocals, <1>1
  <2>4. QED
    BY <2>2, <2>3
<1>2. CASE p \in Readers /\ \E op \in Ops : ReadMessage(p, op)
  <2>1. PICK op \in Ops : ReadMessage(p, op)
    BY <1>2
  <2>2. /\ pc' = [pc EXCEPT ![p] = IF Locks(p) THEN "lock" ELSE "equal"]
        /\ loc' = [loc EXCEPT ![p] = [NoCall EXCEPT !.op = op]]
        /\ ret' = [ret EXCEPT ![p] = 0]
        /\ got' = [got EXCEPT ![p] = NoMsg]
        /\ buf' = [buf EXCEPT ![p] = NoBytes]
        /\ UNCHANGED <<mem, begin, end, beginLock, endLock, sent, frames>>
    BY <2>1 DEF ReadMessage, shared, locks, Goto
  <2>3. [NoCall EXCEPT !.op = op] \in Locals
    BY NoCallType, ShmQueueAssumption DEF Locals
  <2>4. TypeOK'
    <3>1. /\ pc' \in [Procs -> InnerPcs \cup {"idle", "lock", "fault"}]
          /\ loc' \in [Procs -> Locals]
          /\ ret' \in [Procs -> Int]
      BY <2>2, <2>3 DEF TypeOK, InnerPcs, SizePcs
    <3>2. /\ DOMAIN buf' = Readers
          /\ got' \in [Readers -> Frames \cup {NoMsg, Torn}]
      BY <1>2, <2>2 DEF TypeOK
    <3>3. QED
      BY <2>2, <3>1, <3>2 DEF TypeOK
  <2>5. OthersKeep(p) /\ pc'[p] \in {"lock", "equal"} /\ p \notin Writers
    BY <1>2, <2>2, ShmQueueAssumption DEF OthersKeep, TypeOK
  <2>6. QED
    BY <2>4, <2>5, OwnLocals
<1>3. CASE p \in Readers /\ \E op \in Ops : ReadNull(p, op)
  <2>1. PICK op \in Ops : ReadNull(p, op)
    BY <1>3
  <2>2. PICK x \in Int : ret' = [ret EXCEPT ![p] = x]
    <3>1. (IF Impl[p] = "cpp" /\ op = "get"
             THEN Unsigned(QUEUE_PARAM_ERROR) ELSE QUEUE_PARAM_ERROR) \in Int
      BY ConversionType DEF QUEUE_PARAM_ERROR
    <3>2. QED
      BY <2>1, <3>1 DEF ReadNull
  <2>3. /\ got' = [got EXCEPT ![p] = NoMsg]
        /\ UNCHANGED <<mem, begin, end, beginLock, endLock, pc, loc, sent, frames, buf>>
    BY <2>1 DEF ReadNull, shared, locks
  <2>4. TypeOK'
    BY <2>2, <2>3 DEF TypeOK
  <2>5. SenderLocals' /\ ReceiverLocals'
    BY <2>3 DEF SenderLocals, ReceiverLocals, FirstPart, Min2
  <2>6. QED
    BY <2>4, <2>5
<1>4. CASE TakeLock(p)
  <2>1. /\ pc[p] = "lock"
        /\ pc' = [pc EXCEPT ![p] = "equal"]
        /\ UNCHANGED <<mem, begin, end, loc, ret, sent, frames, got, buf>>
    BY <1>4 DEF TakeLock, shared, Goto
  <2>2. beginLock' \in LockStates /\ endLock' \in LockStates
    BY <1>4, LockTypes DEF TakeLock, TypeOK
  <2>3. TypeOK'
    BY <2>1, <2>2 DEF TypeOK, InnerPcs, SizePcs
  <2>4. OthersKeep(p) /\ pc'[p] = "equal"
    BY <2>1 DEF OthersKeep, TypeOK
  <2>5. p \in Writers => sent'[p] < MaxSend /\ loc'[p].len \in Lens
    BY <2>1 DEF SenderLocals, SendPcs
  <2>6. QED
    BY <2>3, <2>4, <2>5, OwnLocals
<1>5. CASE Unlock(p)
  <2>1. /\ pc' = [pc EXCEPT ![p] = "idle"]
        /\ loc' = [loc EXCEPT ![p] = NoCall]
        /\ UNCHANGED <<mem, begin, end, ret, sent, frames, got, buf>>
    BY <1>5 DEF Unlock, shared, Goto
  <2>2. beginLock' \in LockStates /\ endLock' \in LockStates
    BY <1>5, LockTypes DEF Unlock, TypeOK
  <2>3. TypeOK'
    BY <2>1, <2>2, NoCallType DEF TypeOK
  <2>4. OthersKeep(p) /\ pc'[p] = "idle"
    BY <2>1 DEF OthersKeep, TypeOK
  <2>5. QED
    BY <2>3, <2>4, OwnLocals DEF SendPcs, SizePcs, CopyPcs
<1>6. CASE Exit(p)
  <2>1. /\ pc' = [pc EXCEPT ![p] = "idle"]
        /\ loc' = [loc EXCEPT ![p] = NoCall]
        /\ ret' = [ret EXCEPT ![p] = 0]
        /\ got' = IF p \in Readers THEN [got EXCEPT ![p] = NoMsg] ELSE got
        /\ UNCHANGED <<mem, begin, end, sent, frames, buf>>
    BY <1>6 DEF Exit, shared, Goto
  <2>2. beginLock' \in LockStates /\ endLock' \in LockStates
    BY <1>6, LockTypes DEF Exit
  <2>3. TypeOK'
    BY <2>1, <2>2, NoCallType DEF TypeOK
  <2>4. OthersKeep(p) /\ pc'[p] = "idle"
    BY <2>1 DEF OthersKeep, TypeOK
  <2>5. QED
    BY <2>3, <2>4, OwnLocals DEF SendPcs, SizePcs, CopyPcs
<1>7. QED
  BY <1>1, <1>2, <1>3, <1>4, <1>5, <1>6

\* The part of a copy that fits before the end of the array.
LEMMA FirstPartType ==
  ASSUME TypeInv, NEW p \in Procs
  PROVE  /\ FirstPart(p) \in Nat
         /\ FirstPart(p) <= loc[p].len
         /\ loc[p].idx + FirstPart(p) <= L
         /\ loc[p].idx \in Slots /\ loc[p].len \in Nat
         /\ loc[p].idx \in Int /\ loc[p].len \in Int
<1>1. loc[p].idx \in 0..(L - 1) /\ loc[p].len \in Nat
  BY DEF TypeInv, TypeOK, Locals, Slots
<1>2. QED
  BY <1>1, Constants DEF FirstPart, Min2, Slots

LEMMA SizeType ==
  ASSUME TypeInv, NEW p \in Procs,
         SizeEqual(p) \/ SizeOrder(p) \/ SizeWrapped(p) \/ SizeMiddle(p)
  PROVE  TypeInv'
<1>1. begin \in Int /\ end \in Int /\ L \in Int
  BY Constants DEF TypeInv, TypeOK
<1>2. CASE \E n \in Int : pc[p] \in SizePcs /\ SizeKnown(p, n)
  BY <1>2, SizeKnownType
<1>3. CASE \E l \in SizePcs :
             /\ pc[p] \in SizePcs
             /\ Goto(p, l)
             /\ UNCHANGED <<shared, locks, loc, ret, sent, frames, got, buf>>
  <2>1. PICK l \in SizePcs : /\ pc[p] \in SizePcs
                            /\ pc' = [pc EXCEPT ![p] = l]
                            /\ UNCHANGED <<shared, locks, loc, ret, sent, frames, got, buf>>
    BY <1>3 DEF Goto
  <2>2. TypeOK'
    BY <2>1 DEF TypeInv, TypeOK, shared, locks, InnerPcs
  <2>3. OthersKeep(p) /\ pc'[p] \in SizePcs
    BY <2>1 DEF TypeInv, TypeOK, OthersKeep
  <2>4. p \in Writers => sent'[p] < MaxSend /\ loc'[p].len \in Lens
    BY <2>1 DEF TypeInv, SenderLocals, SendPcs
  <2>5. QED
    BY <2>2, <2>3, <2>4, OwnLocals DEF TypeInv, SizePcs
<1>4. CASE SizeEqual(p)
  BY <1>2, <1>3, <1>4 DEF SizeEqual, SizePcs
<1>5. CASE SizeOrder(p)
  BY <1>3, <1>5 DEF SizeOrder, SizePcs
<1>6. CASE SizeWrapped(p)
  BY <1>1, <1>2, <1>6 DEF SizeWrapped, SizePcs
<1>7. CASE SizeMiddle(p)
  BY <1>1, <1>2, <1>7 DEF SizeMiddle, SizePcs
<1>8. QED
  BY <1>4, <1>5, <1>6, <1>7

LEMMA WriteType ==
  ASSUME TypeInv, NEW w \in Writers,
         WriteHeader(w) \/ WriteFirst(w) \/ WriteRest(w) \/ Publish(w)
  PROVE  TypeInv'
<1> USE DEF TypeInv
<1>1. w \in Procs /\ w \notin Readers
  BY ShmQueueAssumption DEF Procs
<1>2. end \in Slots /\ end \in Int /\ HDR \in Nat /\ HDR \in Int
  BY Constants DEF TypeOK
<1>3. loc[w] \in Locals
  BY <1>1 DEF TypeOK
<1>4. CASE WriteHeader(w)
  <2> DEFINE m == [src |-> w, num |-> sent[w] + 1, len |-> loc[w].len, pos |-> end]
             l == [loc[w] EXCEPT !.msg = m, !.idx = Slot(end, HDR)]
  <2>1. /\ pc[w] = "head"
        /\ mem' = Fill(m, 0, HDR, end)
        /\ loc' = [loc EXCEPT ![w] = l]
        /\ pc' = [pc EXCEPT ![w] = "copy"]
        /\ UNCHANGED <<begin, end, beginLock, endLock, ret, sent, frames, got, buf>>
    BY <1>4 DEF WriteHeader, Goto, locks
  <2>2. sent[w] < MaxSend /\ loc[w].len \in Lens
    BY <2>1 DEF SenderLocals, SendPcs, CopyPcs
  <2>3. m \in Frames
    <3>1. sent[w] + 1 \in 1..MaxSend
      BY <2>2, ShmQueueAssumption DEF TypeOK
    <3>2. QED
      BY <1>2, <2>2, <3>1 DEF Frames
  <2>4. l \in Locals
    BY <1>2, <1>3, <2>3, SlotType DEF Locals
  <2>5. mem' \in [Slots -> Cells]
    BY <1>2, <2>1, <2>3, FillType
  <2> HIDE DEF m, l
  <2>6. TypeOK'
    BY <2>1, <2>4, <2>5 DEF TypeOK, InnerPcs, CopyPcs
  <2>7. OthersKeep(w) /\ pc'[w] = "copy"
    BY <1>1, <2>1 DEF TypeOK, OthersKeep
  <2>8. sent'[w] < MaxSend /\ loc'[w].len \in Lens /\ loc'[w].msg \in Frames
    <3>1. loc'[w] = l
      BY <1>1, <2>1 DEF TypeOK
    <3>2. l.len = loc[w].len /\ l.msg = m
      BY <1>3 DEF l, Locals
    <3>3. QED
      BY <2>1, <2>2, <2>3, <3>1, <3>2
  <2>9. QED
    BY <1>1, <2>6, <2>7, <2>8, OwnLocals
<1>5. CASE WriteFirst(w) \/ WriteRest(w)
  <2>1. /\ pc[w] \in {"copy", "rest"}
        /\ UNCHANGED <<begin, end, beginLock, endLock, loc, ret, sent, frames, got, buf>>
    BY <1>5 DEF WriteFirst, WriteRest, locks
  <2>2. loc[w].msg \in Frames /\ sent[w] < MaxSend /\ loc[w].len \in Lens
    BY <2>1 DEF SenderLocals, SendPcs, CopyPcs
  <2>3. mem' \in [Slots -> Cells]
    <3>1. FirstPart(w) \in Nat /\ loc[w].idx \in Int
      BY <1>1, FirstPartType, Constants
    <3>2. mem' = mem \/ mem' = Fill(loc[w].msg, HDR, HDR + FirstPart(w), loc[w].idx)
                     \/ mem' = Fill(loc[w].msg, HDR + FirstPart(w), HDR + loc[w].len, 0)
      BY <1>5 DEF WriteFirst, WriteRest
    <3>3. HDR + FirstPart(w) \in Nat
      BY <1>2, <3>1
    <3>4. QED
      BY <1>2, <2>2, <3>1, <3>2, <3>3, FillType DEF TypeOK
  <2>4. PICK l \in {"rest", "publish", "fault"} : pc' = [pc EXCEPT ![w] = l]
    BY <1>5 DEF WriteFirst, WriteRest, Goto
  <2>5. TypeOK'
    BY <2>1, <2>3, <2>4 DEF TypeOK, InnerPcs, CopyPcs
  <2>6. OthersKeep(w)
    BY <1>1, <2>1, <2>4 DEF TypeOK, OthersKeep
  <2>7. QED
    BY <1>1, <2>1, <2>2, <2>5, <2>6, OwnLocals
<1>6. CASE Publish(w)
  <2>1. /\ pc[w] = "publish"
        /\ end' = Slot(loc[w].idx, loc[w].len)
        /\ sent' = [sent EXCEPT ![w] = sent[w] + 1]
        /\ frames' = Append(frames, loc[w].msg)
        /\ Return(w, QUEUE_OK)
        /\ UNCHANGED <<mem, begin, beginLock, endLock, got, buf>>
    BY <1>6 DEF Publish, locks
  <2>2. loc[w].msg \in Frames /\ sent[w] < MaxSend
    BY <2>1 DEF SenderLocals, SendPcs, CopyPcs
  <2>3. /\ pc' \in [Procs -> InnerPcs \cup {"idle", "lock", "fault"}]
        /\ loc' \in [Procs -> Locals]
        /\ ret' \in [Procs -> Int]
        /\ pc'[w] \in {"idle", "unlock", "fault"}
        /\ \A q \in Procs : q # w => pc'[q] = pc[q] /\ loc'[q] = loc[q]
    BY <1>1, <2>1, Returning DEF QUEUE_OK
  <2>4. end' \in Slots
    <3>1. loc[w].idx \in Int /\ loc[w].len \in Int
      BY <1>1, FirstPartType
    <3>2. QED
      BY <2>1, <3>1, SlotType
  <2>5. sent' \in [Writers -> 0..MaxSend]
    BY <2>1, <2>2, ShmQueueAssumption DEF TypeOK
  <2>6. frames' \in Seq(Frames)
    BY <2>1, <2>2 DEF TypeOK
  <2>7. TypeOK'
    BY <2>1, <2>3, <2>4, <2>5, <2>6 DEF TypeOK
  <2>8. OthersKeep(w)
    BY <1>1, <2>1, <2>3 DEF TypeOK, OthersKeep
  <2>9. QED
    BY <1>1, <2>3, <2>7, <2>8, OwnLocals DEF SendPcs, SizePcs, CopyPcs
<1>7. QED
  BY <1>4, <1>5, <1>6

\* What a receiver hands over is a message, nothing or torn.
LEMMA ContentType ==
  ASSUME TypeInv, NEW r \in Readers,
         buf[r] \in [0..(loc[r].len - 1) -> Cells]
  PROVE  Content(r) \in Frames \cup {NoMsg, Torn}
<1>1. loc[r].len \in Nat
  BY DEF TypeInv, TypeOK, Locals, Procs
<1>2. CASE loc[r].len > 0
  <2>1. buf[r][0] \in Cells
    BY <1>1, <1>2
  <2>2. buf[r][0].msg \in Frames \cup {NoMsg}
    BY <2>1 DEF Cells
  <2>3. QED
    BY <2>2 DEF Content
<1>3. CASE ~(loc[r].len > 0)
  BY <1>3 DEF Content
<1>4. QED
  BY <1>2, <1>3

\* A header that decodes to any length at all.
LEMMA DecodeType ==
  ASSUME TypeInv, NEW r \in Readers, pc[r] = "head", NEW n \in Nat, Decode(r, n),
         UNCHANGED <<shared, locks, sent, frames, got, buf>>
  PROVE  TypeInv'
<1> USE DEF TypeInv
<1>1. r \in Procs /\ r \notin Writers
  BY ShmQueueAssumption DEF Procs
<1>2. loc[r] \in Locals /\ begin \in Slots /\ begin \in Int /\ HDR \in Int
  BY <1>1, Constants DEF TypeOK
<1>3. UNCHANGED <<mem, begin, end, beginLock, endLock, sent, frames, got, buf>>
  BY DEF shared, locks
<1>4. /\ pc' \in [Procs -> InnerPcs \cup {"idle", "lock", "fault"}]
      /\ loc' \in [Procs -> Locals]
      /\ ret' \in [Procs -> Int]
      /\ \A q \in Procs : q # r => pc'[q] = pc[q] /\ loc'[q] = loc[q]
      /\ pc'[r] # "rest"
      /\ pc'[r] = "publish" => loc'[r].op = "del"
  <2>1. CASE Return(r, QUEUE_DATA_SEQUENCE_ERROR)
    BY <1>1, <2>1, Returning DEF QUEUE_DATA_SEQUENCE_ERROR
  <2>2. CASE Goto(r, "reset") /\ UNCHANGED <<loc, ret>>
    BY <1>1, <2>2 DEF Goto, TypeOK, InnerPcs
  <2>3. CASE /\ Goto(r, IF loc[r].op = "del" THEN "publish" ELSE "copy")
             /\ loc' = [loc EXCEPT ![r].len = n, ![r].idx = Slot(begin, HDR)]
             /\ UNCHANGED ret
    <3> DEFINE l == [loc[r] EXCEPT !.len = n, !.idx = Slot(begin, HDR)]
    <3>1. Slot(begin, HDR) \in Slots
      BY <1>2, SlotType
    <3>2. l \in Locals /\ l.op = loc[r].op
      BY <1>2, <3>1 DEF Locals
    <3>3. loc' = [loc EXCEPT ![r] = l]
      BY <2>3
    <3> HIDE DEF l
    <3>4. loc' \in [Procs -> Locals] /\ loc'[r] = l /\ \A q \in Procs : q # r => loc'[q] = loc[q]
      BY <1>1, <3>2, <3>3 DEF TypeOK
    <3>5. QED
      BY <1>1, <2>3, <3>2, <3>4 DEF Goto, TypeOK, InnerPcs, CopyPcs
  <2>4. QED
    BY <2>1, <2>2, <2>3 DEF Decode, ReadSequenceError
<1>5. TypeOK'
  BY <1>3, <1>4 DEF TypeOK
<1>6. OthersKeep(r)
  BY <1>3, <1>4 DEF OthersKeep
<1>7. QED
  BY <1>1, <1>4, <1>5, <1>6, OwnLocals

LEMMA ReadHeaderType ==
  ASSUME TypeInv, NEW r \in Readers, ReadHeader(r)
  PROVE  TypeInv'
<1>1. LengthsAt(begin) \subseteq Nat
  <2>1. mem[begin].msg \in Frames \cup {NoMsg}
    BY DEF TypeInv, TypeOK, Cells
  <2>2. CASE HeaderAt(begin)
    <3>1. mem[begin].msg \in Frames
      BY <2>1, <2>2 DEF HeaderAt
    <3>2. mem[begin].msg.len \in Lens
      BY <3>1 DEF Frames
    <3>3. QED
      BY <2>2, <3>2, Constants DEF LengthsAt
  <2>3. CASE ~HeaderAt(begin)
    BY <2>3, Constants DEF LengthsAt
  <2>4. QED
    BY <2>2, <2>3
<1>2. QED
  BY <1>1, DecodeType DEF ReadHeader

LEMMA ReadCopyType ==
  ASSUME TypeInv, NEW r \in Readers, ReadFirst(r) \/ ReadRest(r)
  PROVE  TypeInv'
<1> USE DEF TypeInv
<1>1. r \in Procs /\ r \notin Writers
  BY ShmQueueAssumption DEF Procs
<1>2. UNCHANGED <<mem, begin, end, beginLock, endLock, loc, ret, sent, frames, got>>
  BY DEF ReadFirst, ReadRest, shared, locks
<1>3. /\ FirstPart(r) \in Nat /\ FirstPart(r) <= loc[r].len
      /\ loc[r].idx + FirstPart(r) <= L
      /\ loc[r].idx \in Nat /\ loc[r].len \in Nat /\ L \in Nat
  BY <1>1, FirstPartType, Constants
<1>4. mem \in [Slots -> Cells] /\ Slots = 0..(L - 1)
  BY DEF TypeOK, Slots
<1>5. PICK l \in {"rest", "publish", "fault"} : pc' = [pc EXCEPT ![r] = l]
  BY DEF ReadFirst, ReadRest, Goto
<1>6. DOMAIN buf' = Readers /\ \A q \in Readers : q # r => buf'[q] = buf[q]
  BY DEF ReadFirst, ReadRest, TypeOK
<1>7. /\ pc'[r] = "rest" => buf'[r] \in [0..(FirstPart(r) - 1) -> Cells]
      /\ pc'[r] = "publish" => buf'[r] \in [0..(loc[r].len - 1) -> Cells]
  <2>1. CASE ReadFirst(r)
    <3>1. buf'[r] = [k \in 0..(FirstPart(r) - 1) |-> mem[loc[r].idx + k]]
      BY <2>1 DEF ReadFirst, TypeOK
    <3>2. ASSUME NEW k \in 0..(FirstPart(r) - 1)
          PROVE  mem[loc[r].idx + k] \in Cells
      <4>1. loc[r].idx + k \in Slots
        BY <1>3, <1>4
      <4>2. QED
        BY <1>4, <4>1
    <3>3. buf'[r] \in [0..(FirstPart(r) - 1) -> Cells]
      BY <3>1, <3>2
    <3>4. pc'[r] = "publish" => FirstPart(r) = loc[r].len
      BY <1>1, <1>3, <2>1 DEF ReadFirst, Goto, TypeOK
    <3>5. QED
      BY <3>3, <3>4
  <2>2. CASE ReadRest(r)
    <3>1. CASE pc'[r] = "publish"
      <4>1. /\ loc[r].len - FirstPart(r) <= L
            /\ buf'[r] = [k \in 0..(loc[r].len - 1) |->
                            IF k < FirstPart(r) THEN buf[r][k]
                                                ELSE mem[k - FirstPart(r)]]
        <5>1. ~(loc[r].len - FirstPart(r) > L)
          <6>1. SUFFICES ASSUME loc[r].len - FirstPart(r) > L PROVE FALSE
            OBVIOUS
          <6>2. pc' = [pc EXCEPT ![r] = "fault"]
            BY <2>2, <6>1 DEF ReadRest, Goto
          <6>3. QED
            BY <1>1, <3>1, <6>2 DEF TypeOK
        <5>2. buf' = [buf EXCEPT ![r] =
                         [k \in 0..(loc[r].len - 1) |->
                            IF k < FirstPart(r) THEN buf[r][k]
                                                ELSE mem[k - FirstPart(r)]]]
          BY <2>2, <5>1 DEF ReadRest
        <5>3. QED
          BY <1>3, <5>1, <5>2 DEF TypeOK
      <4>2. buf[r] \in [0..(FirstPart(r) - 1) -> Cells]
        BY <2>2 DEF ReadRest, ReceiverLocals
      <4>3. ASSUME NEW k \in 0..(loc[r].len - 1)
            PROVE  (IF k < FirstPart(r) THEN buf[r][k] ELSE mem[k - FirstPart(r)]) \in Cells
        <5>1. CASE k < FirstPart(r)
          <6>1. k \in 0..(FirstPart(r) - 1)
            BY <1>3, <5>1
          <6>2. QED
            BY <4>2, <5>1, <6>1
        <5>2. CASE ~(k < FirstPart(r))
          <6>1. k - FirstPart(r) \in Slots
            BY <1>3, <1>4, <4>1, <5>2
          <6>2. QED
            BY <1>4, <5>2, <6>1
        <5>3. QED
          BY <5>1, <5>2
      <4>4. QED
        BY <3>1, <4>1, <4>3
    <3>2. pc'[r] # "rest"
      BY <1>1, <2>2 DEF ReadRest, Goto, TypeOK
    <3>3. QED
      BY <3>1, <3>2
  <2>3. QED
    BY <2>1, <2>2
<1>8. TypeOK'
  BY <1>2, <1>5, <1>6 DEF TypeOK, InnerPcs, CopyPcs
<1>9. OthersKeep(r)
  BY <1>1, <1>2, <1>5, <1>6 DEF TypeOK, OthersKeep
<1>10. FirstPart(r)' = FirstPart(r) /\ loc'[r] = loc[r]
  BY <1>2 DEF FirstPart, Min2
<1>11. QED
  BY <1>1, <1>7, <1>8, <1>9, <1>10, OwnLocals

LEMMA ReadEndType ==
  ASSUME TypeInv, NEW r \in Readers, Consume(r) \/ Answer(r) \/ ResetBegin(r)
  PROVE  TypeInv'
<1> USE DEF TypeInv
<1>1. r \in Procs /\ r \notin Writers
  BY ShmQueueAssumption DEF Procs
<1>2. loc[r].idx \in Int /\ loc[r].len \in Int
  BY <1>1, FirstPartType
<1>3. PICK x \in Int : Return(r, x)
  BY <1>2 DEF Consume, Answer, ResetBegin, QUEUE_DATA_SEQUENCE_ERROR
<1>4. /\ pc' \in [Procs -> InnerPcs \cup {"idle", "lock", "fault"}]
      /\ loc' \in [Procs -> Locals]
      /\ ret' \in [Procs -> Int]
      /\ pc'[r] \in {"idle", "unlock", "fault"}
      /\ \A q \in Procs : q # r => pc'[q] = pc[q] /\ loc'[q] = loc[q]
  BY <1>1, <1>3, Returning
<1>5. UNCHANGED <<mem, end, beginLock, endLock, sent, buf>>
  BY DEF Consume, Answer, ResetBegin, shared, locks
<1>6. begin' \in Slots
  BY <1>1, <1>2, SlotType DEF Consume, Answer, ResetBegin, shared, TypeOK, Locals
<1>7. frames' \in Seq(Frames)
  <2>1. Rest(frames) \in Seq(Frames)
    BY DEF Rest, TypeOK
  <2>2. CASE ResetBegin(r)
    BY <2>2 DEF ResetBegin, TypeOK
  <2>3. QED
    BY <2>1, <2>2 DEF Consume, Answer, TypeOK
<1>8. got' \in [Readers -> Frames \cup {NoMsg, Torn}]
  <2>1. CASE Consume(r)
    <3>1. CASE loc[r].op = "get"
      <4>1. Content(r) \in Frames \cup {NoMsg, Torn}
        BY <2>1, <3>1, ContentType DEF Consume, ReceiverLocals
      <4>2. QED
        BY <2>1, <3>1, <4>1 DEF Consume, TypeOK
    <3>2. CASE loc[r].op # "get"
      BY <2>1, <3>2 DEF Consume, TypeOK
    <3>3. QED
      BY <3>1, <3>2
  <2>2. CASE Answer(r)
    <3>1. Content(r) \in Frames \cup {NoMsg, Torn}
      BY <2>2, ContentType DEF Answer, ReceiverLocals
    <3>2. QED
      BY <2>2, <3>1 DEF Answer, TypeOK
  <2>3. CASE ResetBegin(r)
    BY <2>3 DEF ResetBegin, TypeOK
  <2>4. QED
    BY <2>1, <2>2, <2>3
<1>9. TypeOK'
  BY <1>4, <1>5, <1>6, <1>7, <1>8 DEF TypeOK
<1>10. OthersKeep(r)
  BY <1>4, <1>5 DEF OthersKeep
<1>11. QED
  BY <1>1, <1>4, <1>9, <1>10, OwnLocals

LEMMA ResetEndType ==
  ASSUME TypeInv, NEW r \in Readers, ResetEnd(r)
  PROVE  TypeInv'
<1> USE DEF TypeInv
<1>1. r \in Procs /\ r \notin Writers
  BY ShmQueueAssumption DEF Procs
<1>2. pc' = [pc EXCEPT ![r] = "resetBegin"] /\ loc' = [loc EXCEPT ![r].idx = end]
      /\ UNCHANGED <<mem, begin, end, beginLock, endLock, ret, sent, got, buf>>
      /\ frames' = << >>
  BY DEF ResetEnd, Goto, shared, locks
<1>3. pc' \in [Procs -> InnerPcs \cup {"idle", "lock", "fault"}]
  BY <1>1, <1>2 DEF TypeOK, InnerPcs
<1>4. loc' \in [Procs -> Locals]
  <2>1. [loc[r] EXCEPT !.idx = end] \in Locals
    BY <1>1 DEF TypeOK, Locals
  <2>2. QED
    BY <1>1, <1>2, <2>1 DEF TypeOK
<1>5. TypeOK'
  BY <1>2, <1>3, <1>4 DEF TypeOK
<1>6. OthersKeep(r)
  BY <1>1, <1>2 DEF OthersKeep, TypeOK
<1>7. QED
  BY <1>1, <1>2, <1>5, <1>6, OwnLocals DEF TypeOK

LEMMA TypeStep == TypeInv /\ [Next]_vars => TypeInv'
<1> SUFFICES ASSUME TypeInv, [Next]_vars PROVE TypeInv'
  OBVIOUS
<1>1. CASE Send
  BY <1>1, EntryType DEF Send, Procs
<1>2. CASE Read
  BY <1>2, EntryType DEF Read, Procs
<1>3. ASSUME NEW p \in Procs, Work(p) PROVE TypeInv'
  <2>1. CASE TakeLock(p) \/ Unlock(p)
    BY <2>1, EntryType
  <2>2. CASE SizeEqual(p) \/ SizeOrder(p) \/ SizeWrapped(p) \/ SizeMiddle(p)
    BY <2>2, SizeType
  <2>3. CASE WriteHeader(p) \/ WriteFirst(p) \/ WriteRest(p) \/ Publish(p)
    <3>1. p \in Writers
      BY <2>3 DEF WriteHeader, WriteFirst, WriteRest, Publish
    <3>2. QED
      BY <2>3, <3>1, WriteType
  <2>4. CASE ReadHeader(p) \/ ReadFirst(p) \/ ReadRest(p)
              \/ ReadEnd(p)
    <3>1. p \in Readers
      BY <2>4 DEF ReadHeader, ReadFirst, ReadRest, ReadEnd
    <3>2. QED
      BY <2>4, <3>1, ReadHeaderType, ReadCopyType, ReadEndType, ResetEndType DEF ReadEnd
  <2>5. QED
    BY <1>3, <2>1, <2>2, <2>3, <2>4 DEF Work
<1>4. ASSUME NEW p \in Procs, Exit(p) PROVE TypeInv'
  BY <1>4, EntryType
<1>5. CASE UNCHANGED vars
  BY <1>5 DEF vars, TypeInv, TypeOK, SenderLocals, ReceiverLocals, FirstPart, Min2
<1>6. QED
  BY <1>1, <1>2, <1>3, <1>4, <1>5 DEF Next

\* The variables keep their types and both indices stay inside the ring, for
\* every size of the ring, any number of processes, both implementations,
\* all four modes and with or without locks.
THEOREM TypeCorrect == Spec => []TypeOK
<1>1. Spec => []TypeInv
  BY TypeInit, TypeStep, PTL DEF Spec
<1>2. TypeInv => TypeOK
  BY DEF TypeInv
<1>3. QED
  BY <1>1, <1>2, PTL

-----------------------------------------------------------------------------
(* That the locks do for the queue what they are there for, in every       *)
(* deployment: any number of processes on a side that locks, or one        *)
(* process on a side that does not, C++ and C programs mixed, processes    *)
(* dying anywhere.                                                         *)

\* Either the sending side locks, in every process, or there is one sender.
SendersApart ==
  \/ IsEndLock /\ Writers \subseteq LockPtr
  \/ \A v, w \in Writers : v = w

ReceiversApart ==
  \/ IsBeginLock /\ Readers \subseteq LockPtr
  \/ \A q, r \in Readers : q = r

\* Who is inside a locked region holds the lock the region is guarded by.
SenderHolds ==
  \A w \in Writers : Locks(w) /\ pc[w] \in InnerPcs => endLock.w = {w}

ReceiverHolds ==
  /\ beginLock.w # {} => beginLock.r = {}
  /\ \A r \in Readers : Locks(r) /\ pc[r] \in InnerPcs =>
       IF SharedRead(r) THEN r \in beginLock.r ELSE beginLock.w = {r}

LockInv == TypeInv /\ SenderHolds /\ ReceiverHolds

\* A step that leaves the locks alone brings nobody into a locked region and
\* changes nobody's kind of call there.
KeepsLocks ==
  /\ UNCHANGED <<beginLock, endLock>>
  /\ \A q \in Procs : Locks(q) /\ pc'[q] \in InnerPcs =>
       pc[q] \in InnerPcs /\ loc'[q].op = loc[q].op

LEMMA KeepsLocksKeeps ==
  ASSUME SenderHolds, ReceiverHolds, KeepsLocks
  PROVE  SenderHolds' /\ ReceiverHolds'
<1>1. \A q \in Procs : Locks(q)' = Locks(q)
  BY DEF Locks, IsEndLock, IsBeginLock
<1>2. SenderHolds'
  BY <1>1 DEF SenderHolds, KeepsLocks, Procs
<1>3. ReceiverHolds'
  <2>1. (beginLock.w # {} => beginLock.r = {})'
    BY DEF ReceiverHolds, KeepsLocks
  <2>2. ASSUME NEW r \in Readers, Locks(r), pc'[r] \in InnerPcs
        PROVE  IF SharedRead(r)' THEN r \in beginLock.r ELSE beginLock.w = {r}
    <3>1. pc[r] \in InnerPcs /\ loc'[r].op = loc[r].op
      BY <2>2 DEF KeepsLocks, Procs
    <3>2. SharedRead(r)' <=> SharedRead(r)
      BY <3>1 DEF SharedRead
    <3>3. QED
      BY <2>2, <3>1, <3>2 DEF ReceiverHolds
  <2>3. QED
    BY <1>1, <2>1, <2>2 DEF ReceiverHolds, KeepsLocks, Procs
<1>4. QED
  BY <1>2, <1>3

\* One process moves inside its call, or leaves it by Return.
LEMMA Inside ==
  ASSUME TypeInv, NEW p \in Procs, pc[p] \in InnerPcs,
         UNCHANGED <<beginLock, endLock>>,
         \/ \E x \in Int : Return(p, x)
         \/ \E l \in InnerPcs \cup {"fault"} : Goto(p, l)
              /\ \A q \in Procs : loc'[q].op = loc[q].op
  PROVE  KeepsLocks
<1>1. CASE \E x \in Int : Return(p, x)
  <2>1. PICK x \in Int : Return(p, x)
    BY <1>1
  <2>2. \A q \in Procs : q # p => pc'[q] = pc[q] /\ loc'[q] = loc[q]
    BY <2>1, Returning
  <2>3. pc'[p] \in InnerPcs => loc'[p].op = loc[p].op
    <3>1. pc'[p] = ReturnPc(p)
      BY <2>1 DEF Return, Goto, TypeInv, TypeOK
    <3>2. CASE ReturnPc(p) = "unlock"
      <4>1. loc'[p] = [NoCall EXCEPT !.op = loc[p].op]
        BY <2>1, <3>2 DEF Return, TypeInv, TypeOK
      <4>2. QED
        BY <4>1 DEF NoCall
    <3>3. CASE ReturnPc(p) # "unlock"
      BY <3>1, <3>3 DEF ReturnPc, InnerPcs, SizePcs, CopyPcs
    <3>4. QED
      BY <3>2, <3>3
  <2>4. QED
    BY <2>2, <2>3 DEF KeepsLocks
<1>2. CASE \E l \in InnerPcs \cup {"fault"} : Goto(p, l)
             /\ \A q \in Procs : loc'[q].op = loc[q].op
  BY <1>2 DEF KeepsLocks, Goto, TypeInv, TypeOK
<1>3. QED
  BY <1>1, <1>2

\* A change of one local other than the kind of call.
LEMMA SameOp ==
  ASSUME TypeInv, NEW p \in Procs, NEW l, l.op = loc[p].op,
         loc' = [loc EXCEPT ![p] = l]
  PROVE  \A q \in Procs : loc'[q].op = loc[q].op
BY DEF TypeInv, TypeOK

LEMMA SizeKnownKeepsLocks ==
  ASSUME TypeInv, NEW p \in Procs, pc[p] \in SizePcs, NEW n, SizeKnown(p, n)
  PROVE  KeepsLocks
<1>0. pc[p] \in InnerPcs /\ UNCHANGED <<beginLock, endLock>>
  BY DEF SizeKnown, locks, InnerPcs
<1>1. CASE SendCheck(p, n)
  <2>1. CASE Goto(p, "head") /\ UNCHANGED <<loc, ret>>
    BY <1>0, <2>1, Inside DEF InnerPcs, CopyPcs
  <2>2. CASE Return(p, QUEUE_NO_SPACE)
    BY <1>0, <2>2, Inside DEF QUEUE_NO_SPACE
  <2>3. QED
    BY <1>1, <2>1, <2>2 DEF SendCheck
<1>2. CASE ReadCheck(p, n)
  <2>1. CASE Return(p, QUEUE_NO_MESSAGE)
    BY <1>0, <2>1, Inside DEF QUEUE_NO_MESSAGE
  <2>2. CASE ReadSequenceError(p)
    <3>1. CASE Return(p, QUEUE_DATA_SEQUENCE_ERROR)
      BY <1>0, <3>1, Inside DEF QUEUE_DATA_SEQUENCE_ERROR
    <3>2. CASE Goto(p, "reset") /\ UNCHANGED <<loc, ret>>
      BY <1>0, <3>2, Inside DEF InnerPcs
    <3>3. QED
      BY <2>2, <3>1, <3>2 DEF ReadSequenceError
  <2>3. CASE /\ Goto(p, "head")
             /\ loc' = [loc EXCEPT ![p].room = MaxLength(p, n)]
    <3> DEFINE l == [loc[p] EXCEPT !.room = MaxLength(p, n)]
    <3>1. l.op = loc[p].op
      BY DEF TypeInv, TypeOK, Locals
    <3>2. loc' = [loc EXCEPT ![p] = l]
      BY <2>3
    <3> HIDE DEF l
    <3>3. \A q \in Procs : loc'[q].op = loc[q].op
      BY <3>1, <3>2, SameOp
    <3>4. QED
      BY <1>0, <2>3, <3>3, Inside DEF InnerPcs, CopyPcs
  <2>4. QED
    BY <1>2, <2>1, <2>2, <2>3 DEF ReadCheck
<1>3. QED
  BY <1>1, <1>2 DEF SizeKnown

LEMMA SizeKeepsLocks ==
  ASSUME TypeInv, NEW p \in Procs,
         SizeEqual(p) \/ SizeOrder(p) \/ SizeWrapped(p) \/ SizeMiddle(p)
  PROVE  KeepsLocks
<1>1. pc[p] \in SizePcs
  BY DEF SizeEqual, SizeOrder, SizeWrapped, SizeMiddle, SizePcs
<1>2. CASE UNCHANGED <<locks, loc>> /\ \E l \in SizePcs : Goto(p, l)
  BY <1>1, <1>2, Inside DEF InnerPcs, locks
<1>3. QED
  BY <1>1, <1>2, SizeKnownKeepsLocks DEF SizeEqual, SizeOrder, SizeWrapped, SizeMiddle, SizePcs

LEMMA DecodeKeepsLocks ==
  ASSUME TypeInv, NEW p \in Procs, pc[p] = "head", NEW n, Decode(p, n), UNCHANGED locks
  PROVE  KeepsLocks
<1>1. pc[p] \in InnerPcs /\ UNCHANGED <<beginLock, endLock>>
  BY DEF locks, InnerPcs, CopyPcs
<1>2. CASE Return(p, QUEUE_DATA_SEQUENCE_ERROR)
  BY <1>1, <1>2, Inside DEF QUEUE_DATA_SEQUENCE_ERROR
<1>3. CASE Goto(p, "reset") /\ UNCHANGED <<loc, ret>>
  BY <1>1, <1>3, Inside DEF InnerPcs
<1>4. CASE /\ Goto(p, IF loc[p].op = "del" THEN "publish" ELSE "copy")
           /\ loc' = [loc EXCEPT ![p].len = n, ![p].idx = Slot(begin, HDR)]
  <2> DEFINE l == [loc[p] EXCEPT !.len = n, !.idx = Slot(begin, HDR)]
  <2>1. l.op = loc[p].op
    BY DEF TypeInv, TypeOK, Locals
  <2>2. loc' = [loc EXCEPT ![p] = l]
    BY <1>4
  <2> HIDE DEF l
  <2>3. \A q \in Procs : loc'[q].op = loc[q].op
    BY <2>1, <2>2, SameOp
  <2>4. QED
    BY <1>1, <1>4, <2>3, Inside DEF InnerPcs, CopyPcs
<1>5. QED
  BY <1>2, <1>3, <1>4 DEF Decode, ReadSequenceError

LEMMA CopyKeepsLocks ==
  ASSUME TypeInv, NEW p \in Procs,
         \/ WriteHeader(p) \/ WriteFirst(p) \/ WriteRest(p) \/ Publish(p)
         \/ ReadHeader(p) \/ ReadFirst(p) \/ ReadRest(p)
         \/ Consume(p) \/ Answer(p) \/ ResetEnd(p) \/ ResetBegin(p)
  PROVE  KeepsLocks
<1>1. pc[p] \in InnerPcs /\ UNCHANGED <<beginLock, endLock>>
  BY DEF WriteHeader, WriteFirst, WriteRest, Publish, ReadHeader, Decode, ReadFirst, ReadRest,
         Consume, Answer, ResetEnd, ResetBegin, locks, InnerPcs, CopyPcs
<1>2. loc[p] \in Locals /\ loc[p].len \in Int
  BY DEF TypeInv, TypeOK, Locals
<1>3. CASE WriteFirst(p) \/ WriteRest(p) \/ ReadFirst(p) \/ ReadRest(p)
  BY <1>1, <1>3, Inside DEF WriteFirst, WriteRest, ReadFirst, ReadRest, InnerPcs, CopyPcs
<1>4. CASE Publish(p) \/ Consume(p) \/ Answer(p) \/ ResetBegin(p)
  BY <1>1, <1>2, <1>4, Inside DEF Publish, Consume, Answer, ResetBegin, QUEUE_OK,
                                  QUEUE_DATA_SEQUENCE_ERROR
<1>5. CASE WriteHeader(p)
  <2> DEFINE m == [src |-> p, num |-> sent[p] + 1, len |-> loc[p].len, pos |-> end]
             l == [loc[p] EXCEPT !.msg = m, !.idx = Slot(end, HDR)]
  <2>1. l.op = loc[p].op
    BY <1>2 DEF Locals
  <2>2. loc' = [loc EXCEPT ![p] = l] /\ Goto(p, "copy")
    BY <1>5 DEF WriteHeader
  <2> HIDE DEF l
  <2>3. QED
    BY <1>1, <2>1, <2>2, SameOp, Inside DEF InnerPcs, CopyPcs
<1>6. CASE ReadHeader(p)
  BY <1>6, DecodeKeepsLocks DEF ReadHeader
<1>7. CASE ResetEnd(p)
  <2> DEFINE l == [loc[p] EXCEPT !.idx = end]
  <2>1. l.op = loc[p].op
    BY <1>2 DEF Locals
  <2>2. loc' = [loc EXCEPT ![p] = l] /\ Goto(p, "resetBegin")
    BY <1>7 DEF ResetEnd
  <2> HIDE DEF l
  <2>3. QED
    BY <1>1, <2>1, <2>2, SameOp, Inside DEF InnerPcs
<1>8. QED
  BY <1>3, <1>4, <1>5, <1>6, <1>7

\* Entering a call with a lock leads to the lock, not past it.
LEMMA EntryKeepsLocks ==
  ASSUME TypeInv, NEW p \in Procs,
         \/ \E n \in Lens : SendMessage(p, n)
         \/ \E op \in Ops : ReadMessage(p, op) \/ ReadNull(p, op)
  PROVE  KeepsLocks
<1>1. UNCHANGED <<beginLock, endLock>>
  BY DEF SendMessage, ReadMessage, ReadNull, locks
<1>2. CASE UNCHANGED <<pc, loc>>
  BY <1>1, <1>2 DEF KeepsLocks
<1>3. CASE /\ Goto(p, IF Locks(p) THEN "lock" ELSE "equal")
           /\ \E l : loc' = [loc EXCEPT ![p] = l]
  <2>1. \A q \in Procs : q # p => pc'[q] = pc[q] /\ loc'[q] = loc[q]
    BY <1>3 DEF Goto, TypeInv, TypeOK
  <2>2. Locks(p) => pc'[p] = "lock"
    BY <1>3 DEF Goto, TypeInv, TypeOK
  <2>3. QED
    BY <1>1, <2>1, <2>2 DEF KeepsLocks, InnerPcs, SizePcs, CopyPcs
<1>4. QED
  BY <1>2, <1>3 DEF SendMessage, ReadMessage, ReadNull

LEMMA LockInit == Init => LockInv
<1>1. Init => TypeInv
  BY TypeInit
<1>2. Init => SenderHolds /\ ReceiverHolds
  BY DEF Init, SenderHolds, ReceiverHolds, BeginLock!Init, BeginLock!Unlocked,
         InnerPcs, SizePcs, CopyPcs, Procs
<1>3. QED
  BY <1>1, <1>2 DEF LockInv

LEMMA LockActions ==
  ASSUME LockInv, NEW p \in Procs, TakeLock(p) \/ Unlock(p) \/ Exit(p)
  PROVE  SenderHolds' /\ ReceiverHolds'
<1> USE DEF LockInv
<1>1. \A q \in Procs : Locks(q)' = Locks(q)
  BY DEF Locks, IsEndLock, IsBeginLock
<1>2. beginLock \in LockStates /\ endLock \in LockStates /\ Writers \cap Readers = {}
  BY ShmQueueAssumption DEF TypeInv, TypeOK
<1>3. \A q \in Procs : q # p => pc'[q] = pc[q] /\ loc'[q] = loc[q]
  BY DEF TakeLock, Unlock, Exit, Goto, TypeInv, TypeOK
<1>4. \A q \in Procs : q # p => (SharedRead(q)' <=> SharedRead(q))
  BY <1>3 DEF SharedRead
<1>5. CASE TakeLock(p)
  <2>1. UNCHANGED loc /\ (SharedRead(p)' <=> SharedRead(p))
    BY <1>5 DEF TakeLock, SharedRead
  <2>2. CASE p \in Writers
    <3>1. endLock.w = {} /\ endLock' = [endLock EXCEPT !.w = {p}] /\ UNCHANGED beginLock
      BY <1>5, <2>2 DEF TakeLock, EndLock!Wlock
    <3>2. endLock'.w = {p}
      BY <1>2, <3>1 DEF LockStates
    <3>3. SenderHolds'
      BY <1>1, <1>3, <3>1, <3>2 DEF SenderHolds, Procs
    <3>4. ReceiverHolds'
      BY <1>1, <1>2, <1>3, <1>4, <2>2, <3>1 DEF ReceiverHolds, Procs
    <3>5. QED
      BY <3>3, <3>4
  <2>3. CASE p \in Readers
    <3>1. beginLock.w = {} /\ UNCHANGED endLock
      BY <1>2, <1>5, <2>3 DEF TakeLock, BeginLock!Rlock, BeginLock!Wlock
    <3>2. SenderHolds'
      BY <1>1, <1>2, <1>3, <2>3, <3>1 DEF SenderHolds, Procs
    <3>3. CASE SharedRead(p)
      <4>1. beginLock' = [beginLock EXCEPT !.r = @ \cup {p}]
        BY <1>2, <1>5, <2>3, <3>3 DEF TakeLock, BeginLock!Rlock
      <4>2. beginLock'.w = {} /\ beginLock'.r = beginLock.r \cup {p}
        BY <1>2, <3>1, <4>1 DEF LockStates
      <4>3. QED
        BY <1>1, <1>3, <1>4, <2>1, <3>1, <3>2, <3>3, <4>2 DEF ReceiverHolds, Procs
    <3>4. CASE ~SharedRead(p)
      <4>1. beginLock.r = {} /\ beginLock' = [beginLock EXCEPT !.w = {p}]
        BY <1>2, <1>5, <2>3, <3>4 DEF TakeLock, BeginLock!Wlock
      <4>2. beginLock'.w = {p} /\ beginLock'.r = {}
        BY <1>2, <4>1 DEF LockStates
      <4>3. QED
        BY <1>1, <1>3, <1>4, <2>1, <3>1, <3>2, <3>4, <4>1, <4>2 DEF ReceiverHolds, Procs
    <3>5. QED
      BY <3>3, <3>4
  <2>4. QED
    BY <2>2, <2>3 DEF Procs
<1>6. CASE Unlock(p) \/ Exit(p)
  <2>1. pc'[p] = "idle"
    BY <1>6 DEF Unlock, Exit, Goto, TypeInv, TypeOK
  <2>2. endLock'.w \in {endLock.w, endLock.w \ {p}}
    BY <1>2, <1>6 DEF Unlock, Exit, EndLock!UnWlock, EndLock!Undo, LockStates
  <2>3. /\ beginLock'.w \in {beginLock.w, beginLock.w \ {p}}
        /\ beginLock'.r \in {beginLock.r, beginLock.r \ {p}}
    BY <1>2, <1>6 DEF Unlock, Exit, BeginLock!UnWlock, BeginLock!UnRlock, BeginLock!Undo,
                      LockStates
  <2>4. pc'[p] \notin InnerPcs
    BY <2>1 DEF InnerPcs, SizePcs, CopyPcs
  <2>5. SenderHolds'
    BY <1>1, <1>3, <2>2, <2>4 DEF SenderHolds, Procs
  <2>6. (beginLock.w # {} => beginLock.r = {})'
    BY <2>3 DEF ReceiverHolds
  <2>7. ASSUME NEW r \in Readers, Locks(r), pc'[r] \in InnerPcs
        PROVE  IF SharedRead(r)' THEN r \in beginLock'.r ELSE beginLock'.w = {r}
    <3>1. r # p /\ pc[r] \in InnerPcs /\ (SharedRead(r)' <=> SharedRead(r))
      BY <1>3, <1>4, <2>4, <2>7 DEF Procs
    <3>2. IF SharedRead(r) THEN r \in beginLock.r ELSE beginLock.w = {r}
      BY <2>7, <3>1 DEF ReceiverHolds
    <3>3. QED
      BY <2>3, <3>1, <3>2
  <2>8. QED
    BY <1>1, <2>5, <2>6, <2>7 DEF ReceiverHolds, Procs
<1>7. QED
  BY <1>5, <1>6

LEMMA LockStep == LockInv /\ [Next]_vars => LockInv'
<1> SUFFICES ASSUME LockInv, [Next]_vars PROVE LockInv'
  OBVIOUS
<1> USE DEF LockInv
<1>1. TypeInv'
  BY TypeStep
<1>2. CASE Send \/ Read
  BY <1>1, <1>2, EntryKeepsLocks, KeepsLocksKeeps DEF Send, Read, Procs
<1>3. ASSUME NEW p \in Procs, Work(p) PROVE SenderHolds' /\ ReceiverHolds'
  <2>1. CASE TakeLock(p) \/ Unlock(p)
    BY <2>1, LockActions
  <2>2. CASE ~(TakeLock(p) \/ Unlock(p))
    BY <1>3, <2>2, SizeKeepsLocks, CopyKeepsLocks, KeepsLocksKeeps DEF Work, ReadEnd
  <2>3. QED
    BY <2>1, <2>2
<1>4. ASSUME NEW p \in Procs, Exit(p) PROVE SenderHolds' /\ ReceiverHolds'
  BY <1>4, LockActions
<1>5. CASE UNCHANGED vars
  BY <1>1, <1>5, KeepsLocksKeeps DEF vars, KeepsLocks
<1>6. QED
  BY <1>1, <1>2, <1>3, <1>4, <1>5 DEF Next

LEMMA LockInvariant == Spec => []LockInv
BY LockInit, LockStep, PTL DEF Spec

\* Holding the lock, or being the only one, is being alone.
LEMMA SendersAlone ==
  ASSUME SendersApart, LockInv
  PROVE  OneSender
<1> SUFFICES ASSUME NEW v \in Writers, NEW w \in Writers,
                    pc[v] \in InnerPcs, pc[w] \in InnerPcs
             PROVE  v = w
  BY DEF OneSender
<1>1. CASE IsEndLock /\ Writers \subseteq LockPtr
  <2>1. Locks(v) /\ Locks(w)
    BY <1>1 DEF Locks
  <2>2. endLock.w = {v} /\ endLock.w = {w}
    BY <2>1 DEF LockInv, SenderHolds
  <2>3. QED
    BY <2>2
<1>2. QED
  BY <1>1 DEF SendersApart

LEMMA ReceiversAlone ==
  ASSUME ReceiversApart, LockInv
  PROVE  OneReceiver
<1> SUFFICES ASSUME NEW q \in Readers, NEW r \in Readers,
                    pc[q] \in InnerPcs, pc[r] \in InnerPcs, loc[q].op # "peek"
             PROVE  q = r
  BY DEF OneReceiver
<1>1. CASE IsBeginLock /\ Readers \subseteq LockPtr
  <2>1. Locks(q) /\ Locks(r)
    BY <1>1, ShmQueueAssumption DEF Locks
  <2>2. beginLock.w = {q}
    BY <2>1 DEF LockInv, ReceiverHolds, SharedRead
  <2>3. ~SharedRead(r)
    BY <2>1, <2>2 DEF LockInv, ReceiverHolds
  <2>4. beginLock.w = {r}
    BY <2>1, <2>3 DEF LockInv, ReceiverHolds
  <2>5. QED
    BY <2>2, <2>4
<1>2. QED
  BY <1>1 DEF ReceiversApart

\* At most one process is inside SendMessage past its lock, if every sender
\* locks or there is one sender: nobody can fill the same free bytes twice.
THEOREM SendersExclude ==
  ASSUME SendersApart
  PROVE  Spec => []OneSender
<1>1. LockInv => OneSender
  BY SendersAlone
<1>2. QED
  BY <1>1, LockInvariant, PTL

\* A process that will move m_iBegin is alone on the receiving side, even
\* with the C++ class's shared lock in ReadHeadMessage.
THEOREM ReceiversExclude ==
  ASSUME ReceiversApart
  PROVE  Spec => []OneReceiver
<1>1. LockInv => OneReceiver
  BY ReceiversAlone
<1>2. QED
  BY <1>1, LockInvariant, PTL

-----------------------------------------------------------------------------
(* The ring keeps its messages: when, and why.                             *)

\* The deployments in which the ring keeps its messages: processes of a side
\* are kept apart, the senders are C++ programs (with a C sender NoOverwrite
\* fails), and the free size of the ring, torn or not, fits an int.
Deployment ==
  /\ SendersApart
  /\ ReceiversApart
  /\ \A w \in Writers : Impl[w] = "cpp"
  /\ L <= IntMod \div 2

-----------------------------------------------------------------------------
(* Arithmetic on the ring, freed of remainders.                            *)

LEMMA ModSmall ==
  ASSUME NEW x \in Int, NEW m \in Nat \ {0}, 0 <= x, x < m
  PROVE  x % m = x
OBVIOUS

LEMMA ModAbove ==
  ASSUME NEW x \in Int, NEW m \in Nat \ {0}, m <= x, x - m < m
  PROVE  x % m = x - m
OBVIOUS

LEMMA ModBelow ==
  ASSUME NEW x \in Int, NEW m \in Nat \ {0}, -m <= x, x < 0
  PROVE  x % m = x + m
OBVIOUS

LEMMA SlotIs ==
  ASSUME NEW s \in Slots, NEW k \in 0..L
  PROVE  /\ Slot(s, k) \in Slots
         /\ Slot(s, k) = IF s + k < L THEN s + k ELSE s + k - L
<1>1. s \in Int /\ 0 <= s /\ s < L /\ k \in Int /\ 0 <= k /\ k <= L /\ L \in Nat \ {0}
  BY Constants DEF Slots
<1>2. Slot(s, k) \in Slots
  BY <1>1, SlotType
<1>3. CASE s + k < L
  BY <1>1, <1>2, <1>3, ModSmall DEF Slot
<1>4. CASE ~(s + k < L)
  <2>1. (s + k) % L = s + k - L
    <3>1. PICK x \in Int : x = s + k
      BY <1>1
    <3>2. L <= x /\ x - L < L
      BY <1>1, <1>4, <3>1
    <3>3. x % L = x - L
      BY <1>1, <3>2, ModAbove
    <3>4. QED
      BY <1>1, <3>1, <3>3
  <2>2. QED
    BY <1>2, <1>4, <2>1 DEF Slot
<1>5. QED
  BY <1>3, <1>4

LEMMA OffIs ==
  ASSUME NEW s \in Slots, NEW x \in Slots
  PROVE  /\ Off(s, x) \in Slots
         /\ Off(s, x) = IF x >= s THEN x - s ELSE x - s + L
<1>1. s \in 0..(L - 1) /\ x \in 0..(L - 1) /\ L \in Nat \ {0}
  BY Constants DEF Slots
<1>2. CASE x >= s
  BY <1>1, <1>2, ModSmall DEF Off, Slots
<1>3. CASE ~(x >= s)
  BY <1>1, <1>3, ModBelow DEF Off, Slots
<1>4. QED
  BY <1>2, <1>3

LEMMA SlotRange ==
  ASSUME NEW s \in Slots
  PROVE  s \in Int /\ 0 <= s /\ s < L /\ L \in Nat \ {0}
BY Constants DEF Slots

\* Going k on from an index that lies o behind b ends o + k behind b.
LEMMA OffSlot ==
  ASSUME NEW b \in Slots, NEW s \in Slots, NEW k \in Nat, Off(b, s) + k < L
  PROVE  Slot(s, k) \in Slots /\ Off(b, Slot(s, k)) = Off(b, s) + k
<1>1. Off(b, s) \in Slots /\ Off(b, s) = IF s >= b THEN s - b ELSE s - b + L
  BY OffIs
<1>2. k \in 0..L
  BY <1>1, SlotRange
<1>3. Slot(s, k) \in Slots /\ Slot(s, k) = IF s + k < L THEN s + k ELSE s + k - L
  BY <1>2, SlotIs
<1>4. Off(b, Slot(s, k)) = IF Slot(s, k) >= b THEN Slot(s, k) - b ELSE Slot(s, k) - b + L
  BY <1>3, OffIs
<1>5. QED
  BY <1>1, <1>2, <1>3, <1>4, SlotRange

\* Moving the base on by d, at most up to x, brings x nearer by d.
LEMMA OffShift ==
  ASSUME NEW b \in Slots, NEW x \in Slots, NEW d \in Nat, d <= Off(b, x)
  PROVE  Slot(b, d) \in Slots /\ Off(Slot(b, d), x) = Off(b, x) - d
<1>1. Off(b, x) \in Slots /\ Off(b, x) = IF x >= b THEN x - b ELSE x - b + L
  BY OffIs
<1>2. d \in 0..L
  BY <1>1, SlotRange
<1>3. Slot(b, d) \in Slots /\ Slot(b, d) = IF b + d < L THEN b + d ELSE b + d - L
  BY <1>2, SlotIs
<1>4. Off(Slot(b, d), x) = IF x >= Slot(b, d) THEN x - Slot(b, d) ELSE x - Slot(b, d) + L
  BY <1>3, OffIs
<1>5. QED
  BY <1>1, <1>2, <1>3, <1>4, SlotRange

\* Moving the base past x brings x to the far end.
LEMMA OffPast ==
  ASSUME NEW b \in Slots, NEW x \in Slots, NEW d \in 0..L, Off(b, x) < d
  PROVE  Slot(b, d) \in Slots /\ Off(Slot(b, d), x) = Off(b, x) - d + L
<1>1. Off(b, x) \in Slots /\ Off(b, x) = IF x >= b THEN x - b ELSE x - b + L
  BY OffIs
<1>2. Slot(b, d) \in Slots /\ Slot(b, d) = IF b + d < L THEN b + d ELSE b + d - L
  BY SlotIs
<1>3. Off(Slot(b, d), x) = IF x >= Slot(b, d) THEN x - Slot(b, d) ELSE x - Slot(b, d) + L
  BY <1>2, OffIs
<1>4. QED
  BY <1>1, <1>2, <1>3, SlotRange

LEMMA SlotWraps ==
  ASSUME NEW s \in Slots, NEW k \in 0..L, s + k = L
  PROVE  Slot(s, k) = 0
<1>1. L \in Nat /\ ~(s + k < L) /\ s + k - L = 0
  BY SlotRange
<1>2. QED
  BY <1>1, SlotIs

LEMMA SlotSlot ==
  ASSUME NEW s \in Slots, NEW j \in Nat, NEW k \in Nat, j + k <= L
  PROVE  Slot(Slot(s, j), k) = Slot(s, j + k)
<1>1. j \in 0..L /\ k \in 0..L /\ j + k \in 0..L
  BY SlotRange
<1>2. Slot(s, j) \in Slots /\ Slot(s, j) = IF s + j < L THEN s + j ELSE s + j - L
  BY <1>1, SlotIs
<1>3. Slot(Slot(s, j), k) = IF Slot(s, j) + k < L THEN Slot(s, j) + k ELSE Slot(s, j) + k - L
  BY <1>1, <1>2, SlotIs
<1>4. Slot(s, j + k) = IF s + (j + k) < L THEN s + (j + k) ELSE s + (j + k) - L
  BY <1>1, SlotIs
<1>5. QED
  BY <1>1, <1>2, <1>3, <1>4, SlotRange

LEMMA SlotOff ==
  ASSUME NEW s \in Slots, NEW x \in Slots
  PROVE  Slot(s, Off(s, x)) = x
<1>1. Off(s, x) \in Slots /\ Off(s, x) = IF x >= s THEN x - s ELSE x - s + L
  BY OffIs
<1>2. Off(s, x) \in 0..L
  BY <1>1, SlotRange
<1>3. Slot(s, Off(s, x)) = IF s + Off(s, x) < L THEN s + Off(s, x) ELSE s + Off(s, x) - L
  BY <1>2, SlotIs
<1>4. QED
  BY <1>1, <1>3, SlotRange

LEMMA OffSelf ==
  ASSUME NEW s \in Slots
  PROVE  Off(s, s) = 0 /\ Slot(s, 0) = s
<1>1. s \in 0..(L - 1) /\ L \in Nat \ {0}
  BY Constants DEF Slots
<1>2. QED
  BY <1>1, OffIs, SlotIs DEF Slots

\* The widths of the machine's integers against the ring.
LEMMA Widths ==
  ASSUME Deployment
  PROVE  /\ IntMod \in Nat \ {0} /\ SizeMod \in Nat \ {0}
         /\ IntMod = 2 * (IntMod \div 2)
         /\ L <= IntMod \div 2 /\ IntMod < SizeMod
         /\ HDR + EXTRA < L
         /\ IntMod \div 2 \in Nat
<1>1. IntMod \in Nat \ {0} /\ SizeMod \in Nat \ {0} /\ IntMod % 2 = 0 /\ SizeMod % IntMod = 0
  BY MachineAssumption
<1>2. IntMod = 2 * (IntMod \div 2) /\ IntMod \div 2 \in Nat
  BY <1>1
<1>3. IntMod < SizeMod
  BY MachineAssumption
<1>4. L <= IntMod \div 2 /\ HDR + EXTRA < L
  BY ShmQueueAssumption DEF Deployment
<1>5. QED
  BY <1>1, <1>2, <1>3, <1>4

\* Conversions of values that are not too large.
LEMMA Conversions ==
  ASSUME Deployment, NEW x \in Int
  PROVE  /\ 0 <= x /\ x < SizeMod => Unsigned(x) = x
         /\ -SizeMod <= x /\ x < 0 => Unsigned(x) = x + SizeMod
         /\ -(IntMod \div 2) <= x /\ x < IntMod \div 2 => Signed(x) = x
<1>1. IntMod \in Nat \ {0} /\ SizeMod \in Nat \ {0} /\ IntMod = 2 * (IntMod \div 2)
  BY Widths
<1>2. 0 <= x /\ x < SizeMod => Unsigned(x) = x
  BY <1>1, ModSmall DEF Unsigned
<1>3. -SizeMod <= x /\ x < 0 => Unsigned(x) = x + SizeMod
  BY <1>1, ModBelow DEF Unsigned
<1>4. ASSUME -(IntMod \div 2) <= x, x < IntMod \div 2 PROVE Signed(x) = x
  <2>1. IntMod \div 2 \in Nat
    BY Widths
  <2>2. CASE 0 <= x
    <3>1. x % IntMod = x
      BY <1>1, <1>4, <2>1, <2>2, ModSmall
    <3>2. QED
      BY <1>4, <3>1 DEF Signed
  <2>3. CASE x < 0
    <3>1. x % IntMod = x + IntMod
      BY <1>1, <1>4, <2>1, <2>3, ModBelow
    <3>2. QED
      BY <1>1, <1>4, <2>1, <2>3, <3>1 DEF Signed
  <2>4. QED
    BY <2>2, <2>3
<1>5. QED
  BY <1>2, <1>3, <1>4

-----------------------------------------------------------------------------
(* The invariant.  Positions are counted from m_iBegin on: the published   *)
(* frames fill the used bytes one behind the other, and a sender works in  *)
(* the bytes behind them.                                                  *)

At(i) == Off(begin, frames[i].pos)

Layout ==
  /\ frames = << >> => begin = end
  /\ frames # << >> =>
       /\ frames[1].pos = begin
       /\ At(Len(frames)) + FrameLen(frames[Len(frames)]) = Used
  /\ \A i \in 1..(Len(frames) - 1) : At(i + 1) = At(i) + FrameLen(frames[i])
  /\ \A i, j \in 1..Len(frames) : i < j => At(i) + FrameLen(frames[i]) <= At(j)
  /\ \A i \in 1..Len(frames) : frames[i].len > 0 /\ At(i) + FrameLen(frames[i]) <= Used
  /\ Used + EXTRA <= L

\* How much of its frame a sender has written when it is at this place.
Written(w) ==
  CASE pc[w] = "copy" -> HDR
    [] pc[w] = "rest" -> HDR + FirstPart(w)
    [] OTHER          -> HDR + loc[w].len

\* What a sender knows: the indices were in order when it looked and
\* receivers have not changed that, the space it found free has only grown,
\* and what it has written behind the used bytes is its frame.
SenderFacts(w) ==
  /\ pc[w] = "middle" => begin <= end
  /\ pc[w] \in SendPcs => loc[w].len > 0
  /\ pc[w] \in CopyPcs => Used + HDR + loc[w].len + EXTRA <= L
  /\ pc[w] \in {"copy", "rest", "publish"} =>
       /\ loc[w].msg.pos = end
       /\ loc[w].msg.len = loc[w].len
       /\ loc[w].idx = Slot(end, HDR)
       /\ pc[w] = "rest" => FirstPart(w) < loc[w].len
       /\ \A k \in 0..(Written(w) - 1) : mem[Slot(end, k)] = Byte(loc[w].msg, k)

\* A receiver that has found the queue not empty works on the first frame.
ReceiverFacts(r) ==
  /\ pc[r] \in {"order", "wrapped", "middle"} \cup CopyPcs => frames # << >>
  /\ pc[r] = "wrapped" => begin > end
  /\ pc[r] = "head" =>
       /\ FrameLen(frames[1]) <= loc[r].room
       /\ loc[r].room < SizeMod
       /\ ~(Impl[r] = "cpp" /\ loc[r].op = "get") => loc[r].room < IntMod \div 2
  /\ pc[r] \in {"copy", "rest", "publish"} =>
       loc[r].len = frames[1].len /\ loc[r].idx = Slot(begin, HDR)
  /\ pc[r] = "rest" =>
       \A k \in 0..(FirstPart(r) - 1) : buf[r][k] = Byte(frames[1], HDR + k)
  /\ pc[r] = "publish" /\ loc[r].op # "del" =>
       \A k \in 0..(loc[r].len - 1) : buf[r][k] = Byte(frames[1], HDR + k)
  /\ pc[r] \notin {"reset", "resetBegin"}

SenderData == \A w \in Writers : SenderFacts(w)
ReceiverData == \A r \in Readers : ReceiverFacts(r)

DataPart ==
  /\ Layout /\ UnreadIntact
  /\ SenderData /\ ReceiverData

DataInv == LockInv /\ DataPart

\* No receiver has been told that the data is damaged, and a step after
\* which that is so as well.
NoSequenceAnswer ==
  \A r \in Readers :
    ret[r] \notin {QUEUE_DATA_SEQUENCE_ERROR, Unsigned(QUEUE_DATA_SEQUENCE_ERROR)}

AnswersStay == NoSequenceAnswer => NoSequenceAnswer'

\* The published frames and the indices, with their types.
LEMMA FrameTypes ==
  ASSUME TypeInv
  PROVE  /\ begin \in Slots /\ end \in Slots /\ Used \in Slots
         /\ Len(frames) \in Nat
         /\ \A i \in 1..Len(frames) :
              /\ frames[i] \in Frames
              /\ frames[i].pos \in Slots /\ frames[i].len \in Nat
              /\ At(i) \in Slots /\ At(i) \in Nat
              /\ FrameLen(frames[i]) \in Nat /\ FrameLen(frames[i]) >= HDR
<1>1. begin \in Slots /\ end \in Slots /\ frames \in Seq(Frames)
  BY DEF TypeInv, TypeOK
<1>2. Used \in Slots /\ Len(frames) \in Nat
  BY <1>1, OffIs DEF Used
<1>3. ASSUME NEW i \in 1..Len(frames)
      PROVE  /\ frames[i] \in Frames
             /\ frames[i].pos \in Slots /\ frames[i].len \in Nat
             /\ At(i) \in Slots /\ At(i) \in Nat
             /\ FrameLen(frames[i]) \in Nat /\ FrameLen(frames[i]) >= HDR
  <2>1. frames[i] \in Frames
    BY <1>1
  <2>2. frames[i].pos \in Slots /\ frames[i].len \in Nat
    BY <2>1, Constants DEF Frames
  <2>3. At(i) \in Slots
    BY <1>1, <2>2, OffIs DEF At
  <2>4. At(i) \in Nat
    BY <2>3, Constants
  <2>5. FrameLen(frames[i]) \in Nat /\ FrameLen(frames[i]) >= HDR
    BY <2>2, Constants DEF FrameLen
  <2>6. QED
    BY <2>1, <2>2, <2>3, <2>4, <2>5
<1>4. QED
  BY <1>1, <1>2, <1>3

\* If there is a frame, the queue is not empty and the first frame lies
\* within the used bytes, from m_iBegin on.
LEMMA FirstFrame ==
  ASSUME TypeInv, Layout, frames # << >>
  PROVE  /\ 1 \in 1..Len(frames) /\ Len(frames) \in 1..Len(frames)
         /\ frames[1].pos = begin /\ frames[1].len > 0
         /\ FrameLen(frames[1]) <= Used
         /\ begin # end
<1>1. Len(frames) \in Nat /\ Len(frames) # 0
  BY FrameTypes DEF TypeInv, TypeOK
<1>2. 1 \in 1..Len(frames) /\ Len(frames) \in 1..Len(frames)
  BY <1>1
<1>3. frames[1].pos = begin /\ frames[1].len > 0 /\ At(1) + FrameLen(frames[1]) <= Used
  BY <1>2 DEF Layout
<1>4. At(1) = 0
  BY <1>3, FrameTypes, OffSelf DEF At
<1>5. FrameLen(frames[1]) <= Used /\ FrameLen(frames[1]) \in Nat /\ FrameLen(frames[1]) >= HDR
  BY <1>2, <1>3, <1>4, FrameTypes
<1>6. begin # end
  <2>1. Used > 0
    <3>1. Used \in Int /\ HDR \in Nat \ {0}
      BY FrameTypes, SlotRange, Constants
    <3>2. QED
      BY <1>5, <3>1
  <2>2. QED
    BY <2>1, FrameTypes, OffSelf DEF Used
<1>7. QED
  BY <1>2, <1>3, <1>5, <1>6

\* A byte of a published frame lies in the used part of the ring.
LEMMA FrameBytes ==
  ASSUME TypeInv, Layout, NEW i \in 1..Len(frames),
         NEW k \in 0..(FrameLen(frames[i]) - 1)
  PROVE  /\ Slot(frames[i].pos, k) \in Slots
         /\ Off(begin, Slot(frames[i].pos, k)) = At(i) + k
         /\ At(i) + k < Used
<1>1. At(i) + FrameLen(frames[i]) <= Used
  BY DEF Layout
<1>2. At(i) \in Nat /\ FrameLen(frames[i]) \in Nat /\ Used \in Int /\ Used < L /\ k \in Nat
  BY FrameTypes, SlotRange
<1>3. At(i) + k < Used /\ At(i) + k < L
  BY <1>1, <1>2, SlotRange, FrameTypes
<1>4. QED
  BY <1>2, <1>3, FrameTypes, OffSlot DEF At

-----------------------------------------------------------------------------
(* Writing into the ring.                                                  *)

\* Bytes F..to-1 of a frame that starts at s are written where they belong.
LEMMA FillIs ==
  ASSUME TypeInv, NEW m, NEW s \in Slots, NEW F \in 0..L, NEW to \in 0..L,
         NEW x \in Slots
  PROVE  Fill(m, F, to, Slot(s, F))[x] =
           IF F <= Off(s, x) /\ Off(s, x) < to THEN Byte(m, Off(s, x)) ELSE mem[x]
<1>1. Fill(m, F, to, Slot(s, F))[x] =
        IF F + Off(Slot(s, F), x) < to THEN Byte(m, F + Off(Slot(s, F), x)) ELSE mem[x]
  BY DEF Fill
<1>2. Off(s, x) \in Int /\ 0 <= Off(s, x) /\ Off(s, x) < L /\ L \in Nat
  BY OffIs, SlotRange
<1>3. CASE F <= Off(s, x)
  <2>1. Off(Slot(s, F), x) = Off(s, x) - F
    BY <1>2, <1>3, OffShift
  <2>2. QED
    BY <1>1, <1>2, <1>3, <2>1
<1>4. CASE ~(F <= Off(s, x))
  <2>1. Off(Slot(s, F), x) = Off(s, x) - F + L
    BY <1>2, <1>4, OffPast
  <2>2. QED
    BY <1>1, <1>2, <1>4, <2>1
<1>5. QED
  BY <1>3, <1>4

\* A sender that stays within the free bytes leaves the unread ones alone,
\* and adds to what it has written before.
LEMMA WriteEffect ==
  ASSUME TypeInv, Layout, UnreadIntact,
         NEW m, NEW F \in Nat, NEW to \in Nat, F <= to, Used + to <= L,
         mem' = Fill(m, F, to, Slot(end, F)),
         UNCHANGED <<begin, end, frames>>,
         \A k \in 0..(F - 1) : mem[Slot(end, k)] = Byte(m, k)
  PROVE  /\ UnreadIntact'
         /\ \A k \in 0..(to - 1) : mem'[Slot(end, k)] = Byte(m, k)
<1>1. begin \in Slots /\ end \in Slots /\ Used \in Int /\ 0 <= Used /\ Used < L /\ L \in Nat
  BY FrameTypes, SlotRange
<1>2. F \in 0..L /\ to \in 0..L
  BY <1>1
<1>3. \A x \in Slots : mem'[x] = IF F <= Off(end, x) /\ Off(end, x) < to
                                   THEN Byte(m, Off(end, x)) ELSE mem[x]
  BY <1>1, <1>2, FillIs
<1>4. UnreadIntact'
  <2> SUFFICES ASSUME NEW i \in 1..Len(frames), NEW k \in 0..(FrameLen(frames[i]) - 1)
               PROVE  mem'[Slot(frames[i].pos, k)] = Byte(frames[i], k)
    BY DEF UnreadIntact
  <2> DEFINE x == Slot(frames[i].pos, k)
  <2>1. mem[x] = Byte(frames[i], k)
    BY DEF UnreadIntact
  <2>2. x \in Slots /\ Off(begin, x) = At(i) + k /\ At(i) + k < Used
    BY FrameBytes
  <2> HIDE DEF x
  <2>3. Off(end, x) = Off(begin, x) - Used + L
    <3>1. Off(begin, x) < Used /\ Used \in 0..L
      BY <1>1, <2>2
    <3>2. Slot(begin, Used) = end
      BY <1>1, SlotOff DEF Used
    <3>3. QED
      BY <1>1, <2>2, <3>1, <3>2, OffPast
  <2>4. Off(begin, x) \in Int /\ 0 <= Off(begin, x)
    BY <1>1, <2>2, OffIs, SlotRange
  <2>5. ~(Off(end, x) < to)
    BY <1>1, <2>3, <2>4
  <2>6. mem'[x] = mem[x]
    BY <1>3, <2>2, <2>5
  <2>7. QED
    BY <2>1, <2>6 DEF x
<1>5. ASSUME NEW k \in 0..(to - 1)
      PROVE  mem'[Slot(end, k)] = Byte(m, k)
  <2>1. k \in Nat /\ k < L
    BY <1>1
  <2>2. Off(end, end) = 0
    BY <1>1, OffSelf
  <2>3. Slot(end, k) \in Slots /\ Off(end, Slot(end, k)) = k
    BY <1>1, <2>1, <2>2, OffSlot
  <2>4. CASE F <= k
    BY <1>3, <2>3, <2>4
  <2>5. CASE ~(F <= k)
    <3>1. k \in 0..(F - 1)
      BY <2>5
    <3>2. QED
      BY <1>3, <2>3, <2>5, <3>1
  <2>6. QED
    BY <2>4, <2>5
<1>6. QED
  BY <1>4, <1>5
=============================================================================
