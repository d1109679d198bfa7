------------------------- MODULE ShmQueueFifoProofs -------------------------
(***************************************************************************)
(* That the ring buffer implements the abstract queue MsgFifo: the store   *)
(* to m_iEnd puts a message, the store to m_iBegin takes or drops one, the *)
(* answer of ReadHeadMessage shows one, and every other step stutters or   *)
(* forgets what an earlier call handed over.  Then, that QUEUE_NO_MESSAGE  *)
(* is true where the size is kept in a size_t.                             *)
(***************************************************************************)
EXTENDS ShmQueueDataProofs

\* A receiver in a call has nothing in its hands until it returns.
HandsEmpty ==
  \A r \in Readers :
    pc[r] \in {"lock"} \cup SizePcs \cup CopyPcs => got[r] = NoMsg

LEMMA HandsInit == Init => HandsEmpty
BY DEF Init, HandsEmpty, SizePcs, CopyPcs, Procs

\* A step that leaves got alone, moves only its own process, and brings it
\* nowhere into a call that it was not in.
LEMMA HandsSame ==
  ASSUME HandsEmpty, NEW p \in Procs, UNCHANGED got,
         \A q \in Procs : q # p => pc'[q] = pc[q],
         \/ pc'[p] \in {"idle", "unlock", "fault", "reset", "resetBegin"}
         \/ pc[p] \in {"lock"} \cup SizePcs \cup CopyPcs
         \/ p \notin Readers
  PROVE  HandsEmpty'
BY DEF HandsEmpty, SizePcs, CopyPcs, Procs

LEMMA HandsStep ==
  ASSUME TypeInv, HandsEmpty, [Next]_vars
  PROVE  HandsEmpty'
<1> USE DEF TypeInv, TypeOK
<1>1. ASSUME NEW p \in Procs,
             \/ SizeEqual(p) \/ SizeOrder(p) \/ SizeWrapped(p) \/ SizeMiddle(p)
             \/ TakeLock(p)
             \/ WriteHeader(p) \/ WriteFirst(p) \/ WriteRest(p) \/ Publish(p)
             \/ ReadHeader(p) \/ ReadFirst(p) \/ ReadRest(p)
      PROVE  HandsEmpty'
  <2>1. UNCHANGED got /\ pc[p] \in {"lock"} \cup SizePcs \cup CopyPcs
    BY <1>1 DEF SizeEqual, SizeOrder, SizeWrapped, SizeMiddle, SizeKnown, TakeLock,
                WriteHeader, WriteFirst, WriteRest, Publish, ReadHeader, Decode, ReadFirst,
                ReadRest, SizePcs, CopyPcs
  <2>2. \E l : Goto(p, l)
    BY <1>1 DEF SizeEqual, SizeOrder, SizeWrapped, SizeMiddle, SizeKnown, TakeLock,
                WriteHeader, WriteFirst, WriteRest, Publish, ReadHeader, Decode, ReadFirst,
                ReadRest, SendCheck, ReadCheck, ReadSequenceError, Return
  <2>3. QED
    BY <2>1, <2>2, HandsSame DEF Goto
<1>2. ASSUME NEW p \in Procs, Unlock(p) \/ ResetEnd(p) \/ ResetBegin(p)
      PROVE  HandsEmpty'
  <2>1. UNCHANGED got /\ \E l \in {"idle", "unlock", "fault", "resetBegin"} : Goto(p, l)
    BY <1>2 DEF Unlock, ResetEnd, ResetBegin, Return, ReturnPc
  <2>2. QED
    BY <2>1, HandsSame DEF Goto
<1>3. ASSUME NEW p \in Procs, Consume(p) \/ Answer(p) \/ Exit(p)
      PROVE  HandsEmpty'
  <2>1. \E l \in {"idle", "unlock", "fault"} : Goto(p, l)
    BY <1>3 DEF Consume, Answer, Exit, Return, ReturnPc
  <2>2. \A q \in Readers : q # p => got'[q] = got[q]
    BY <1>3 DEF Consume, Answer, Exit
  <2>3. QED
    BY <2>1, <2>2 DEF HandsEmpty, Goto, SizePcs, CopyPcs, Procs
<1>4. ASSUME NEW w \in Writers, NEW n \in Lens, SendMessage(w, n)
      PROVE  HandsEmpty'
  <2>1. UNCHANGED got /\ (UNCHANGED pc \/ \E l : Goto(w, l))
    BY <1>4 DEF SendMessage
  <2>2. w \notin Readers /\ w \in Procs
    BY ShmQueueAssumption DEF Procs
  <2>3. QED
    BY <2>1, <2>2, HandsSame DEF Goto
<1>5. ASSUME NEW r \in Readers, NEW op \in Ops, ReadMessage(r, op) \/ ReadNull(r, op)
      PROVE  HandsEmpty'
  <2>1. got' = [got EXCEPT ![r] = NoMsg] /\ (UNCHANGED pc \/ \E l : Goto(r, l))
    BY <1>5 DEF ReadMessage, ReadNull
  <2>2. QED
    BY <2>1 DEF HandsEmpty, Goto, Procs
<1>6. CASE UNCHANGED vars
  BY <1>6 DEF vars, HandsEmpty
<1>7. CASE Next
  BY <1>1, <1>2, <1>3, <1>4, <1>5, <1>7 DEF Next, Send, Read, Work, ReadEnd
<1>8. QED
  BY <1>6, <1>7

\* What a receiver has copied when it returns is the first message, whole.
LEMMA ContentIs ==
  ASSUME DataInv, NEW r \in Readers, pc[r] = "publish", loc[r].op # "del"
  PROVE  frames # << >> /\ Content(r) = frames[1]
<1> USE DEF DataInv, LockInv, DataPart
<1>1. /\ frames # << >> /\ loc[r].len = frames[1].len
      /\ \A k \in 0..(loc[r].len - 1) : buf[r][k] = Byte(frames[1], HDR + k)
  BY DEF ReceiverData, ReceiverFacts, CopyPcs
<1>2. frames[1].len > 0 /\ frames[1] \in Frames /\ frames[1].len \in Nat
  BY <1>1, FirstFrame, HeadFrame
<1>3. buf[r][0].msg = frames[1]
  <2>1. 0 \in 0..(loc[r].len - 1)
    BY <1>1, <1>2
  <2>2. buf[r][0] = Byte(frames[1], HDR + 0)
    BY <1>1, <2>1
  <2>3. QED
    BY <2>2 DEF Byte
<1>4. frames[1] # NoMsg
  BY <1>2, NoFrame
<1>5. QED
  BY <1>1, <1>2, <1>3, <1>4 DEF Content

LEMMA FifoInit == Init => Fifo!Init
BY DEF Init, Fifo!Init

LEMMA FifoStep ==
  ASSUME DataInv, HandsEmpty, [Next]_vars
  PROVE  [Fifo!Next]_(Fifo!fifoVars)
<1> USE DEF DataInv, LockInv, TypeInv, TypeOK, Fifo!fifoVars
<1>1. ASSUME NEW w \in Writers, Publish(w)
      PROVE  Fifo!Next
  <2>1. loc[w].msg \in Frames
    BY <1>1 DEF Publish, SenderLocals
  <2>2. Fifo!Put(loc[w].msg)
    BY <1>1 DEF Publish, Fifo!Put
  <2>3. QED
    BY <2>1, <2>2 DEF Fifo!Next
<1>2. ASSUME NEW r \in Readers, Consume(r)
      PROVE  Fifo!Next
  <2>1. frames # << >> /\ pc[r] = "publish" /\ loc[r].op # "peek"
    BY <1>2 DEF Consume, DataPart, ReceiverData, ReceiverFacts, CopyPcs
  <2>2. frames' = Tail(frames)
    BY <1>2, <2>1 DEF Consume, Rest
  <2>3. CASE loc[r].op = "get"
    <3>1. Content(r) = frames[1] /\ Head(frames) = frames[1]
      BY <2>1, <2>3, ContentIs
    <3>2. Fifo!Take(r)
      BY <1>2, <2>1, <2>2, <2>3, <3>1 DEF Consume, Fifo!Take
    <3>3. QED
      BY <3>2 DEF Fifo!Next
  <2>4. CASE loc[r].op # "get"
    <3>1. got[r] = NoMsg
      BY <2>1 DEF HandsEmpty, CopyPcs
    <3>2. UNCHANGED got
      BY <1>2, <2>4, <3>1 DEF Consume
    <3>3. Fifo!Drop(r)
      BY <2>1, <2>2, <3>2 DEF Fifo!Drop
    <3>4. QED
      BY <3>3 DEF Fifo!Next
  <2>5. QED
    BY <2>3, <2>4
<1>3. ASSUME NEW r \in Readers, Answer(r)
      PROVE  Fifo!Next
  <2>1. pc[r] = "publish" /\ loc[r].op = "peek"
    BY <1>3 DEF Answer
  <2>2. frames # << >> /\ Content(r) = frames[1] /\ Head(frames) = frames[1]
    BY <2>1, ContentIs
  <2>3. Fifo!Peek(r)
    BY <1>3, <2>2 DEF Answer, Fifo!Peek
  <2>4. QED
    BY <2>3 DEF Fifo!Next
<1>4. ASSUME NEW r \in Readers, UNCHANGED frames, got' = [got EXCEPT ![r] = NoMsg]
      PROVE  Fifo!Next
  BY <1>4 DEF Fifo!Next, Fifo!Clear
<1>5. ASSUME NEW r \in Readers, NEW op \in Ops, ReadMessage(r, op) \/ ReadNull(r, op)
      PROVE  Fifo!Next
  BY <1>4, <1>5 DEF ReadMessage, ReadNull
<1>6. ASSUME NEW p \in Procs, Exit(p)
      PROVE  [Fifo!Next]_(Fifo!fifoVars)
  BY <1>4, <1>6 DEF Exit
<1>7. ASSUME NEW p \in Procs,
             \/ SizeEqual(p) \/ SizeOrder(p) \/ SizeWrapped(p) \/ SizeMiddle(p)
             \/ TakeLock(p) \/ Unlock(p)
             \/ WriteHeader(p) \/ WriteFirst(p) \/ WriteRest(p)
             \/ ReadHeader(p) \/ ReadFirst(p) \/ ReadRest(p)
      PROVE  UNCHANGED <<frames, got>>
  BY <1>7 DEF SizeEqual, SizeOrder, SizeWrapped, SizeMiddle, SizeKnown, TakeLock, Unlock,
              WriteHeader, WriteFirst, WriteRest, ReadHeader, Decode, ReadFirst, ReadRest
<1>8. ASSUME NEW p \in Readers PROVE ~ResetEnd(p) /\ ~ResetBegin(p)
  BY DEF ResetEnd, ResetBegin, DataPart, ReceiverData, ReceiverFacts
<1>9. CASE Send
  BY <1>9 DEF Send, SendMessage
<1>10. CASE Read
  BY <1>5, <1>10 DEF Read
<1>11. ASSUME NEW p \in Procs, Work(p)
       PROVE  [Fifo!Next]_(Fifo!fifoVars)
  <2>1. CASE Publish(p)
    BY <1>1, <2>1 DEF Publish
  <2>2. CASE p \in Readers /\ (Consume(p) \/ Answer(p))
    BY <1>2, <1>3, <2>2
  <2>3. QED
    BY <1>7, <1>8, <1>11, <2>1, <2>2 DEF Work, ReadEnd
<1>12. CASE UNCHANGED vars
  BY <1>12 DEF vars
<1>13. CASE Next
  BY <1>6, <1>9, <1>10, <1>11, <1>13 DEF Next
<1>14. QED
  BY <1>12, <1>13

\* Messages come out of the ring whole, each once and in order, for every
\* ring size, every number of processes, every mix of the reading calls, and
\* whoever dies where.
THEOREM FifoImplemented ==
  ASSUME Deployment
  PROVE  Spec => ImplementsFifo
<1>1. Init => Fifo!Init
  BY FifoInit
<1>2. Spec => []DataInv
  BY DataInvariant
<1>3. Spec => []HandsEmpty
  <2>1. Init => HandsEmpty
    BY HandsInit
  <2>2. TypeInv /\ HandsEmpty /\ [Next]_vars => HandsEmpty'
    BY HandsStep
  <2>3. DataInv => TypeInv
    BY DEF DataInv, LockInv
  <2>4. QED
    BY <1>2, <2>1, <2>2, <2>3, PTL DEF Spec
<1>4. DataInv /\ HandsEmpty /\ [Next]_vars => [Fifo!Next]_(Fifo!fifoVars)
  BY FifoStep
<1>5. QED
  BY <1>1, <1>2, <1>3, <1>4, PTL DEF Spec, ImplementsFifo, Fifo!Spec

-----------------------------------------------------------------------------
(* QUEUE_NO_MESSAGE.  The receivers that keep the size in a size_t cannot  *)
(* take a torn one for none: it is never negative.  Those that keep it in  *)
(* an int can, and do (run spurious_empty).                                *)

NoMessage == {QUEUE_NO_MESSAGE, Unsigned(QUEUE_NO_MESSAGE)}

\* The other answers are not mistaken for it.
LEMMA NotNoMessage ==
  ASSUME Deployment, NEW x \in {QUEUE_PARAM_ERROR} \cup 0..(L - 1)
  PROVE  \A y \in {x, Unsigned(x), Signed(x)} : y \notin NoMessage
<1> USE DEF QUEUE_PARAM_ERROR, QUEUE_NO_MESSAGE, NoMessage
<1>1. /\ L \in Nat /\ L >= 3 /\ SizeMod \in Nat /\ SizeMod >= 2 * L + 1
      /\ IntMod \div 2 \in Nat /\ IntMod \div 2 >= L
  BY Constants, Widths
<1>2. x \in Int /\ -1 <= x /\ x <= L - 1 /\ (x < 0 => x = -1)
  BY <1>1
<1>3. Signed(x) = x
  BY <1>1, <1>2, Conversions
<1>4. Unsigned(x) = IF x < 0 THEN x + SizeMod ELSE x
  BY <1>1, <1>2, Conversions
<1>5. Unsigned(-3) = SizeMod - 3
  <2>1. -3 \in Int /\ -SizeMod <= -3 /\ -3 < 0
    BY <1>1
  <2>2. Unsigned(-3) = -3 + SizeMod
    BY <2>1, Conversions
  <2>3. QED
    BY <1>1, <2>2
<1>6. QED
  BY <1>1, <1>2, <1>3, <1>4, <1>5

\* Every receiver is a C++ program that only calls GetMessage.
SizeReceivers == Ops \subseteq {"get"} /\ \A r \in Readers : Impl[r] = "cpp"

\* Who reads a size that is no message reads it from equal indices.
LEMMA EmptySizes ==
  ASSUME Deployment, DataInv, SizeReceivers, NEW r \in Readers, loc[r].op = "get",
         SizeEqual(r) \/ SizeOrder(r) \/ SizeWrapped(r) \/ SizeMiddle(r)
  PROVE  begin = end \/ ret' = ret
<1> USE DEF DataInv, LockInv, DataPart
<1>1. r \notin Writers
  BY ShmQueueAssumption
<1>2. ASSUME NEW n \in Int, RoomFor(n), SizeKnown(r, n) PROVE ret' = ret
  <2>1. MaxLength(r, n) \in Int /\ ~(MaxLength(r, n) <= 0)
    <3>1. \A u \in Slots : u \in Int /\ 0 <= u /\ u < L
      BY SlotRange
    <3>2. PICK u \in Slots : FrameLen(frames[1]) <= u /\ n \in {u, u - L}
      BY <1>2 DEF RoomFor
    <3>3. FrameLen(frames[1]) \in Nat /\ HDR \in Nat \ {0} /\ FrameLen(frames[1]) >= HDR
      BY <1>2, FirstFrame, FrameTypes, Constants DEF RoomFor
    <3>4. 0 < u /\ u < L /\ L \in Nat /\ L < SizeMod /\ SizeMod \in Nat
      BY <3>1, <3>2, <3>3, Widths, Constants
    <3>5. n # 0 /\ -SizeMod <= n /\ n < SizeMod
      BY <3>2, <3>4, SlotRange
    <3>6. Unsigned(n) = IF n < 0 THEN n + SizeMod ELSE n
      BY <3>5, Conversions
    <3>7. MaxLength(r, n) = Unsigned(n)
      BY DEF MaxLength, SizeReceivers
    <3>8. QED
      BY <3>1, <3>2, <3>4, <3>5, <3>6, <3>7
  <2>2. ReadCheck(r, n)
    BY <1>1, <1>2 DEF SizeKnown
  <2>3. QED
    BY <2>1, <2>2 DEF ReadCheck, ReadSequenceError
<1>3. CASE SizeEqual(r) \/ SizeOrder(r)
  BY <1>3 DEF SizeEqual, SizeOrder
<1>4. /\ begin \in Int /\ 0 <= begin /\ begin < L /\ end \in Int /\ 0 <= end /\ end < L
      /\ L \in Nat \ {0} /\ Used \in Slots
      /\ Used = IF end >= begin THEN end - begin ELSE end - begin + L
  <2>1. begin \in Slots /\ end \in Slots
    BY DEF TypeInv, TypeOK
  <2>2. QED
    BY <2>1, SlotRange, OffIs DEF Used
<1>5. CASE SizeWrapped(r)
  <2>1. frames # << >> /\ begin > end
    BY <1>5 DEF SizeWrapped, ReceiverData, ReceiverFacts
  <2>2. end + L - begin \in Int /\ end + L - begin = Used
    BY <1>4, <2>1
  <2>3. RoomFor(end + L - begin)
    BY <1>4, <2>1, <2>2, FirstFrame DEF RoomFor
  <2>4. QED
    BY <1>2, <1>5, <2>2, <2>3 DEF SizeWrapped
<1>6. CASE SizeMiddle(r)
  <2>1. frames # << >>
    BY <1>6 DEF SizeMiddle, ReceiverData, ReceiverFacts
  <2>2. end - begin \in Int /\ end - begin \in {Used, Used - L}
    BY <1>4
  <2>3. RoomFor(end - begin)
    BY <1>4, <2>1, <2>2, FirstFrame DEF RoomFor
  <2>4. QED
    BY <1>2, <1>6, <2>2, <2>3 DEF SizeMiddle
<1>7. QED
  BY <1>3, <1>5, <1>6

LEMMA EmptyStep ==
  ASSUME Deployment, DataInv, SafeInv, SizeReceivers, [Next]_vars,
         NEW r \in Readers, Returned(r, QUEUE_NO_MESSAGE)
  PROVE  begin = end
<1> USE DEF DataInv, LockInv, TypeInv, TypeOK
<1>1. ret'[r] \in NoMessage /\ ret'[r] # ret[r]
  BY DEF Returned, NoMessage
<1>2. r \in Procs /\ r \notin Writers
  BY ShmQueueAssumption DEF Procs
<1>3. \A x \in {0, QUEUE_PARAM_ERROR, Unsigned(QUEUE_PARAM_ERROR)} : x \notin NoMessage
  <2>1. 0 \in 0..(L - 1)
    BY Constants
  <2>2. QED
    BY <2>1, NotNoMessage
<1>4. CASE Send
  BY <1>1, <1>2, <1>4 DEF Send, SendMessage
<1>5. CASE Read
  <2>1. PICK q \in Readers, op \in Ops : ReadMessage(q, op) \/ ReadNull(q, op)
    BY <1>5 DEF Read
  <2>2. ret'[r] \in {ret[r], 0, QUEUE_PARAM_ERROR, Unsigned(QUEUE_PARAM_ERROR)}
    BY <1>2, <2>1 DEF ReadMessage, ReadNull
  <2>3. QED
    BY <1>1, <1>3, <2>2
<1>6. ASSUME NEW p \in Procs, Exit(p) PROVE FALSE
  <2>1. ret'[r] \in {ret[r], 0}
    BY <1>2, <1>6 DEF Exit
  <2>2. QED
    BY <1>1, <1>3, <2>1
<1>7. ASSUME NEW p \in Procs, Work(p) PROVE begin = end
  <2>1. CASE TakeLock(p) \/ Unlock(p) \/ ReadFirst(p) \/ ReadRest(p)
             \/ WriteHeader(p) \/ WriteFirst(p) \/ WriteRest(p)
    BY <1>1, <2>1 DEF TakeLock, Unlock, ReadFirst, ReadRest, WriteHeader, WriteFirst, WriteRest
  <2>2. CASE Publish(p)
    BY <1>1, <1>2, <2>2 DEF Publish, Return
  <2>3. CASE p # r /\ (SizeEqual(p) \/ SizeOrder(p) \/ SizeWrapped(p) \/ SizeMiddle(p) \/ ReadHeader(p)
                       \/ Consume(p) \/ Answer(p))
    BY <1>1, <1>2, <2>3
    DEF SizeEqual, SizeOrder, SizeWrapped, SizeMiddle, SizeKnown, SendCheck, ReadCheck,
        ReadHeader, Decode, ReadSequenceError, Consume, Answer, Return
  <2>4. CASE p = r /\ (SizeEqual(p) \/ SizeOrder(p) \/ SizeWrapped(p) \/ SizeMiddle(p))
    <3>1. pc[r] \in InCall
      BY <2>4 DEF SizeEqual, SizeOrder, SizeWrapped, SizeMiddle, InCall, InnerPcs, SizePcs
    <3>2. loc[r].op = "get"
      BY <1>2, <3>1 DEF SafeInv, Calling, SizeReceivers
    <3>3. QED
      BY <1>1, <2>4, <3>2, EmptySizes
  <2>5. CASE p = r /\ ReadHeader(p)
    <3>1. pc[r] \in InCall
      BY <2>5 DEF ReadHeader, Decode, InCall, InnerPcs, CopyPcs
    <3>2. loc[r].op = "get"
      BY <1>2, <3>1 DEF SafeInv, Calling, SizeReceivers
    <3>3. ret' = ret
      BY <2>5, <3>2 DEF ReadHeader, Decode, ReadSequenceError
    <3>4. QED
      BY <1>1, <3>3
  <2>6. CASE p = r /\ (Consume(p) \/ Answer(p))
    <3>1. pc[r] = "publish" /\ Return(r, loc[r].len)
      BY <2>6 DEF Consume, Answer
    <3>2. frames # << >> /\ loc[r].len = frames[1].len
      BY <3>1 DEF DataPart, ReceiverData, ReceiverFacts, CopyPcs
    <3>3. loc[r].len \in 0..(L - 1)
      BY <3>2, HeadFrame
    <3>4. ret'[r] \in {Unsigned(loc[r].len), Signed(loc[r].len)}
      BY <1>2, <3>1 DEF Return, RetValue
    <3>5. QED
      BY <1>1, <3>3, <3>4, NotNoMessage
  <2>7. p \in Readers => ~ResetEnd(p) /\ ~ResetBegin(p)
    BY DEF ResetEnd, ResetBegin, DataPart, ReceiverData, ReceiverFacts
  <2>8. QED
    BY <1>7, <2>1, <2>2, <2>3, <2>4, <2>5, <2>6, <2>7 DEF Work, ReadEnd
<1>8. CASE UNCHANGED vars
  BY <1>1, <1>8 DEF vars
<1>9. CASE Next
  BY <1>4, <1>5, <1>6, <1>7, <1>9 DEF Next
<1>10. QED
  BY <1>8, <1>9

\* A C++ program that polls with GetMessage is told that there is no message
\* only when there was none.
THEOREM EmptyIsTrue ==
  ASSUME Deployment, SizeReceivers
  PROVE  Spec => EmptyTruthful
<1>1. PeeksLocked
  BY DEF PeeksLocked, SizeReceivers
<1>2. Spec => []SafeInv
  <2>1. Init => SafeInv
    BY SafeInit
  <2>2. DataInv /\ SafeInv /\ [Next]_vars => SafeInv'
    BY <1>1, SafeStep
  <2>3. QED
    BY <2>1, <2>2, DataInvariant, PTL DEF Spec
<1>3. DataInv /\ SafeInv /\ [Next]_vars =>
        [\A r \in Readers : Returned(r, QUEUE_NO_MESSAGE) => begin = end]_vars
  BY EmptyStep
<1>4. QED
  BY <1>2, <1>3, DataInvariant, PTL DEF Spec, EmptyTruthful
=============================================================================
