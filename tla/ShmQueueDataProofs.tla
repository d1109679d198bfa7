------------------------- MODULE ShmQueueDataProofs -------------------------
(***************************************************************************)
(* That the ring keeps its messages: for every size of the ring, every     *)
(* number of processes that are kept apart on their side, every length,    *)
(* deaths anywhere, DataInv is an invariant; and what follows from it.     *)
(***************************************************************************)
EXTENDS ShmQueueProofs

-----------------------------------------------------------------------------
(* Steps that leave ring and indices alone.                                *)

\* What a process knows stays true while it and the ring stay as they are.
LEMMA SenderSame ==
  ASSUME NEW w \in Writers, SenderFacts(w), pc'[w] = pc[w], loc'[w] = loc[w],
         UNCHANGED <<mem, begin, end>>
  PROVE  SenderFacts(w)'
<1>1. Used' = Used
  BY DEF Used, Off
<1>2. FirstPart(w)' = FirstPart(w)
  BY DEF FirstPart, Min2
<1>3. Written(w)' = Written(w)
  BY <1>2 DEF Written
<1>4. QED
  BY <1>1, <1>2, <1>3 DEF SenderFacts, Slot

LEMMA ReceiverSame ==
  ASSUME NEW r \in Readers, ReceiverFacts(r), pc'[r] = pc[r], loc'[r] = loc[r],
         buf'[r] = buf[r], UNCHANGED <<begin, end, frames>>
  PROVE  ReceiverFacts(r)'
<1>1. FirstPart(r)' = FirstPart(r)
  BY DEF FirstPart, Min2
<1>2. QED
  BY <1>1 DEF ReceiverFacts, FrameLen, Slot

\* No new answer for process p, or one that is not a sequence error.
AnswerOk(p) ==
  p \in Readers =>
    \/ ret'[p] = ret[p]
    \/ ret'[p] \notin {QUEUE_DATA_SEQUENCE_ERROR, Unsigned(QUEUE_DATA_SEQUENCE_ERROR)}

OthersAnswer(p) == \A q \in Readers : q # p => ret'[q] = ret[q]

LEMMA AnswersKept ==
  ASSUME NEW p \in Procs, OthersAnswer(p), AnswerOk(p)
  PROVE  AnswersStay
BY DEF AnswersStay, NoSequenceAnswer, OthersAnswer, AnswerOk

\* A step of p inside its call, or into or out of it, that touches nothing
\* shared: only what p itself knows need be shown.
LEMMA QuietStep ==
  ASSUME DataInv, NEW p \in Procs, OthersKeep(p), OthersAnswer(p), AnswerOk(p),
         UNCHANGED <<mem, begin, end, frames>>,
         p \in Writers => SenderFacts(p)',
         p \in Readers => ReceiverFacts(p)'
  PROVE  DataPart' /\ AnswersStay
<1> USE DEF DataInv, DataPart
<1>1. Layout'
  BY DEF Layout, At, Used, Off
<1>2. UnreadIntact'
  BY DEF UnreadIntact, Slot
<1>3. ASSUME NEW w \in Writers PROVE SenderFacts(w)'
  <2>1. CASE w = p
    BY <2>1
  <2>2. CASE w # p
    BY <2>2, SenderSame DEF SenderData, OthersKeep, Procs
  <2>3. QED
    BY <2>1, <2>2
<1>4. ASSUME NEW r \in Readers PROVE ReceiverFacts(r)'
  <2>1. CASE r = p
    BY <2>1
  <2>2. CASE r # p
    BY <2>2, ReceiverSame DEF ReceiverData, OthersKeep, Procs
  <2>3. QED
    BY <2>1, <2>2
<1>5. QED
  BY <1>1, <1>2, <1>3, <1>4, AnswersKept DEF SenderData, ReceiverData

\* The answers the code gives otherwise are not mistaken for one.
LEMMA OtherAnswers ==
  ASSUME Deployment, NEW x \in {QUEUE_PARAM_ERROR, QUEUE_NO_SPACE, QUEUE_NO_MESSAGE} \cup 0..(L - 1)
  PROVE  \A y \in {x, Unsigned(x), Signed(x)} :
           y \notin {QUEUE_DATA_SEQUENCE_ERROR, Unsigned(QUEUE_DATA_SEQUENCE_ERROR)}
<1> USE DEF QUEUE_PARAM_ERROR, QUEUE_NO_SPACE, QUEUE_NO_MESSAGE, QUEUE_DATA_SEQUENCE_ERROR
<1>1. /\ L \in Nat /\ L >= 3 /\ SizeMod \in Nat /\ SizeMod >= 2 * L + 1
      /\ IntMod \div 2 \in Nat /\ IntMod \div 2 >= L
  BY Constants, Widths
<1>2. x \in Int /\ -3 <= x /\ x <= L /\ (x < 0 => x \in {-1, -2, -3})
  BY <1>1
<1>3. Signed(x) = x
  BY <1>1, <1>2, Conversions
<1>4. 0 <= x => Unsigned(x) = x
  BY <1>1, <1>2, Conversions
<1>5. x < 0 => Unsigned(x) = x + SizeMod
  BY <1>1, <1>2, Conversions
<1>6. Unsigned(-4) = SizeMod - 4
  <2>1. -4 \in Int /\ -SizeMod <= -4 /\ -4 < 0
    BY <1>1
  <2>2. Unsigned(-4) = -4 + SizeMod
    BY <2>1, Conversions
  <2>3. QED
    BY <1>1, <2>2
<1>7. QED
  BY <1>1, <1>2, <1>3, <1>4, <1>5, <1>6

\* Leaving a call with one of these answers.
LEMMA Leaving ==
  ASSUME Deployment, TypeInv, NEW p \in Procs,
         NEW x \in {QUEUE_PARAM_ERROR, QUEUE_NO_SPACE, QUEUE_NO_MESSAGE} \cup 0..(L - 1),
         Return(p, x)
  PROVE  /\ pc'[p] \in {"idle", "unlock", "fault"}
         /\ \A q \in Procs : q # p => pc'[q] = pc[q] /\ loc'[q] = loc[q]
         /\ OthersAnswer(p) /\ AnswerOk(p)
<1>1. x \in Int
  BY Constants DEF QUEUE_PARAM_ERROR, QUEUE_NO_SPACE, QUEUE_NO_MESSAGE
<1>2. ret' = [ret EXCEPT ![p] = RetValue(p, x)]
  BY DEF Return
<1>3. RetValue(p, x) \in {Unsigned(x), Signed(x)}
  BY DEF RetValue
<1>4. ret'[p] = RetValue(p, x) /\ \A q \in Procs : q # p => ret'[q] = ret[q]
  BY <1>2 DEF TypeInv, TypeOK
<1>5. AnswerOk(p)
  BY <1>3, <1>4, OtherAnswers DEF AnswerOk
<1>6. OthersAnswer(p)
  BY <1>4 DEF OthersAnswer, Procs
<1>7. QED
  BY <1>1, <1>5, <1>6, Returning

\* Whoever is not in the middle of a call knows nothing that could go wrong.
LEMMA SenderOutside ==
  ASSUME NEW w \in Writers, pc'[w] \in {"idle", "unlock", "fault", "reset"}
  PROVE  SenderFacts(w)'
BY DEF SenderFacts, SendPcs, SizePcs, CopyPcs

LEMMA ReceiverOutside ==
  ASSUME NEW r \in Readers, pc'[r] \in {"idle", "unlock", "fault", "lock", "equal"}
  PROVE  ReceiverFacts(r)'
BY DEF ReceiverFacts, CopyPcs

LEMMA OuterData ==
  ASSUME Deployment, DataInv, NEW p \in Procs,
         \/ \E n \in Lens : p \in Writers /\ SendMessage(p, n)
         \/ \E op \in Ops : p \in Readers /\ (ReadMessage(p, op) \/ ReadNull(p, op))
         \/ TakeLock(p) \/ Unlock(p) \/ Exit(p)
  PROVE  DataPart' /\ AnswersStay
<1> USE DEF DataInv, LockInv, DataPart
<1>1. UNCHANGED <<mem, begin, end, frames>>
  BY DEF SendMessage, ReadMessage, ReadNull, TakeLock, Unlock, Exit, shared
<1>2. OthersKeep(p) /\ OthersAnswer(p)
  BY DEF SendMessage, ReadMessage, ReadNull, TakeLock, Unlock, Exit, Goto,
         OthersKeep, OthersAnswer, TypeInv, TypeOK, Procs
<1>3. Writers \cap Readers = {} /\ DOMAIN ret = Procs /\ DOMAIN pc = Procs /\ DOMAIN loc = Procs
  BY ShmQueueAssumption DEF TypeInv, TypeOK
<1>4. \A x \in {0, QUEUE_PARAM_ERROR, Unsigned(QUEUE_PARAM_ERROR)} :
        x \notin {QUEUE_DATA_SEQUENCE_ERROR, Unsigned(QUEUE_DATA_SEQUENCE_ERROR)}
  <2>1. 0 \in 0..(L - 1)
    BY Constants
  <2>2. QED
    BY <2>1, OtherAnswers
<1>5. CASE TakeLock(p) \/ Unlock(p) \/ Exit(p)
  <2>1. ret'[p] \in {ret[p], 0} /\ pc'[p] \in {"equal", "idle"}
    BY <1>3, <1>5 DEF TakeLock, Unlock, Exit, Goto
  <2>2. AnswerOk(p)
    BY <1>4, <2>1 DEF AnswerOk
  <2>3. p \in Writers => SenderFacts(p)'
    <3>1. CASE pc'[p] = "idle"
      BY <3>1, SenderOutside
    <3>2. CASE TakeLock(p) /\ p \in Writers
      <4>1. pc'[p] = "equal" /\ pc[p] = "lock" /\ loc' = loc
        BY <1>3, <3>2 DEF TakeLock, Goto
      <4>2. loc[p].len > 0
        BY <3>2, <4>1 DEF SenderData, SenderFacts, SendPcs
      <4>3. QED
        BY <4>1, <4>2 DEF SenderFacts, CopyPcs
    <3>3. QED
      BY <1>3, <1>5, <3>1, <3>2 DEF Unlock, Exit, Goto
  <2>4. p \in Readers => ReceiverFacts(p)'
    BY <2>1, ReceiverOutside
  <2>5. QED
    BY <1>1, <1>2, <2>2, <2>3, <2>4, QuietStep
<1>6. CASE \E n \in Lens : p \in Writers /\ SendMessage(p, n)
  <2>1. PICK n \in Lens : p \in Writers /\ SendMessage(p, n)
    BY <1>6
  <2>2. AnswerOk(p)
    BY <1>3, <2>1 DEF AnswerOk
  <2>3. SenderFacts(p)'
    <3>1. pc[p] = "idle"
      BY <2>1 DEF SendMessage
    <3>2. CASE n = 0
      BY <2>1, <3>1, <3>2, SenderOutside DEF SendMessage
    <3>3. CASE n # 0
      <4>1. pc'[p] \in {"lock", "equal"}
        BY <1>3, <2>1, <3>3 DEF SendMessage, Goto
      <4>2. loc'[p] = [NoCall EXCEPT !.op = "send", !.len = n]
        BY <1>3, <2>1, <3>3 DEF SendMessage
      <4>3. loc'[p].len = n /\ n > 0
        BY <3>3, <4>2, Constants DEF NoCall
      <4>4. QED
        BY <4>1, <4>3 DEF SenderFacts, CopyPcs
    <3>4. QED
      BY <3>2, <3>3
  <2>4. QED
    BY <1>1, <1>2, <1>3, <2>1, <2>2, <2>3, QuietStep
<1>7. CASE \E op \in Ops : p \in Readers /\ (ReadMessage(p, op) \/ ReadNull(p, op))
  <2>1. PICK op \in Ops : p \in Readers /\ (ReadMessage(p, op) \/ ReadNull(p, op))
    BY <1>7
  <2>2. ret'[p] \in {0, QUEUE_PARAM_ERROR, Unsigned(QUEUE_PARAM_ERROR)}
    BY <1>3, <2>1 DEF ReadMessage, ReadNull
  <2>3. AnswerOk(p)
    BY <1>4, <2>2 DEF AnswerOk
  <2>4. pc'[p] \in {"lock", "equal", "idle"}
    BY <1>3, <2>1 DEF ReadMessage, ReadNull, Goto
  <2>5. QED
    BY <1>1, <1>2, <1>3, <2>1, <2>3, <2>4, QuietStep, ReceiverOutside
<1>8. QED
  BY <1>5, <1>6, <1>7

-----------------------------------------------------------------------------
(* GetDataSize, called by a sender.                                        *)

\* What SendMessage concludes from size n, for sizes as torn as they get:
\* the sum of two stale loads is below 2 * L, and L - n - EXTRA_BYTE still
\* fits an int.
LEMMA AcceptsMeans ==
  ASSUME Deployment, TypeInv, NEW w \in Writers, loc[w].len \in Lens,
         NEW n \in 0..(2 * L - EXTRA), SendAccepts(w, n)
  PROVE  n + HDR + loc[w].len + EXTRA <= L
<1>1. /\ L \in Nat /\ HDR \in Nat /\ EXTRA \in Nat /\ SizeMod \in Nat
      /\ IntMod \div 2 \in Nat /\ L <= IntMod \div 2
      /\ IntMod = 2 * (IntMod \div 2) /\ IntMod < SizeMod
      /\ loc[w].len \in Nat /\ loc[w].len + HDR < SizeMod
  BY Constants, Widths, ShmQueueAssumption
<1>2. PICK s \in Int : s = L - n - EXTRA
  BY <1>1
<1>3. -(IntMod \div 2) <= s /\ s < IntMod \div 2 /\ s < SizeMod
  <2>1. EXTRA > 0
    BY Constants
  <2>2. QED
    BY <1>1, <1>2, <2>1
<1>4. Signed(s) = s
  BY <1>3, Conversions
<1>5. SendAccepts_cpp(loc[w].len, n)
  BY DEF SendAccepts, Deployment
<1>6. s > 0 /\ Unsigned(loc[w].len + HDR) <= Unsigned(s)
  BY <1>2, <1>4, <1>5 DEF SendAccepts_cpp
<1>7. PICK t \in Int : t = loc[w].len + HDR
  BY <1>1
<1>8. Unsigned(t) = t
  BY <1>1, <1>7, Conversions
<1>9. Unsigned(s) = s
  BY <1>3, <1>6, Conversions
<1>10. t <= s
  BY <1>6, <1>7, <1>8, <1>9
<1>11. QED
  BY <1>1, <1>2, <1>7, <1>10

LEMMA SenderLearns ==
  ASSUME Deployment, DataInv, NEW w \in Writers, pc[w] \in SizePcs,
         NEW n \in 0..(2 * L - EXTRA), n < L => n = Used, SizeKnown(w, n)
  PROVE  DataPart' /\ AnswersStay
<1> USE DEF DataInv, LockInv, DataPart
<1>1. UNCHANGED <<mem, begin, end, frames, sent, buf>>
  BY DEF SizeKnown, shared
<1>2. w \in Procs /\ w \notin Readers /\ DOMAIN pc = Procs
  BY ShmQueueAssumption DEF Procs, TypeInv, TypeOK
<1>3. SendCheck(w, n)
  BY DEF SizeKnown
<1>4. CASE SendAccepts(w, n) /\ Goto(w, "head") /\ UNCHANGED <<loc, ret>>
  <2>1. pc'[w] = "head" /\ \A q \in Procs : q # w => pc'[q] = pc[q]
    BY <1>2, <1>4 DEF Goto
  <2>2. OthersKeep(w) /\ OthersAnswer(w) /\ AnswerOk(w)
    BY <1>1, <1>2, <1>4, <2>1 DEF OthersKeep, OthersAnswer, AnswerOk
  <2>3. loc[w].len \in Lens
    BY DEF TypeInv, SenderLocals, SendPcs
  <2>4. n + HDR + loc[w].len + EXTRA <= L
    BY <1>4, <2>3, AcceptsMeans
  <2>5. n < L
    <3>1. loc[w].len \in Nat /\ HDR \in Nat \ {0} /\ EXTRA \in Nat
      BY <2>3, Constants
    <3>2. L \in Nat /\ n \in Int
      BY Constants
    <3>3. QED
      BY <2>4, <3>1, <3>2
  <2>6. Used + HDR + loc[w].len + EXTRA <= L
    BY <2>4, <2>5
  <2>7. loc[w].len > 0
    BY DEF SenderData, SenderFacts, SendPcs
  <2>8. Used' = Used
    BY <1>1 DEF Used, Off
  <2>9. SenderFacts(w)'
    BY <1>4, <2>1, <2>6, <2>7, <2>8 DEF SenderFacts
  <2>10. QED
    BY <1>1, <1>2, <2>2, <2>9, QuietStep
<1>5. CASE Return(w, QUEUE_NO_SPACE)
  <2>1. /\ pc'[w] \in {"idle", "unlock", "fault"}
        /\ \A q \in Procs : q # w => pc'[q] = pc[q] /\ loc'[q] = loc[q]
        /\ OthersAnswer(w) /\ AnswerOk(w)
    BY <1>2, <1>5, Leaving
  <2>2. OthersKeep(w)
    BY <1>1, <2>1 DEF OthersKeep
  <2>3. SenderFacts(w)'
    BY <2>1, SenderOutside
  <2>4. QED
    BY <1>1, <1>2, <2>1, <2>2, <2>3, QuietStep
<1>6. QED
  BY <1>3, <1>4, <1>5 DEF SendCheck

\* A step of GetDataSize that only decides which load comes next.
LEMMA SenderSizes ==
  ASSUME Deployment, DataInv, NEW w \in Writers,
         SizeEqual(w) \/ SizeOrder(w) \/ SizeWrapped(w) \/ SizeMiddle(w)
  PROVE  DataPart' /\ AnswersStay
<1> USE DEF DataInv, LockInv, DataPart
<1>1. /\ begin \in Int /\ 0 <= begin /\ begin < L /\ end \in Int /\ 0 <= end /\ end < L
      /\ L \in Nat \ {0} /\ Used = IF end >= begin THEN end - begin ELSE end - begin + L
      /\ EXTRA \in Nat /\ Used + EXTRA <= L
  <2>1. begin \in Slots /\ end \in Slots
    BY DEF TypeInv, TypeOK
  <2>2. EXTRA \in Nat /\ Used + EXTRA <= L
    BY Constants DEF Layout
  <2>3. QED
    BY <2>1, <2>2, SlotRange, OffIs DEF Used
<1>2. w \in Procs /\ w \notin Readers /\ DOMAIN pc = Procs
  BY ShmQueueAssumption DEF Procs, TypeInv, TypeOK
<1>3. pc[w] \in SizePcs
  BY DEF SizeEqual, SizeOrder, SizeWrapped, SizeMiddle, SizePcs
<1>4. CASE SizeEqual(w) /\ begin = end
  <2>1. 0 \in 0..(2 * L - EXTRA) /\ 0 = Used
    BY <1>1, <1>4
  <2>2. SizeKnown(w, 0)
    BY <1>4 DEF SizeEqual
  <2>3. QED
    BY <1>3, <2>1, <2>2, SenderLearns
<1>5. CASE SizeWrapped(w)
  <2>1. end + L - begin \in 0..(2 * L - EXTRA) /\ (end + L - begin < L => end + L - begin = Used)
    BY <1>1
  <2>2. QED
    BY <1>3, <1>5, <2>1, SenderLearns DEF SizeWrapped
<1>6. CASE SizeMiddle(w)
  <2>1. begin <= end
    BY <1>6 DEF SizeMiddle, SenderData, SenderFacts
  <2>2. end - begin \in 0..(2 * L - EXTRA) /\ end - begin = Used
    BY <1>1, <2>1
  <2>3. QED
    BY <1>3, <1>6, <2>2, SenderLearns DEF SizeMiddle
<1>7. CASE (SizeEqual(w) /\ begin # end) \/ SizeOrder(w)
  <2>1. /\ UNCHANGED <<mem, begin, end, frames, sent, buf, loc, ret>>
        /\ pc'[w] \in {"order", "wrapped", "middle"}
        /\ pc'[w] = "middle" => begin <= end
        /\ \A q \in Procs : q # w => pc'[q] = pc[q]
    <3>1. CASE SizeEqual(w) /\ begin # end
      BY <1>2, <3>1 DEF SizeEqual, Goto, shared
    <3>2. CASE SizeOrder(w)
      BY <1>1, <1>2, <3>2 DEF SizeOrder, Goto, shared
    <3>3. QED
      BY <1>7, <3>1, <3>2
  <2>2. OthersKeep(w) /\ OthersAnswer(w) /\ AnswerOk(w)
    BY <1>2, <2>1 DEF OthersKeep, OthersAnswer, AnswerOk
  <2>3. loc[w].len > 0
    BY <1>3 DEF SenderData, SenderFacts, SendPcs
  <2>4. SenderFacts(w)'
    BY <2>1, <2>3 DEF SenderFacts, CopyPcs
  <2>5. QED
    BY <1>2, <2>1, <2>2, <2>4, QuietStep
<1>8. QED
  BY <1>4, <1>5, <1>6, <1>7

-----------------------------------------------------------------------------
(* GetDataSize, called by a receiver.                                      *)

\* The size a receiver puts together from loads of m_iEnd, none of them older
\* than the first frame: u bytes were in use at a load, or it is that minus L.
RoomFor(n) ==
  frames # << >> /\ \E u \in Slots : FrameLen(frames[1]) <= u /\ n \in {u, u - L}

\* Such a size is at least the first frame, or it is negative in an int and
\* larger than every message in a size_t.
LEMMA RoomIs ==
  ASSUME Deployment, TypeInv, Layout, NEW r \in Readers, NEW n \in Int,
         n = 0 \/ RoomFor(n)
  PROVE  /\ MaxLength(r, n) \in Int
         /\ \/ MaxLength(r, n) <= 0
            \/ /\ frames # << >>
               /\ HDR < FrameLen(frames[1]) /\ FrameLen(frames[1]) <= MaxLength(r, n)
               /\ MaxLength(r, n) < SizeMod
               /\ ~(Impl[r] = "cpp" /\ loc[r].op = "get") => MaxLength(r, n) < IntMod \div 2
<1>1. /\ L \in Nat /\ SizeMod \in Nat /\ IntMod \div 2 \in Nat /\ EXTRA \in Nat
      /\ L <= IntMod \div 2 /\ IntMod = 2 * (IntMod \div 2) /\ IntMod < SizeMod
  BY Constants, Widths
<1>2. \A u \in Slots : u \in Int /\ 0 <= u /\ u < L
  BY SlotRange
<1>3. -L <= n /\ n < L
  <2>1. CASE n = 0
    BY <1>1, <2>1, Constants
  <2>2. CASE RoomFor(n)
    BY <1>1, <1>2, <2>2 DEF RoomFor
  <2>3. QED
    BY <2>1, <2>2
<1>4. Signed(n) = n
  <2>1. -(IntMod \div 2) <= n /\ n < IntMod \div 2
    BY <1>1, <1>3
  <2>2. QED
    BY <2>1, Conversions
<1>5. Unsigned(n) = IF n < 0 THEN n + SizeMod ELSE n
  <2>1. -SizeMod <= n /\ n < SizeMod
    BY <1>1, <1>3
  <2>2. QED
    BY <2>1, Conversions
<1>6. CASE n = 0
  BY <1>1, <1>4, <1>5, <1>6 DEF MaxLength
<1>7. CASE RoomFor(n)
  <2>a. PICK u \in Slots : FrameLen(frames[1]) <= u /\ n \in {u, u - L}
    BY <1>7 DEF RoomFor
  <2>b. frames # << >>
    BY <1>7 DEF RoomFor
  <2>1. FrameLen(frames[1]) <= u /\ FrameLen(frames[1]) \in Int /\ HDR < FrameLen(frames[1])
    <3>1. 1 \in 1..Len(frames) /\ frames[1].len > 0 /\ FrameLen(frames[1]) <= u
      BY <2>a, <2>b, FirstFrame
    <3>2. frames[1].len \in Nat /\ HDR \in Nat
      BY <3>1, FrameTypes, Constants
    <3>3. QED
      BY <3>1, <3>2 DEF FrameLen
  <2>2. CASE Impl[r] = "cpp" /\ loc[r].op = "get"
    <3>1. MaxLength(r, n) = IF n < 0 THEN n + SizeMod ELSE n
      BY <1>5, <2>2 DEF MaxLength
    <3>2. QED
      BY <1>1, <1>2, <1>3, <2>a, <2>b, <2>1, <2>2, <3>1
  <2>3. CASE ~(Impl[r] = "cpp" /\ loc[r].op = "get")
    <3>1. MaxLength(r, n) = n
      BY <1>4, <2>3 DEF MaxLength
    <3>2. QED
      BY <1>1, <1>2, <1>3, <2>a, <2>b, <2>1, <2>3, <3>1
  <2>4. QED
    BY <2>2, <2>3
<1>8. QED
  BY <1>6, <1>7

LEMMA ReceiverLearns ==
  ASSUME Deployment, DataInv, NEW r \in Readers, pc[r] \in SizePcs, NEW n \in Int,
         n = 0 \/ RoomFor(n), SizeKnown(r, n)
  PROVE  DataPart' /\ AnswersStay
<1> USE DEF DataInv, LockInv, DataPart
<1> DEFINE room == MaxLength(r, n)
<1>1. UNCHANGED <<mem, begin, end, frames, sent, buf>>
  BY DEF SizeKnown, shared
<1>2. r \in Procs /\ r \notin Writers /\ DOMAIN pc = Procs /\ DOMAIN loc = Procs
  BY ShmQueueAssumption DEF Procs, TypeInv, TypeOK
<1>3. ReadCheck(r, n)
  BY <1>2 DEF SizeKnown
<1>4. /\ room \in Int
      /\ \/ room <= 0
         \/ /\ frames # << >>
            /\ HDR < FrameLen(frames[1]) /\ FrameLen(frames[1]) <= room /\ room < SizeMod
            /\ ~(Impl[r] = "cpp" /\ loc[r].op = "get") => room < IntMod \div 2
  BY RoomIs
<1>5. CASE room <= 0
  <2>1. Return(r, QUEUE_NO_MESSAGE)
    BY <1>3, <1>4, <1>5 DEF ReadCheck
  <2>2. /\ pc'[r] \in {"idle", "unlock", "fault"}
        /\ \A q \in Procs : q # r => pc'[q] = pc[q] /\ loc'[q] = loc[q]
        /\ OthersAnswer(r) /\ AnswerOk(r)
    BY <1>2, <2>1, Leaving
  <2>3. OthersKeep(r)
    BY <1>1, <2>2 DEF OthersKeep
  <2>4. ReceiverFacts(r)'
    BY <2>2, ReceiverOutside
  <2>5. QED
    BY <1>1, <1>2, <2>2, <2>3, <2>4, QuietStep
<1>6. CASE ~(room <= 0)
  <2>1. HDR \in Nat /\ FrameLen(frames[1]) \in Int
    <3>1. 1 \in 1..Len(frames)
      BY <1>4, <1>6, FirstFrame
    <3>2. QED
      BY <3>1, FrameTypes, Constants
  <2>2. ~(0 < room /\ room <= HDR)
    BY <1>4, <1>6, <2>1
  <2>3. Goto(r, "head") /\ loc' = [loc EXCEPT ![r].room = room] /\ UNCHANGED ret
    BY <1>3, <1>6, <2>2 DEF ReadCheck
  <2>4. pc'[r] = "head" /\ \A q \in Procs : q # r => pc'[q] = pc[q] /\ loc'[q] = loc[q]
    BY <1>2, <2>3 DEF Goto
  <2>5. loc'[r].room = room /\ loc'[r].op = loc[r].op
    BY <1>2, <2>3 DEF TypeInv, TypeOK, Locals
  <2>6. OthersKeep(r) /\ OthersAnswer(r) /\ AnswerOk(r)
    BY <1>1, <1>2, <2>3, <2>4 DEF OthersKeep, OthersAnswer, AnswerOk
  <2>7. ReceiverFacts(r)'
    BY <1>1, <1>4, <1>6, <2>4, <2>5 DEF ReceiverFacts, FrameLen
  <2>8. QED
    BY <1>1, <1>2, <2>6, <2>7, QuietStep
<1>7. QED
  BY <1>5, <1>6

LEMMA ReceiverSizes ==
  ASSUME Deployment, DataInv, NEW r \in Readers,
         SizeEqual(r) \/ SizeOrder(r) \/ SizeWrapped(r) \/ SizeMiddle(r)
  PROVE  DataPart' /\ AnswersStay
<1> USE DEF DataInv, LockInv, DataPart
<1>1. /\ begin \in Int /\ 0 <= begin /\ begin < L /\ end \in Int /\ 0 <= end /\ end < L
      /\ L \in Nat \ {0} /\ Used = IF end >= begin THEN end - begin ELSE end - begin + L
  <2>1. begin \in Slots /\ end \in Slots
    BY DEF TypeInv, TypeOK
  <2>2. QED
    BY <2>1, SlotRange, OffIs DEF Used
<1>2. r \in Procs /\ r \notin Writers /\ DOMAIN pc = Procs
  BY ShmQueueAssumption DEF Procs, TypeInv, TypeOK
<1>3. pc[r] \in SizePcs
  BY DEF SizeEqual, SizeOrder, SizeWrapped, SizeMiddle, SizePcs
<1>4. CASE SizeEqual(r) /\ begin = end
  <2>1. SizeKnown(r, 0)
    BY <1>4 DEF SizeEqual
  <2>2. QED
    BY <1>3, <2>1, ReceiverLearns
<1>5. CASE SizeWrapped(r)
  <2>1. frames # << >> /\ begin > end
    BY <1>5 DEF SizeWrapped, ReceiverData, ReceiverFacts
  <2>2. end + L - begin \in Int /\ end + L - begin = Used
    BY <1>1, <2>1
  <2>3. RoomFor(end + L - begin)
    BY <2>1, <2>2, FirstFrame, FrameTypes DEF RoomFor
  <2>4. QED
    BY <1>3, <1>5, <2>2, <2>3, ReceiverLearns DEF SizeWrapped
<1>6. CASE SizeMiddle(r)
  <2>1. frames # << >>
    BY <1>6 DEF SizeMiddle, ReceiverData, ReceiverFacts
  <2>2. end - begin \in Int /\ end - begin \in {Used, Used - L}
    BY <1>1
  <2>3. RoomFor(end - begin)
    BY <2>1, <2>2, FirstFrame, FrameTypes DEF RoomFor
  <2>4. QED
    BY <1>3, <1>6, <2>2, <2>3, ReceiverLearns DEF SizeMiddle
<1>7. CASE (SizeEqual(r) /\ begin # end) \/ SizeOrder(r)
  <2>1. /\ UNCHANGED <<mem, begin, end, frames, sent, buf, loc, ret>>
        /\ pc'[r] \in {"order", "wrapped", "middle"}
        /\ pc'[r] = "wrapped" => begin > end
        /\ \A q \in Procs : q # r => pc'[q] = pc[q]
    <3>1. CASE SizeEqual(r) /\ begin # end
      BY <1>2, <3>1 DEF SizeEqual, Goto, shared
    <3>2. CASE SizeOrder(r)
      BY <1>2, <3>2 DEF SizeOrder, Goto, shared
    <3>3. QED
      BY <1>7, <3>1, <3>2
  <2>2. frames # << >>
    <3>1. CASE begin # end
      BY <3>1 DEF Layout
    <3>2. CASE SizeOrder(r)
      BY <3>2 DEF SizeOrder, ReceiverData, ReceiverFacts
    <3>3. QED
      BY <1>7, <3>1, <3>2
  <2>3. OthersKeep(r) /\ OthersAnswer(r) /\ AnswerOk(r)
    BY <1>2, <2>1 DEF OthersKeep, OthersAnswer, AnswerOk
  <2>4. ReceiverFacts(r)'
    BY <2>1, <2>2 DEF ReceiverFacts, CopyPcs
  <2>5. QED
    BY <1>2, <2>1, <2>3, <2>4, QuietStep
<1>8. QED
  BY <1>4, <1>5, <1>6, <1>7

-----------------------------------------------------------------------------
(* Writing a frame.                                                        *)

\* A write of w behind the used bytes: what is left to show is what w knows.
LEMMA WriteStep ==
  ASSUME Deployment, DataInv, NEW w \in Writers, pc[w] \in CopyPcs,
         NEW m, NEW F \in Nat, NEW to \in Nat, F <= to, Used + to <= L,
         mem' = Fill(m, F, to, Slot(end, F)),
         UNCHANGED <<begin, end, frames, buf, ret>>,
         \A q \in Procs : q # w => pc'[q] = pc[q] /\ loc'[q] = loc[q],
         \A k \in 0..(F - 1) : mem[Slot(end, k)] = Byte(m, k),
         (\A k \in 0..(to - 1) : mem'[Slot(end, k)] = Byte(m, k)) => SenderFacts(w)'
  PROVE  DataPart' /\ AnswersStay
<1> USE DEF DataInv, LockInv, DataPart
<1>1. UnreadIntact' /\ \A k \in 0..(to - 1) : mem'[Slot(end, k)] = Byte(m, k)
  BY WriteEffect
<1>2. Layout'
  BY DEF Layout, At, Used, Off
<1>3. ASSUME NEW v \in Writers PROVE SenderFacts(v)'
  <2>1. CASE v = w
    BY <1>1, <2>1
  <2>2. CASE v # w
    <3>1. pc[v] \notin InnerPcs
      BY <2>2, SendersAlone DEF Deployment, OneSender, InnerPcs
    <3>2. pc'[v] = pc[v] /\ loc'[v] = loc[v]
      BY <2>2 DEF Procs
    <3>3. QED
      BY <3>1, <3>2 DEF SenderData, SenderFacts, SendPcs, InnerPcs, SizePcs, CopyPcs
  <2>3. QED
    BY <2>1, <2>2
<1>4. ASSUME NEW r \in Readers PROVE ReceiverFacts(r)'
  <2>1. r # w /\ r \in Procs
    BY ShmQueueAssumption DEF Procs
  <2>2. QED
    BY <2>1, ReceiverSame DEF ReceiverData
<1>5. AnswersStay
  BY DEF AnswersStay, NoSequenceAnswer
<1>6. QED
  BY <1>1, <1>2, <1>3, <1>4, <1>5 DEF SenderData, ReceiverData

\* What the writing steps have in common.
LEMMA CopyFacts ==
  ASSUME DataInv, NEW p \in Procs, pc[p] \in CopyPcs
  PROVE  /\ loc[p].len \in Nat /\ loc[p].idx \in Int /\ loc[p].idx < L
         /\ HDR \in Nat /\ EXTRA \in Nat /\ L \in Nat
         /\ Used \in Int /\ 0 <= Used
         /\ FirstPart(p) \in Nat /\ FirstPart(p) <= loc[p].len
         /\ FirstPart(p) < loc[p].len => FirstPart(p) = L - loc[p].idx
<1>1. loc[p].len \in Nat /\ loc[p].idx \in Slots
  BY DEF DataInv, LockInv, TypeInv, TypeOK, Locals
<1>2. loc[p].idx \in Int /\ 0 <= loc[p].idx /\ loc[p].idx < L /\ L \in Nat
  BY <1>1, SlotRange
<1>3. FirstPart(p) = IF loc[p].len < L - loc[p].idx THEN loc[p].len ELSE L - loc[p].idx
  BY DEF FirstPart, Min2
<1>4. HDR \in Nat /\ EXTRA \in Nat
  BY Constants
<1>5. Used \in Int /\ 0 <= Used
  BY FrameTypes, SlotRange DEF DataInv, LockInv
<1>6. QED
  BY <1>1, <1>2, <1>3, <1>4, <1>5

LEMMA WriteHeaderData ==
  ASSUME Deployment, DataInv, NEW w \in Writers, WriteHeader(w)
  PROVE  DataPart' /\ AnswersStay
<1> USE DEF DataInv, LockInv, DataPart
<1> DEFINE m == [src |-> w, num |-> sent[w] + 1, len |-> loc[w].len, pos |-> end]
<1>1. pc[w] \in CopyPcs /\ w \in Procs
  BY DEF WriteHeader, CopyPcs, Procs
<1>2. /\ loc[w].len \in Nat /\ HDR \in Nat /\ EXTRA \in Nat /\ Used \in Int /\ 0 <= Used /\ L \in Nat
  BY <1>1, CopyFacts
<1>3. Used + HDR + loc[w].len + EXTRA <= L /\ loc[w].len > 0
  BY <1>1 DEF SenderData, SenderFacts, SendPcs
<1>4. UNCHANGED <<begin, end, frames, buf, ret>>
  BY DEF WriteHeader
<1>5. mem' = Fill(m, 0, HDR, Slot(end, 0))
  <2>1. Slot(end, 0) = end
    BY OffSelf DEF TypeInv, TypeOK
  <2>2. QED
    BY <2>1 DEF WriteHeader
<1>6. pc'[w] = "copy" /\ \A q \in Procs : q # w => pc'[q] = pc[q] /\ loc'[q] = loc[q]
  BY <1>1 DEF WriteHeader, Goto, TypeInv, TypeOK
<1>7. loc'[w].msg = m /\ loc'[w].idx = Slot(end, HDR) /\ loc'[w].len = loc[w].len
  BY <1>1 DEF WriteHeader, TypeInv, TypeOK, Locals
<1>8. m.pos = end /\ m.len = loc[w].len
  OBVIOUS
<1>9. Used + HDR <= L
  BY <1>2, <1>3
<1> HIDE DEF m
<1>10. ASSUME \A k \in 0..(HDR - 1) : mem'[Slot(end, k)] = Byte(m, k)
       PROVE  SenderFacts(w)'
  <2>1. Used' = Used
    BY <1>4 DEF Used, Off
  <2>2. Written(w)' = HDR
    BY <1>6 DEF Written
  <2>3. Slot(end, HDR)' = Slot(end, HDR) /\ \A k : Slot(end, k)' = Slot(end, k)
    BY <1>4 DEF Slot
  <2>4. \A k \in 0..(Written(w)' - 1) : mem'[Slot(end', k)] = Byte(loc'[w].msg, k)
    BY <1>4, <1>7, <1>10, <2>2
  <2>5. QED
    BY <1>3, <1>4, <1>6, <1>7, <1>8, <2>1, <2>3, <2>4 DEF SenderFacts
<1>11. QED
  <2>1. 0 \in Nat /\ 0 <= HDR /\ \A k \in 0..(0 - 1) : mem[Slot(end, k)] = Byte(m, k)
    BY <1>2
  <2>2. QED
    BY <1>1, <1>2, <1>4, <1>5, <1>6, <1>9, <1>10, <2>1, WriteStep

\* The rest of what w knows after a copy that leaves its locals alone.
LEMMA Copied ==
  ASSUME DataInv, NEW w \in Writers, pc[w] \in {"copy", "rest"},
         UNCHANGED <<begin, end, loc>>,
         pc'[w] \in {"rest", "publish"},
         pc'[w] = "rest" => FirstPart(w) < loc[w].len,
         \A k \in 0..(Written(w)' - 1) : mem'[Slot(end, k)] = Byte(loc[w].msg, k)
  PROVE  SenderFacts(w)'
<1>1. Used' = Used
  BY DEF Used, Off
<1>2. FirstPart(w)' = FirstPart(w)
  BY DEF FirstPart, Min2
<1>3. /\ Used + HDR + loc[w].len + EXTRA <= L /\ loc[w].len > 0
      /\ loc[w].msg.pos = end /\ loc[w].msg.len = loc[w].len /\ loc[w].idx = Slot(end, HDR)
  BY DEF DataInv, DataPart, SenderData, SenderFacts, SendPcs, CopyPcs
<1>4. QED
  BY <1>1, <1>2, <1>3 DEF SenderFacts, Slot

LEMMA WriteFirstData ==
  ASSUME Deployment, DataInv, NEW w \in Writers, WriteFirst(w)
  PROVE  DataPart' /\ AnswersStay
<1> USE DEF DataInv, LockInv, DataPart
<1> DEFINE m == loc[w].msg
           to == HDR + FirstPart(w)
<1>1. pc[w] = "copy" /\ pc[w] \in CopyPcs /\ w \in Procs
  BY DEF WriteFirst, CopyPcs, Procs
<1>2. /\ loc[w].len \in Nat /\ HDR \in Nat /\ EXTRA \in Nat /\ Used \in Int /\ 0 <= Used /\ L \in Nat
      /\ FirstPart(w) \in Nat /\ FirstPart(w) <= loc[w].len
  BY <1>1, CopyFacts
<1>3. /\ Used + HDR + loc[w].len + EXTRA <= L
      /\ loc[w].idx = Slot(end, HDR)
      /\ \A k \in 0..(HDR - 1) : mem[Slot(end, k)] = Byte(m, k)
  BY <1>1 DEF SenderData, SenderFacts, Written
<1>4. UNCHANGED <<begin, end, frames, buf, ret, loc>>
  BY DEF WriteFirst
<1>5. mem' = Fill(m, HDR, to, Slot(end, HDR))
  BY <1>3 DEF WriteFirst
<1>6. /\ pc'[w] = IF loc[w].len > FirstPart(w) THEN "rest" ELSE "publish"
      /\ \A q \in Procs : q # w => pc'[q] = pc[q]
  BY <1>1 DEF WriteFirst, Goto, TypeInv, TypeOK
<1>7. to \in Nat /\ HDR <= to /\ Used + to <= L
  BY <1>2, <1>3
<1>8. Written(w)' = to
  <2>1. FirstPart(w)' = FirstPart(w)
    BY <1>4 DEF FirstPart, Min2
  <2>2. pc'[w] = "publish" => FirstPart(w) = loc[w].len
    BY <1>2, <1>6
  <2>3. QED
    BY <1>4, <1>6, <2>1, <2>2 DEF Written
<1> HIDE DEF m, to
<1>9. ASSUME \A k \in 0..(to - 1) : mem'[Slot(end, k)] = Byte(m, k)
      PROVE  SenderFacts(w)'
  <2>1. pc'[w] \in {"rest", "publish"} /\ (pc'[w] = "rest" => FirstPart(w) < loc[w].len)
    BY <1>2, <1>6
  <2>2. \A k \in 0..(Written(w)' - 1) : mem'[Slot(end, k)] = Byte(loc[w].msg, k)
    BY <1>8, <1>9 DEF m
  <2>3. QED
    BY <1>1, <1>4, <2>1, <2>2, Copied
<1>10. QED
  BY <1>1, <1>2, <1>3, <1>4, <1>5, <1>6, <1>7, <1>9, WriteStep

LEMMA WriteRestData ==
  ASSUME Deployment, DataInv, NEW w \in Writers, WriteRest(w)
  PROVE  DataPart' /\ AnswersStay
<1> USE DEF DataInv, LockInv, DataPart
<1> DEFINE m == loc[w].msg
           F == HDR + FirstPart(w)
           to == HDR + loc[w].len
<1>1. pc[w] = "rest" /\ pc[w] \in CopyPcs /\ w \in Procs
  BY DEF WriteRest, CopyPcs, Procs
<1>2. /\ loc[w].len \in Nat /\ HDR \in Nat /\ EXTRA \in Nat /\ Used \in Int /\ 0 <= Used /\ L \in Nat
      /\ FirstPart(w) \in Nat /\ FirstPart(w) <= loc[w].len /\ loc[w].idx \in Int
      /\ FirstPart(w) < loc[w].len => FirstPart(w) = L - loc[w].idx
  BY <1>1, CopyFacts
<1>3. /\ Used + HDR + loc[w].len + EXTRA <= L
      /\ loc[w].idx = Slot(end, HDR) /\ FirstPart(w) < loc[w].len
      /\ \A k \in 0..(F - 1) : mem[Slot(end, k)] = Byte(m, k)
  BY <1>1 DEF SenderData, SenderFacts, Written
<1>4. F \in Nat /\ to \in Nat /\ F <= to /\ Used + to <= L
  BY <1>2, <1>3
<1>5. ~(loc[w].len - FirstPart(w) > L)
  BY <1>2, <1>3
<1>6. Slot(end, F) = 0
  <2>1. end \in Slots /\ HDR \in 0..L /\ FirstPart(w) \in 0..L /\ HDR + FirstPart(w) <= L
    BY <1>2, <1>3 DEF TypeInv, TypeOK
  <2>2. Slot(Slot(end, HDR), FirstPart(w)) = Slot(end, F)
    BY <1>2, <2>1, SlotSlot
  <2>3. loc[w].idx \in Slots /\ loc[w].idx + FirstPart(w) = L
    BY <1>1, <1>2, <1>3 DEF TypeInv, TypeOK, Locals
  <2>4. Slot(loc[w].idx, FirstPart(w)) = 0
    BY <2>1, <2>3, SlotWraps
  <2>5. QED
    BY <1>3, <2>2, <2>4
<1>7. UNCHANGED <<begin, end, frames, buf, ret, loc>>
  BY DEF WriteRest
<1>8. mem' = Fill(m, F, to, Slot(end, F))
  BY <1>5, <1>6 DEF WriteRest
<1>9. pc'[w] = "publish" /\ \A q \in Procs : q # w => pc'[q] = pc[q]
  BY <1>1, <1>5 DEF WriteRest, Goto, TypeInv, TypeOK
<1>10. Written(w)' = to
  BY <1>7, <1>9 DEF Written
<1> HIDE DEF m, F, to
<1>11. ASSUME \A k \in 0..(to - 1) : mem'[Slot(end, k)] = Byte(m, k)
       PROVE  SenderFacts(w)'
  <2>1. \A k \in 0..(Written(w)' - 1) : mem'[Slot(end, k)] = Byte(loc[w].msg, k)
    BY <1>10, <1>11 DEF m
  <2>2. QED
    BY <1>1, <1>7, <1>9, <2>1, Copied
<1>12. QED
  BY <1>1, <1>3, <1>4, <1>7, <1>8, <1>9, <1>11, WriteStep

-----------------------------------------------------------------------------
(* Publishing a frame.                                                     *)

\* What a frame in place behind the used bytes makes of the layout.
LEMMA LayoutGrows ==
  ASSUME TypeInv, Layout, NEW m \in Frames, m.pos = end, m.len > 0,
         Used + FrameLen(m) + EXTRA <= L,
         begin' = begin, end' = Slot(end, FrameLen(m)), frames' = Append(frames, m)
  PROVE  Layout' /\ Used' = Used + FrameLen(m)
<1>0. PICK N \in Nat : N = Len(frames)
  BY FrameTypes
<1>1. /\ N + 1 \in 1..(N + 1)
      /\ \A i \in 1..N : i \in 1..(N + 1) /\ i # N + 1
      /\ \A i \in 1..(N + 1) : i \in 1..N \/ i = N + 1
  OBVIOUS
<1>2. /\ Len(frames') = N + 1 /\ frames'[N + 1] = m
      /\ \A i \in 1..N : frames'[i] = frames[i]
  BY <1>0 DEF TypeInv, TypeOK
<1>3. /\ begin \in Slots /\ end \in Slots /\ Used \in Int /\ 0 <= Used /\ Used < L
      /\ FrameLen(m) \in Nat /\ Used + FrameLen(m) < L
  <2>1. begin \in Slots /\ end \in Slots /\ Used \in Slots
    BY FrameTypes
  <2>2. m.len \in Nat /\ HDR \in Nat /\ EXTRA \in Nat \ {0} /\ L \in Nat
    BY Constants DEF Frames
  <2>3. FrameLen(m) \in Nat
    BY <2>2 DEF FrameLen
  <2>4. QED
    BY <2>1, <2>2, <2>3, SlotRange
<1>4. Used' = Used + FrameLen(m)
  BY <1>3, OffSlot DEF Used
<1>5. /\ \A i \in 1..N : At(i)' = At(i) /\ FrameLen(frames[i])' = FrameLen(frames[i])
      /\ At(N + 1)' = Used /\ FrameLen(frames[N + 1])' = FrameLen(m)
  BY <1>2 DEF At, FrameLen, Off, Used
<1>6. \A i \in 1..N : /\ At(i) \in Int /\ FrameLen(frames[i]) \in Int
                      /\ At(i) + FrameLen(frames[i]) <= Used
                      /\ frames[i].len > 0
  BY <1>0, FrameTypes DEF Layout
<1>7. frames' # << >> /\ frames'[1].pos = begin'
  <2>1. CASE frames = << >>
    BY <1>0, <1>1, <1>2, <2>1 DEF Layout
  <2>2. CASE frames # << >>
    <3>1. 1 \in 1..N /\ frames[1].pos = begin
      BY <1>0, <2>2, FirstFrame
    <3>2. QED
      BY <1>1, <1>2, <3>1
  <2>3. QED
    BY <2>1, <2>2
<1>8. At(Len(frames))' + FrameLen(frames[Len(frames)])' = Used'
  BY <1>2, <1>4, <1>5
<1>9. ASSUME NEW i \in 1..N
      PROVE  At(i + 1)' = At(i)' + FrameLen(frames[i])'
  <2>1. CASE i = N
    <3>1. frames # << >>
      BY <1>0, <1>1, <2>1
    <3>2. At(N) + FrameLen(frames[N]) = Used
      BY <1>0, <3>1 DEF Layout
    <3>3. QED
      BY <1>5, <2>1, <3>2
  <2>2. CASE i # N
    <3>1. i \in 1..(N - 1) /\ i + 1 \in 1..N
      BY <1>1, <2>2
    <3>2. At(i + 1) = At(i) + FrameLen(frames[i])
      BY <1>0, <3>1 DEF Layout
    <3>3. QED
      BY <1>5, <3>1, <3>2
  <2>3. QED
    BY <2>1, <2>2
<1>10. ASSUME NEW i \in 1..(N + 1), NEW j \in 1..(N + 1), i < j
       PROVE  At(i)' + FrameLen(frames[i])' <= At(j)'
  <2>1. i \in 1..N
    BY <1>1, <1>10
  <2>2. CASE j \in 1..N
    BY <1>0, <1>5, <1>10, <2>1, <2>2 DEF Layout
  <2>3. CASE j = N + 1
    BY <1>5, <1>6, <2>1, <2>3
  <2>4. QED
    BY <1>1, <2>2, <2>3
<1>11. ASSUME NEW i \in 1..(N + 1)
       PROVE  frames'[i].len > 0 /\ At(i)' + FrameLen(frames[i])' <= Used'
  <2>1. CASE i \in 1..N
    <3>1. /\ At(i) \in Int /\ FrameLen(frames[i]) \in Int
          /\ At(i) + FrameLen(frames[i]) <= Used
      BY <1>6, <2>1
    <3>2. Used <= Used' /\ Used \in Int /\ Used' \in Int
      BY <1>3, <1>4
    <3>3. At(i) + FrameLen(frames[i]) <= Used'
      BY <3>1, <3>2
    <3>4. At(i)' = At(i) /\ FrameLen(frames[i])' = FrameLen(frames[i])
      BY <1>5, <2>1
    <3>5. frames'[i].len > 0
      BY <1>2, <1>6, <2>1
    <3>6. QED
      BY <3>3, <3>4, <3>5
  <2>2. CASE i = N + 1
    BY <1>2, <1>3, <1>4, <1>5, <2>2
  <2>3. QED
    BY <1>1, <2>1, <2>2
<1>12. N = Len(frames') - 1 /\ Len(frames') = N + 1
  BY <1>1, <1>2
<1>13. /\ \A i \in 1..(Len(frames') - 1) : At(i + 1)' = At(i)' + FrameLen(frames[i])'
       /\ \A i, j \in 1..Len(frames') : i < j => At(i)' + FrameLen(frames[i])' <= At(j)'
       /\ \A i \in 1..Len(frames') : frames'[i].len > 0 /\ At(i)' + FrameLen(frames[i])' <= Used'
  BY <1>9, <1>10, <1>11, <1>12
<1>14. Used' + EXTRA <= L
  BY <1>4
<1>15. QED
  BY <1>4, <1>7, <1>8, <1>13, <1>14 DEF Layout

LEMMA PublishData ==
  ASSUME Deployment, DataInv, NEW w \in Writers, Publish(w)
  PROVE  DataPart' /\ AnswersStay
<1> USE DEF DataInv, LockInv, DataPart
<1> DEFINE m == loc[w].msg
<1>1. pc[w] = "publish" /\ pc[w] \in CopyPcs /\ w \in Procs
  BY DEF Publish, CopyPcs, Procs
<1>2. /\ loc[w].len \in Nat /\ HDR \in Nat /\ EXTRA \in Nat \ {0}
      /\ Used \in Int /\ 0 <= Used /\ L \in Nat
  BY <1>1, CopyFacts, Constants
<1>3. /\ Used + HDR + loc[w].len + EXTRA <= L /\ loc[w].len > 0
      /\ m.pos = end /\ m.len = loc[w].len /\ loc[w].idx = Slot(end, HDR)
      /\ \A k \in 0..((HDR + loc[w].len) - 1) : mem[Slot(end, k)] = Byte(m, k)
  BY <1>1 DEF SenderData, SenderFacts, SendPcs, Written
<1>4. m \in Frames
  BY <1>1 DEF TypeInv, SenderLocals
<1>5. /\ FrameLen(m) = HDR + loc[w].len /\ FrameLen(m) \in Nat
      /\ Used + FrameLen(m) + EXTRA <= L
  BY <1>2, <1>3 DEF FrameLen
<1>6. end' = Slot(end, FrameLen(m))
  <2>1. end \in Slots /\ HDR + loc[w].len <= L
    BY <1>2, <1>3 DEF TypeInv, TypeOK
  <2>2. Slot(Slot(end, HDR), loc[w].len) = Slot(end, HDR + loc[w].len)
    BY <1>2, <2>1, SlotSlot
  <2>3. QED
    BY <1>3, <1>5, <2>2 DEF Publish
<1>7. frames' = Append(frames, m) /\ UNCHANGED <<mem, begin, buf>>
  BY DEF Publish
<1>8. Layout' /\ Used' = Used + FrameLen(m)
  BY <1>3, <1>4, <1>5, <1>6, <1>7, LayoutGrows
<1>9. /\ Len(frames) \in Nat /\ Len(frames') = Len(frames) + 1 /\ frames'[Len(frames) + 1] = m
      /\ \A i \in 1..Len(frames) : frames'[i] = frames[i]
  BY <1>7 DEF TypeInv, TypeOK
<1>10. UnreadIntact'
  <2>1. ASSUME NEW i \in 1..Len(frames'), NEW k \in 0..(FrameLen(frames'[i]) - 1)
        PROVE  mem[Slot(frames'[i].pos, k)] = Byte(frames'[i], k)
    <3>1. CASE i \in 1..Len(frames)
      BY <1>9, <3>1 DEF UnreadIntact
    <3>2. CASE i = Len(frames) + 1
      <4>1. frames'[i] = m /\ k \in 0..((HDR + loc[w].len) - 1)
        BY <1>5, <1>9, <3>2
      <4>2. QED
        BY <1>3, <4>1
    <3>3. QED
      BY <1>9, <3>1, <3>2
  <2>2. QED
    BY <1>7, <2>1 DEF UnreadIntact, Slot, FrameLen
<1>11. /\ pc'[w] \in {"idle", "unlock", "fault"}
       /\ \A q \in Procs : q # w => pc'[q] = pc[q] /\ loc'[q] = loc[q]
       /\ OthersAnswer(w) /\ AnswerOk(w)
  <2>1. Return(w, QUEUE_OK) /\ QUEUE_OK \in 0..(L - 1)
    BY <1>2, Constants DEF Publish, QUEUE_OK
  <2>2. QED
    BY <1>1, <2>1, Leaving
<1>12. ASSUME NEW v \in Writers PROVE SenderFacts(v)'
  <2>1. CASE v = w
    BY <1>11, <2>1, SenderOutside
  <2>2. CASE v # w
    <3>1. pc[v] \notin InnerPcs
      BY <1>1, <2>2, SendersAlone DEF Deployment, OneSender, InnerPcs
    <3>2. pc'[v] = pc[v] /\ loc'[v] = loc[v]
      BY <1>11, <2>2 DEF Procs
    <3>3. QED
      BY <3>1, <3>2 DEF SenderData, SenderFacts, SendPcs, InnerPcs, SizePcs, CopyPcs
  <2>3. QED
    BY <2>1, <2>2
<1>13. begin > end => begin > end'
  <2>1. begin \in Slots /\ end \in Slots /\ FrameLen(m) \in 0..L
    BY <1>2, <1>5 DEF TypeInv, TypeOK
  <2>2. Used = IF end >= begin THEN end - begin ELSE end - begin + L
    BY <2>1, OffIs DEF Used
  <2>3. end' = IF end + FrameLen(m) < L THEN end + FrameLen(m) ELSE end + FrameLen(m) - L
    BY <1>6, <2>1, SlotIs
  <2>4. Used + FrameLen(m) < L
    BY <1>2, <1>5
  <2>5. QED
    BY <1>5, <2>1, <2>2, <2>3, <2>4, SlotRange
<1>14. ASSUME NEW r \in Readers PROVE ReceiverFacts(r)'
  <2>1. r # w /\ r \in Procs
    BY ShmQueueAssumption DEF Procs
  <2>2. pc'[r] = pc[r] /\ loc'[r] = loc[r] /\ buf'[r] = buf[r]
    BY <1>7, <1>11, <2>1
  <2>3. frames # << >> => frames' # << >> /\ frames'[1] = frames[1]
    <3>1. frames # << >> => 1 \in 1..Len(frames)
      BY FirstFrame
    <3>2. QED
      BY <1>9, <3>1
  <2>4. FirstPart(r)' = FirstPart(r)
    BY <2>2 DEF FirstPart, Min2
  <2>5. ReceiverFacts(r)
    BY DEF ReceiverData
  <2>6. CASE frames = << >>
    BY <2>2, <2>5, <2>6 DEF ReceiverFacts, CopyPcs
  <2>7. CASE frames # << >>
    BY <1>7, <1>13, <2>2, <2>3, <2>4, <2>5, <2>7 DEF ReceiverFacts, FrameLen, Slot
  <2>8. QED
    BY <2>6, <2>7
<1>15. AnswersStay
  BY <1>1, <1>11, AnswersKept
<1>16. QED
  BY <1>8, <1>10, <1>12, <1>14, <1>15 DEF SenderData, ReceiverData

-----------------------------------------------------------------------------
(* Reading a frame.                                                        *)

\* The first frame, as a receiver finds it from m_iBegin on.
LEMMA HeadFrame ==
  ASSUME DataInv, frames # << >>
  PROVE  /\ frames[1] \in Frames /\ frames[1].len \in Nat
         /\ HDR \in Nat \ {0} /\ L \in Nat /\ HDR + frames[1].len < L
         /\ \A k \in 0..((HDR + frames[1].len) - 1) : mem[Slot(begin, k)] = Byte(frames[1], k)
<1> USE DEF DataInv, LockInv, DataPart
<1>1. 1 \in 1..Len(frames) /\ frames[1].pos = begin /\ FrameLen(frames[1]) <= Used
  BY FirstFrame
<1>2. frames[1] \in Frames /\ frames[1].len \in Nat
  BY <1>1, FrameTypes
<1>3. Used \in Int /\ Used < L /\ L \in Nat
  BY FrameTypes, SlotRange
<1>4. HDR \in Nat \ {0}
  BY Constants
<1>5. HDR + frames[1].len < L
  BY <1>1, <1>2, <1>3, <1>4 DEF FrameLen
<1>6. \A k \in 0..(FrameLen(frames[1]) - 1) : mem[Slot(frames[1].pos, k)] = Byte(frames[1], k)
  BY <1>1 DEF UnreadIntact
<1>7. QED
  BY <1>1, <1>2, <1>3, <1>4, <1>5, <1>6 DEF FrameLen

LEMMA ReadHeaderData ==
  ASSUME Deployment, DataInv, NEW r \in Readers, ReadHeader(r)
  PROVE  DataPart' /\ AnswersStay
<1> USE DEF DataInv, LockInv, DataPart
<1> DEFINE n == frames[1].len
<1>1. pc[r] = "head" /\ r \in Procs /\ r \notin Writers
  BY ShmQueueAssumption DEF ReadHeader, Decode, Procs
<1>2. /\ frames # << >> /\ FrameLen(frames[1]) <= loc[r].room /\ loc[r].room < SizeMod
      /\ ~(Impl[r] = "cpp" /\ loc[r].op = "get") => loc[r].room < IntMod \div 2
  BY <1>1 DEF ReceiverData, ReceiverFacts, CopyPcs
<1>3. /\ frames[1] \in Frames /\ n \in Nat /\ HDR \in Nat \ {0} /\ L \in Nat /\ HDR + n < L
      /\ \A k \in 0..((HDR + n) - 1) : mem[Slot(begin, k)] = Byte(frames[1], k)
  BY <1>2, HeadFrame
<1>4. mem[begin] = Byte(frames[1], 0)
  <2>1. Slot(begin, 0) = begin
    BY OffSelf DEF TypeInv, TypeOK
  <2>2. 0 \in 0..((HDR + n) - 1)
    BY <1>3
  <2>3. QED
    BY <1>3, <2>1, <2>2
<1>5. mem[begin].msg = frames[1]
  BY <1>4 DEF Byte
<1>6. LengthsAt(begin) = {n}
  <2>1. frames[1] # NoMsg
    BY <1>3, NoFrame
  <2>2. \A k \in 0..(HDR - 1) : k \in 0..((HDR + n) - 1)
    BY <1>3
  <2>3. HeaderAt(begin)
    BY <1>3, <1>5, <2>1, <2>2 DEF HeaderAt
  <2>4. QED
    BY <1>5, <2>3 DEF LengthsAt
<1>7. ~LengthIllegal(r, n)
  <2>1. PICK x \in Int : x = loc[r].room - HDR
    BY <1>3 DEF TypeInv, TypeOK, Locals, Procs
  <2>2. n <= x /\ x < SizeMod /\ (~(Impl[r] = "cpp" /\ loc[r].op = "get") => x < IntMod \div 2)
    <3>1. loc[r].room \in Int /\ SizeMod \in Int /\ IntMod \div 2 \in Int
      BY <1>1, Widths DEF TypeInv, TypeOK, Locals
    <3>2. HDR + n <= loc[r].room
      BY <1>2 DEF FrameLen
    <3>3. QED
      BY <1>2, <1>3, <2>1, <3>1, <3>2
  <2>3. Unsigned(x) = x
    BY <1>3, <2>2, Conversions
  <2>4. ~(Impl[r] = "cpp" /\ loc[r].op = "get") => Signed(x) = x
    <3>1. IntMod \div 2 \in Nat
      BY Widths
    <3>2. -(IntMod \div 2) <= x
      BY <1>3, <2>2, <3>1
    <3>3. QED
      BY <2>2, <3>2, Conversions
  <2>5. ~(n > x)
    BY <1>3, <2>2
  <2>6. QED
    BY <2>1, <2>3, <2>4, <2>5 DEF LengthIllegal
<1>8. /\ Goto(r, IF loc[r].op = "del" THEN "publish" ELSE "copy")
      /\ loc' = [loc EXCEPT ![r].len = n, ![r].idx = Slot(begin, HDR)]
      /\ UNCHANGED <<mem, begin, end, frames, sent, buf, ret>>
  BY <1>6, <1>7 DEF ReadHeader, Decode, shared
<1> HIDE DEF n
<1>9. /\ pc'[r] = IF loc[r].op = "del" THEN "publish" ELSE "copy"
      /\ \A q \in Procs : q # r => pc'[q] = pc[q] /\ loc'[q] = loc[q]
  BY <1>1, <1>8 DEF Goto, TypeInv, TypeOK
<1>10. loc'[r].len = n /\ loc'[r].idx = Slot(begin, HDR) /\ loc'[r].op = loc[r].op
  BY <1>1, <1>8 DEF TypeInv, TypeOK, Locals
<1>11. OthersKeep(r) /\ OthersAnswer(r) /\ AnswerOk(r)
  BY <1>1, <1>8, <1>9 DEF OthersKeep, OthersAnswer, AnswerOk
<1>12. ReceiverFacts(r)'
  <2>1. frames'[1].len = n /\ Slot(begin, HDR)' = Slot(begin, HDR) /\ frames' # << >>
    BY <1>2, <1>8 DEF Slot, n
  <2>2. QED
    BY <1>9, <1>10, <2>1 DEF ReceiverFacts, CopyPcs
<1>13. QED
  BY <1>1, <1>8, <1>11, <1>12, QuietStep

\* Where the bytes of the first frame's message lie, seen from the index
\* behind its length.
LEMMA HeadBytes ==
  ASSUME DataInv, frames # << >>, NEW k \in 0..(frames[1].len - 1)
  PROVE  /\ Slot(begin, HDR) \in Slots /\ k \in 0..L
         /\ mem[Slot(Slot(begin, HDR), k)] = Byte(frames[1], HDR + k)
<1> USE DEF DataInv, LockInv
<1>1. /\ frames[1].len \in Nat /\ HDR \in Nat \ {0} /\ L \in Nat /\ HDR + frames[1].len < L
      /\ \A j \in 0..((HDR + frames[1].len) - 1) : mem[Slot(begin, j)] = Byte(frames[1], j)
  BY HeadFrame
<1>2. /\ k \in Nat /\ k \in 0..L /\ HDR \in 0..L /\ HDR + k <= L
      /\ HDR + k \in 0..((HDR + frames[1].len) - 1)
  BY <1>1
<1>3. begin \in Slots
  BY DEF TypeInv, TypeOK
<1>4. Slot(begin, HDR) \in Slots
  BY <1>2, <1>3, SlotIs
<1>5. Slot(Slot(begin, HDR), k) = Slot(begin, HDR + k)
  BY <1>1, <1>2, <1>3, SlotSlot
<1>6. QED
  BY <1>1, <1>2, <1>4, <1>5

LEMMA ReadCopyData ==
  ASSUME Deployment, DataInv, NEW r \in Readers, ReadFirst(r) \/ ReadRest(r)
  PROVE  DataPart' /\ AnswersStay
<1> USE DEF DataInv, LockInv, DataPart
<1>1. /\ pc[r] \in {"copy", "rest"} /\ pc[r] \in CopyPcs /\ r \in Procs /\ r \notin Writers
      /\ DOMAIN pc = Procs /\ DOMAIN buf = Readers
  BY ShmQueueAssumption DEF ReadFirst, ReadRest, Procs, CopyPcs, TypeInv, TypeOK
<1>2. frames # << >> /\ loc[r].len = frames[1].len /\ loc[r].idx = Slot(begin, HDR)
  BY <1>1 DEF ReceiverData, ReceiverFacts
<1>3. /\ FirstPart(r) \in Nat /\ FirstPart(r) <= loc[r].len /\ loc[r].len \in Nat
      /\ FirstPart(r) < loc[r].len => FirstPart(r) = L - loc[r].idx
      /\ loc[r].idx \in Int /\ loc[r].idx < L /\ L \in Nat
  BY <1>1, CopyFacts
<1>4. \A k \in 0..(loc[r].len - 1) :
        /\ loc[r].idx \in Slots /\ k \in 0..L
        /\ mem[Slot(loc[r].idx, k)] = Byte(frames[1], HDR + k)
  BY <1>2, HeadBytes
<1>5. HDR + loc[r].len < L /\ HDR \in Nat
  BY <1>2, HeadFrame
<1>6. UNCHANGED <<mem, begin, end, frames, sent, loc, ret>>
  BY DEF ReadFirst, ReadRest, shared
<1>7. FirstPart(r)' = FirstPart(r)
  BY <1>6 DEF FirstPart, Min2
<1>8. /\ pc'[r] \in {"rest", "publish"}
      /\ pc'[r] = "rest" =>
           \A k \in 0..(FirstPart(r) - 1) : buf'[r][k] = Byte(frames[1], HDR + k)
      /\ pc'[r] = "publish" =>
           \A k \in 0..(loc[r].len - 1) : buf'[r][k] = Byte(frames[1], HDR + k)
  <2>1. CASE ReadFirst(r)
    <3>1. pc'[r] = IF loc[r].len > FirstPart(r) THEN "rest" ELSE "publish"
      BY <1>1, <2>1 DEF ReadFirst, Goto
    <3>2. pc'[r] = "publish" => FirstPart(r) = loc[r].len
      BY <1>3, <3>1
    <3>3. buf'[r] = [k \in 0..(FirstPart(r) - 1) |-> mem[loc[r].idx + k]]
      BY <1>1, <2>1 DEF ReadFirst
    <3>4. ASSUME NEW k \in 0..(FirstPart(r) - 1)
          PROVE  mem[loc[r].idx + k] = Byte(frames[1], HDR + k)
      <4>1. k \in 0..(loc[r].len - 1) /\ k < FirstPart(r) /\ k \in Int
        BY <1>3
      <4>2. loc[r].idx + k < L
        <5>1. FirstPart(r) <= L - loc[r].idx
          BY <1>3 DEF FirstPart, Min2
        <5>2. QED
          BY <1>3, <4>1, <5>1
      <4>3. Slot(loc[r].idx, k) = loc[r].idx + k
        BY <1>4, <4>1, <4>2, SlotIs
      <4>4. QED
        BY <1>4, <4>1, <4>3
    <3>5. QED
      BY <3>1, <3>2, <3>3, <3>4
  <2>2. CASE ReadRest(r)
    <3>1. ~(loc[r].len - FirstPart(r) > L)
      BY <1>3, <1>5
    <3>2. pc[r] = "rest" /\ pc'[r] = "publish"
      BY <1>1, <2>2, <3>1 DEF ReadRest, Goto
    <3>3. buf'[r] = [k \in 0..(loc[r].len - 1) |->
                       IF k < FirstPart(r) THEN buf[r][k] ELSE mem[k - FirstPart(r)]]
      BY <1>1, <2>2, <3>1 DEF ReadRest
    <3>4. \A k \in 0..(FirstPart(r) - 1) : buf[r][k] = Byte(frames[1], HDR + k)
      BY <3>2 DEF ReceiverData, ReceiverFacts
    <3>5. ASSUME NEW k \in 0..(loc[r].len - 1)
          PROVE  buf'[r][k] = Byte(frames[1], HDR + k)
      <4>1. CASE k < FirstPart(r)
        <5>1. k \in 0..(FirstPart(r) - 1)
          BY <1>3, <4>1
        <5>2. QED
          BY <3>3, <3>4, <4>1, <5>1
      <4>2. CASE ~(k < FirstPart(r))
        <5>1. k \in Int /\ FirstPart(r) <= k /\ k < loc[r].len
          BY <1>3, <4>2
        <5>2. FirstPart(r) = L - loc[r].idx
          BY <1>3, <5>1
        <5>3. ~(loc[r].idx + k < L) /\ loc[r].idx + k - L = k - FirstPart(r)
          BY <1>3, <5>1, <5>2
        <5>4. Slot(loc[r].idx, k) = k - FirstPart(r)
          BY <1>4, <5>3, SlotIs
        <5>5. QED
          BY <1>4, <3>3, <4>2, <5>4
      <4>3. QED
        BY <4>1, <4>2
    <3>6. QED
      BY <3>2, <3>5
  <2>3. QED
    BY <2>1, <2>2
<1>9. OthersKeep(r) /\ OthersAnswer(r) /\ AnswerOk(r)
  <2>1. \A q \in Procs : q # r => pc'[q] = pc[q] /\ (q \in Readers => buf'[q] = buf[q])
    BY <1>1 DEF ReadFirst, ReadRest, Goto
  <2>2. QED
    BY <1>1, <1>6, <2>1 DEF OthersKeep, OthersAnswer, AnswerOk
<1>10. ReceiverFacts(r)'
  BY <1>2, <1>6, <1>7, <1>8 DEF ReceiverFacts, CopyPcs, Slot
<1>11. QED
  BY <1>1, <1>6, <1>9, <1>10, QuietStep

-----------------------------------------------------------------------------
(* Taking a frame.                                                         *)

\* The first frame is gone from the history.
FirstTaken == frames' = Tail(frames)

\* What moving m_iBegin behind the first frame makes of the layout.
LEMMA LayoutShrinks ==
  ASSUME TypeInv, Layout, frames # << >>,
         begin' = Slot(begin, FrameLen(frames[1])), end' = end, FirstTaken
  PROVE  /\ Layout' /\ Used' = Used - FrameLen(frames[1])
         /\ begin <= end => begin' <= end
<1>0. PICK N \in Nat : N = Len(frames)
  BY FrameTypes
<1>a. PICK f \in Nat : f = FrameLen(frames[1])
  <2>1. 1 \in 1..Len(frames)
    BY FirstFrame
  <2>2. QED
    BY <2>1, FrameTypes
<1>1. N >= 1 /\ f <= Used
  BY <1>0, <1>a, FirstFrame
<1>2. /\ Len(frames') = N - 1
      /\ \A i \in 1..(N - 1) : frames'[i] = frames[i + 1]
  BY <1>0 DEF TypeInv, TypeOK, FirstTaken
<1>3. begin \in Slots /\ end \in Slots /\ Used \in Int /\ 0 <= Used /\ Used < L
  BY FrameTypes, SlotRange
<1>4. Used' = Used - f
  BY <1>a, <1>1, <1>3, OffShift DEF Used
<1>5. ASSUME NEW i \in 1..N
      PROVE  /\ At(i) \in Int /\ FrameLen(frames[i]) \in Int /\ frames[i].pos \in Slots
             /\ At(i) + FrameLen(frames[i]) <= Used /\ frames[i].len > 0
  BY <1>0, FrameTypes DEF Layout
<1>6. ASSUME NEW i \in 1..(N - 1)
      PROVE  /\ At(i)' = At(i + 1) - f
             /\ FrameLen(frames[i])' = FrameLen(frames[i + 1])
             /\ frames'[i].len = frames[i + 1].len
             /\ i + 1 \in 1..N
  <2>1. i + 1 \in 1..N /\ 1 \in 1..N /\ 1 < i + 1
    OBVIOUS
  <2>2. At(1) + f <= At(i + 1)
    BY <1>0, <1>a, <2>1 DEF Layout
  <2>3. 0 <= At(1)
    BY <1>0, <2>1, FrameTypes, Constants
  <2>4. f <= At(i + 1)
    BY <1>5, <2>1, <2>2, <2>3
  <2>5. Off(Slot(begin, f), frames[i + 1].pos) = At(i + 1) - f
    BY <1>3, <1>5, <2>1, <2>4, OffShift DEF At
  <2>6. At(i)' = Off(begin', frames[i + 1].pos)
    BY <1>2 DEF At, Off
  <2>7. QED
    BY <1>a, <1>2, <2>1, <2>5, <2>6 DEF FrameLen
<1>7. frames' = << >> => begin' = end'
  <2>1. SUFFICES ASSUME frames' = << >> PROVE begin' = end'
    OBVIOUS
  <2>2. N = 1
    <3>1. PICK s : s = frames'
      OBVIOUS
    <3>2. Len(s) = 0
      BY <2>1, <3>1
    <3>3. Len(s) = N - 1
      BY <1>2, <3>1
    <3>4. N - 1 = 0
      BY <3>2, <3>3, Zenon
    <3>5. QED
      BY <3>4
  <2>3. At(1) = 0
    BY <1>3, FirstFrame, OffSelf DEF At
  <2>4. f = Used
    BY <1>0, <1>a, <2>2, <2>3 DEF Layout
  <2>5. QED
    BY <1>a, <1>3, <2>4, SlotOff DEF Used
<1>8. ASSUME frames' # << >>
      PROVE  /\ frames'[1].pos = begin'
             /\ At(Len(frames))' + FrameLen(frames[Len(frames)])' = Used'
  <2>1. Len(frames') # 0
    BY <1>8 DEF TypeInv, TypeOK, FirstTaken
  <2>2. 1 \in 1..(N - 1) /\ N - 1 \in 1..(N - 1) /\ N \in 1..N /\ 2 \in 1..N
    BY <1>1, <1>2, <2>1
  <2>3. At(1) = 0 /\ At(2) = At(1) + f
    <3>1. At(1) = 0
      BY <1>3, FirstFrame, OffSelf DEF At
    <3>2. At(1 + 1) = At(1) + f
      BY <1>0, <1>a, <2>2 DEF Layout
    <3>3. QED
      BY <3>1, <3>2
  <2>4. frames'[1].pos = begin'
    <3>1. frames'[1] = frames[2]
      BY <1>2, <2>2
    <3>2. At(2) = f
      BY <2>3
    <3>3. Slot(begin, At(2)) = frames[2].pos
      BY <1>3, <1>5, <2>2, SlotOff DEF At
    <3>4. QED
      BY <1>a, <3>1, <3>2, <3>3
  <2>5. At(N) + FrameLen(frames[N]) = Used
    BY <1>0 DEF Layout
  <2>6. PICK j \in 1..(N - 1) : j = N - 1 /\ j + 1 = N
    BY <2>2
  <2>7. At(j)' = At(N) - f /\ FrameLen(frames[j])' = FrameLen(frames[N])
    BY <1>6, <2>6
  <2>8. At(N) \in Int /\ FrameLen(frames[N]) \in Int
    BY <1>5, <2>2
  <2>9. At(j)' + FrameLen(frames[j])' = Used'
    BY <1>a, <1>3, <1>4, <2>5, <2>7, <2>8
  <2>10. QED
    BY <1>2, <2>4, <2>6, <2>9
<1>9. ASSUME NEW i \in 1..((N - 1) - 1)
      PROVE  At(i + 1)' = At(i)' + FrameLen(frames[i])'
  <2>1. i \in 1..(N - 1) /\ i + 1 \in 1..(N - 1) /\ i + 1 \in 1..N /\ (i + 1) + 1 \in 1..N
    OBVIOUS
  <2>2. At((i + 1) + 1) = At(i + 1) + FrameLen(frames[i + 1])
    BY <1>0, <2>1 DEF Layout
  <2>3. At(i)' = At(i + 1) - f /\ FrameLen(frames[i])' = FrameLen(frames[i + 1])
    BY <1>6, <2>1
  <2>4. At(i + 1)' = At((i + 1) + 1) - f
    BY <1>6, <2>1
  <2>5. At(i + 1) \in Int /\ FrameLen(frames[i + 1]) \in Int
    BY <1>5, <2>1
  <2>6. QED
    BY <1>a, <2>2, <2>3, <2>4, <2>5
<1>10. ASSUME NEW i \in 1..(N - 1), NEW j \in 1..(N - 1), i < j
       PROVE  At(i)' + FrameLen(frames[i])' <= At(j)'
  <2>1. i + 1 \in 1..N /\ j + 1 \in 1..N /\ i + 1 < j + 1
    BY <1>10
  <2>2. At(i + 1) + FrameLen(frames[i + 1]) <= At(j + 1)
    BY <1>0, <2>1 DEF Layout
  <2>3. At(i)' = At(i + 1) - f /\ FrameLen(frames[i])' = FrameLen(frames[i + 1])
    BY <1>6
  <2>4. At(j)' = At(j + 1) - f
    BY <1>6
  <2>5. At(i + 1) \in Int /\ FrameLen(frames[i + 1]) \in Int /\ At(j + 1) \in Int
    BY <1>5, <2>1
  <2>6. QED
    BY <1>a, <2>2, <2>3, <2>4, <2>5
<1>11. ASSUME NEW i \in 1..(N - 1)
       PROVE  frames'[i].len > 0 /\ At(i)' + FrameLen(frames[i])' <= Used'
  <2>1. /\ At(i)' = At(i + 1) - f /\ FrameLen(frames[i])' = FrameLen(frames[i + 1])
        /\ frames'[i].len = frames[i + 1].len /\ i + 1 \in 1..N
    BY <1>6
  <2>2. /\ At(i + 1) \in Int /\ FrameLen(frames[i + 1]) \in Int
        /\ At(i + 1) + FrameLen(frames[i + 1]) <= Used /\ frames[i + 1].len > 0
    BY <1>5, <2>1
  <2>3. QED
    BY <1>a, <1>3, <1>4, <2>1, <2>2
<1>12. Layout'
  <2>1. Used + EXTRA <= L /\ EXTRA \in Nat /\ L \in Nat
    BY Constants DEF Layout
  <2>2. Used' + EXTRA <= L
    BY <1>1, <1>3, <1>4, <2>1
  <2>3. QED
    BY <1>2, <1>7, <1>8, <1>9, <1>10, <1>11, <2>2 DEF Layout
<1>13. begin <= end => begin' <= end
  <2>1. f \in 0..L
    BY <1>1, <1>3, SlotRange
  <2>2. begin' = IF begin + f < L THEN begin + f ELSE begin + f - L
    BY <1>a, <1>3, <2>1, SlotIs
  <2>3. Used = IF end >= begin THEN end - begin ELSE end - begin + L
    BY <1>3, OffIs DEF Used
  <2>4. QED
    BY <1>1, <1>3, <2>2, <2>3, SlotRange
<1>14. QED
  BY <1>a, <1>4, <1>12, <1>13

\* A receiver moves m_iBegin behind the first frame, whatever its length.
LEMMA ConsumeMoves ==
  ASSUME DataInv, NEW r \in Readers, Consume(r)
  PROVE  /\ frames # << >> /\ begin' = Slot(begin, FrameLen(frames[1]))
         /\ Layout' /\ Used' = Used - FrameLen(frames[1])
         /\ begin <= end => begin' <= end
<1> USE DEF DataInv, LockInv, DataPart
<1>1. frames # << >> /\ loc[r].len = frames[1].len /\ loc[r].idx = Slot(begin, HDR)
  BY DEF Consume, ReceiverData, ReceiverFacts, CopyPcs
<1>2. frames[1].len \in Nat /\ HDR \in Nat \ {0} /\ L \in Nat /\ HDR + frames[1].len < L
  BY <1>1, HeadFrame
<1>3. begin' = Slot(begin, FrameLen(frames[1]))
  <2>1. begin \in Slots
    BY DEF TypeInv, TypeOK
  <2>2. Slot(Slot(begin, HDR), frames[1].len) = Slot(begin, HDR + frames[1].len)
    BY <1>2, <2>1, SlotSlot
  <2>3. QED
    BY <1>1, <2>2 DEF Consume, FrameLen
<1>4. end' = end /\ FirstTaken
  BY <1>1 DEF Consume, Rest, FirstTaken
<1>5. QED
  BY <1>1, <1>3, <1>4, LayoutShrinks

LEMMA ConsumeData ==
  ASSUME Deployment, DataInv, NEW r \in Readers, Consume(r)
  PROVE  DataPart' /\ AnswersStay
<1> USE DEF DataInv, LockInv, DataPart
<1>1. /\ pc[r] = "publish" /\ pc[r] \in CopyPcs /\ pc[r] \in InnerPcs /\ loc[r].op # "peek"
      /\ r \in Procs /\ r \notin Writers
  BY ShmQueueAssumption DEF Consume, Procs, CopyPcs, InnerPcs
<1>2. frames # << >> /\ loc[r].len = frames[1].len
  BY <1>1 DEF ReceiverData, ReceiverFacts
<1>3. /\ frames[1].len \in Nat /\ HDR \in Nat \ {0} /\ L \in Nat /\ HDR + frames[1].len < L
  BY <1>2, HeadFrame
<1>4. begin' = Slot(begin, FrameLen(frames[1]))
  BY ConsumeMoves
<1>5. frames' = Tail(frames) /\ UNCHANGED <<mem, end, sent, buf>>
  BY <1>2 DEF Consume, Rest
<1>6. /\ Layout' /\ Used' = Used - FrameLen(frames[1])
      /\ begin <= end => begin' <= end
  BY ConsumeMoves
<1>7. /\ Len(frames) \in Nat /\ Len(frames') = Len(frames) - 1
      /\ \A i \in 1..(Len(frames) - 1) : frames'[i] = frames[i + 1] /\ i + 1 \in 1..Len(frames)
  BY <1>2, <1>5 DEF TypeInv, TypeOK
<1>8. UnreadIntact'
  <2>1. ASSUME NEW i \in 1..Len(frames'), NEW k \in 0..(FrameLen(frames'[i]) - 1)
        PROVE  mem[Slot(frames'[i].pos, k)] = Byte(frames'[i], k)
    BY <1>7 DEF UnreadIntact
  <2>2. QED
    BY <1>5, <2>1 DEF UnreadIntact, Slot, FrameLen
<1>9. /\ pc'[r] \in {"idle", "unlock", "fault"}
      /\ \A q \in Procs : q # r => pc'[q] = pc[q] /\ loc'[q] = loc[q]
      /\ OthersAnswer(r) /\ AnswerOk(r)
  <2>1. Return(r, loc[r].len) /\ loc[r].len \in 0..(L - 1)
    BY <1>2, <1>3 DEF Consume
  <2>2. QED
    BY <1>1, <2>1, Leaving
<1>10. ASSUME NEW w \in Writers PROVE SenderFacts(w)'
  <2>1. w \in Procs /\ pc'[w] = pc[w] /\ loc'[w] = loc[w]
    BY <1>1, <1>9 DEF Procs
  <2>2. FirstPart(w)' = FirstPart(w)
    BY <2>1 DEF FirstPart, Min2
  <2>3. Written(w)' = Written(w)
    BY <2>1, <2>2 DEF Written
  <2>4. SenderFacts(w)
    BY DEF SenderData
  <2>5. pc[w] \in CopyPcs => Used' + HDR + loc[w].len + EXTRA <= L
    <3>1. FrameLen(frames[1]) \in Nat /\ Used \in Int /\ Used' \in Int
      BY <1>2, <1>3, <1>6, FrameTypes, SlotRange DEF FrameLen
    <3>2. loc[w].len \in Int /\ EXTRA \in Int
      BY <2>1, Constants DEF TypeInv, TypeOK, Locals
    <3>3. pc[w] \in CopyPcs => Used + HDR + loc[w].len + EXTRA <= L
      BY <2>4 DEF SenderFacts
    <3>4. QED
      BY <1>3, <1>6, <3>1, <3>2, <3>3
  <2>6. QED
    BY <1>5, <1>6, <2>1, <2>2, <2>3, <2>4, <2>5 DEF SenderFacts, Slot
<1>11. ASSUME NEW q \in Readers PROVE ReceiverFacts(q)'
  <2>1. CASE q = r
    BY <1>9, <2>1, ReceiverOutside
  <2>2. CASE q # r
    <3>1. pc[q] \notin InnerPcs
      BY <1>1, <2>2, ReceiversAlone DEF Deployment, OneReceiver
    <3>2. pc'[q] = pc[q] /\ q \in Procs
      BY <1>9, <2>2 DEF Procs
    <3>3. QED
      BY <3>1, <3>2 DEF ReceiverFacts, InnerPcs, SizePcs, CopyPcs
  <2>3. QED
    BY <2>1, <2>2
<1>12. AnswersStay
  BY <1>1, <1>9, AnswersKept
<1>13. QED
  BY <1>6, <1>8, <1>10, <1>11, <1>12 DEF SenderData, ReceiverData

LEMMA AnswerData ==
  ASSUME Deployment, DataInv, NEW r \in Readers, Answer(r)
  PROVE  DataPart' /\ AnswersStay
<1> USE DEF DataInv, LockInv, DataPart
<1>1. pc[r] = "publish" /\ r \in Procs /\ r \notin Writers
  BY ShmQueueAssumption DEF Answer, Procs
<1>2. frames # << >> /\ loc[r].len = frames[1].len
  BY <1>1 DEF ReceiverData, ReceiverFacts, CopyPcs
<1>3. Return(r, loc[r].len) /\ loc[r].len \in 0..(L - 1)
  BY <1>2, HeadFrame DEF Answer
<1>4. /\ pc'[r] \in {"idle", "unlock", "fault"}
      /\ \A q \in Procs : q # r => pc'[q] = pc[q] /\ loc'[q] = loc[q]
      /\ OthersAnswer(r) /\ AnswerOk(r)
  BY <1>1, <1>3, Leaving
<1>5. UNCHANGED <<mem, begin, end, frames, sent, buf>>
  BY DEF Answer, shared
<1>6. OthersKeep(r)
  BY <1>4, <1>5 DEF OthersKeep
<1>7. QED
  BY <1>1, <1>4, <1>5, <1>6, QuietStep, ReceiverOutside

-----------------------------------------------------------------------------
(* The invariant and what follows from it.                                 *)

LEMMA DataInit ==
  ASSUME Deployment, Init
  PROVE  DataInv /\ NoSequenceAnswer
<1>1. LockInv
  BY LockInit
<1>2. Layout /\ UnreadIntact
  <2>1. begin = 0 /\ end = 0 /\ frames = << >>
    BY DEF Init
  <2>2. Used = 0 /\ EXTRA \in Nat /\ EXTRA <= L
    BY <2>1, ShmQueueAssumption DEF Used, Off
  <2>3. QED
    BY <2>1, <2>2 DEF Layout, UnreadIntact
<1>3. SenderData /\ ReceiverData
  BY DEF Init, SenderData, ReceiverData, SenderFacts, ReceiverFacts, SendPcs, SizePcs,
         CopyPcs, Procs
<1>4. NoSequenceAnswer
  <2>1. 0 \in 0..(L - 1)
    BY Constants
  <2>2. 0 \notin {QUEUE_DATA_SEQUENCE_ERROR, Unsigned(QUEUE_DATA_SEQUENCE_ERROR)}
    BY <2>1, OtherAnswers
  <2>3. QED
    BY <2>2 DEF Init, NoSequenceAnswer, Procs
<1>5. QED
  BY <1>1, <1>2, <1>3, <1>4 DEF DataInv, DataPart

LEMMA DataStep ==
  ASSUME Deployment, DataInv, [Next]_vars
  PROVE  DataInv' /\ AnswersStay
<1> USE DEF DataInv
<1>1. LockInv'
  BY LockStep
<1>2. CASE Send \/ Read
  BY <1>1, <1>2, OuterData DEF Send, Read, Procs
<1>3. ASSUME NEW p \in Procs, Exit(p) PROVE DataPart' /\ AnswersStay
  BY <1>3, OuterData
<1>4. ASSUME NEW p \in Procs, Work(p) PROVE DataPart' /\ AnswersStay
  <2>1. CASE TakeLock(p) \/ Unlock(p)
    BY <2>1, OuterData
  <2>2. CASE SizeEqual(p) \/ SizeOrder(p) \/ SizeWrapped(p) \/ SizeMiddle(p)
    BY <2>2, SenderSizes, ReceiverSizes DEF Procs
  <2>3. CASE WriteHeader(p)
    BY <2>3, WriteHeaderData DEF WriteHeader
  <2>4. CASE WriteFirst(p)
    BY <2>4, WriteFirstData DEF WriteFirst
  <2>5. CASE WriteRest(p)
    BY <2>5, WriteRestData DEF WriteRest
  <2>6. CASE Publish(p)
    BY <2>6, PublishData DEF Publish
  <2>7. CASE ReadHeader(p)
    BY <2>7, ReadHeaderData DEF ReadHeader, Decode
  <2>8. CASE ReadFirst(p) \/ ReadRest(p)
    BY <2>8, ReadCopyData DEF ReadFirst, ReadRest
  <2>9. CASE p \in Readers /\ Consume(p)
    BY <2>9, ConsumeData
  <2>10. CASE p \in Readers /\ Answer(p)
    BY <2>10, AnswerData
  <2>11. CASE p \in Readers /\ (ResetEnd(p) \/ ResetBegin(p))
    BY <2>11 DEF ResetEnd, ResetBegin, DataPart, ReceiverData, ReceiverFacts
  <2>12. QED
    BY <1>4, <2>1, <2>2, <2>3, <2>4, <2>5, <2>6, <2>7, <2>8, <2>9, <2>10, <2>11
    DEF Work, ReadEnd
<1>5. CASE UNCHANGED vars
  <2>1. UNCHANGED <<mem, begin, end, pc, loc, buf, ret, sent, frames>>
    BY <1>5 DEF vars
  <2>2. Layout' /\ UnreadIntact' /\ AnswersStay
    BY <2>1 DEF DataPart, Layout, At, Used, Off, UnreadIntact, Slot, AnswersStay, NoSequenceAnswer
  <2>3. SenderData' /\ ReceiverData'
    BY <2>1, SenderSame, ReceiverSame DEF DataPart, SenderData, ReceiverData
  <2>4. QED
    BY <1>1, <2>2, <2>3 DEF DataPart
<1>6. CASE Next
  BY <1>1, <1>2, <1>3, <1>4, <1>6 DEF Next
<1>7. QED
  BY <1>1, <1>5, <1>6

LEMMA DataInvariant ==
  ASSUME Deployment
  PROVE  Spec => []DataInv /\ []NoSequenceAnswer
<1>1. Init => DataInv /\ NoSequenceAnswer
  BY DataInit
<1>2. DataInv /\ NoSequenceAnswer /\ [Next]_vars => DataInv' /\ NoSequenceAnswer'
  BY DataStep DEF AnswersStay
<1>3. QED
  BY <1>1, <1>2, PTL DEF Spec

\* No C++ sender ever writes over bytes that have not been read, and it keeps
\* EXTRA_BYTE free, although it computes the free size from loads of m_iBegin
\* that receivers move meanwhile.
THEOREM NeverOverwrites ==
  ASSUME Deployment
  PROVE  Spec => []NoOverwrite
<1>1. DataInv => NoOverwrite
  BY DEF DataInv, DataPart, SenderData, SenderFacts, NoOverwrite
<1>2. QED
  BY <1>1, DataInvariant, PTL

\* m_iBegin and m_iEnd always stand on the borders of frames that lie back to
\* back between them, and are equal only when there is no frame.
THEOREM StaysChained ==
  ASSUME Deployment
  PROVE  Spec => []Chained
<1>1. ASSUME DataInv PROVE Chained
  <2> USE DEF DataInv, LockInv, DataPart
  <2>1. /\ begin \in Slots /\ end \in Slots /\ Len(frames) \in Nat
        /\ Used \in Int /\ Used < L /\ L \in Nat
    BY <1>1, FrameTypes, SlotRange
  <2>2. ASSUME NEW i \in 1..Len(frames)
        PROVE  /\ After(frames[i]) = Slot(begin, At(i) + FrameLen(frames[i]))
               /\ frames[i].pos = Slot(begin, At(i))
    <3>1. /\ At(i) \in Nat /\ FrameLen(frames[i]) \in Nat /\ frames[i].pos \in Slots
          /\ At(i) + FrameLen(frames[i]) <= Used
      BY <1>1, FrameTypes DEF Layout
    <3>2. frames[i].pos = Slot(begin, At(i))
      BY <2>1, <3>1, SlotOff DEF At
    <3>3. Slot(Slot(begin, At(i)), FrameLen(frames[i])) = Slot(begin, At(i) + FrameLen(frames[i]))
      <4>1. At(i) + FrameLen(frames[i]) <= L
        BY <2>1, <3>1
      <4>2. QED
        BY <2>1, <3>1, <4>1, SlotSlot
    <3>4. QED
      BY <3>2, <3>3 DEF After
  <2>3. ASSUME frames # << >>
        PROVE  /\ frames[1].pos = begin /\ begin # end
               /\ After(frames[Len(frames)]) = end
    <3>1. frames[1].pos = begin /\ begin # end /\ Len(frames) \in 1..Len(frames)
      BY <1>1, <2>3, FirstFrame
    <3>2. At(Len(frames)) + FrameLen(frames[Len(frames)]) = Used
      BY <1>1, <2>3 DEF Layout
    <3>3. Slot(begin, Used) = end
      BY <2>1, SlotOff DEF Used
    <3>4. QED
      BY <2>2, <3>1, <3>2, <3>3
  <2>4. ASSUME NEW i \in 1..(Len(frames) - 1)
        PROVE  frames[i + 1].pos = After(frames[i])
    <3>1. i \in 1..Len(frames) /\ i + 1 \in 1..Len(frames)
      BY <2>1
    <3>2. At(i + 1) = At(i) + FrameLen(frames[i])
      BY <1>1 DEF Layout
    <3>3. QED
      BY <2>2, <3>1, <3>2
  <2>5. QED
    BY <1>1, <2>3, <2>4 DEF Layout, Chained
<1>2. QED
  BY <1>1, DataInvariant, PTL

\* What has been published and not taken is in the ring, byte for byte.
THEOREM UnreadStaysIntact ==
  ASSUME Deployment
  PROVE  Spec => []UnreadIntact
<1>1. DataInv => UnreadIntact
  BY DEF DataInv, DataPart
<1>2. QED
  BY <1>1, DataInvariant, PTL

\* No receiver ever takes sound data for damaged and throws the queue's
\* content away: the branches that return QUEUE_DATA_SEQUENCE_ERROR are dead.
THEOREM NeverSequenceError ==
  ASSUME Deployment
  PROVE  Spec => []NoSequenceError
<1>1. DataInv /\ NoSequenceAnswer => NoSequenceError
  BY DEF DataInv, DataPart, ReceiverData, ReceiverFacts, NoSequenceAnswer, NoSequenceError
<1>2. QED
  BY <1>1, DataInvariant, PTL

-----------------------------------------------------------------------------
(* No faults.                                                              *)

\* ReadHeadMessage of the C++ class is only used with a reading lock: without
\* one its guard releases through a NULL pointer.
PeeksLocked ==
  \A r \in Readers : Impl[r] = "cpp" /\ "peek" \in Ops => Locks(r)

\* A process in a call is in one of the calls of its side.
InCall == {"lock"} \cup InnerPcs

Calling ==
  \A p \in Procs :
    /\ loc[p].op \in {"none"} \cup (IF p \in Writers THEN {"send"} ELSE Ops)
    /\ pc[p] \in InCall => loc[p].op # "none"

SafeInv == NoFault /\ Calling

\* A step within the call, and a return.
LEMMA SafeMove ==
  ASSUME TypeInv, SafeInv, NEW p \in Procs, pc[p] \in InCall,
         NEW l, l # "fault", Goto(p, l), \A q \in Procs : loc'[q].op = loc[q].op
  PROVE  SafeInv'
BY DEF SafeInv, NoFault, Calling, Goto, TypeInv, TypeOK

LEMMA SafeReturn ==
  ASSUME TypeInv, SafeInv, PeeksLocked, NEW p \in Procs, pc[p] \in InCall,
         NEW x, Return(p, x)
  PROVE  SafeInv'
<1>1. ReturnPc(p) \in {"idle", "unlock"}
  <2>1. SharedRead(p) => p \in Readers /\ "peek" \in Ops /\ Impl[p] = "cpp"
    BY DEF SharedRead, SafeInv, Calling, Procs
  <2>2. QED
    BY <2>1 DEF ReturnPc, PeeksLocked
<1>2. NoFault'
  BY <1>1 DEF Return, Goto, SafeInv, NoFault, TypeInv, TypeOK
<1>3. /\ \A q \in Procs : q # p => pc'[q] = pc[q] /\ loc'[q] = loc[q]
      /\ pc'[p] = ReturnPc(p)
      /\ IF ReturnPc(p) = "unlock" THEN loc'[p].op = loc[p].op ELSE loc'[p].op = "none"
  BY DEF Return, Goto, NoCall, TypeInv, TypeOK
<1>4. Calling'
  BY <1>1, <1>3 DEF SafeInv, Calling, InCall, InnerPcs, SizePcs, CopyPcs
<1>5. QED
  BY <1>2, <1>4 DEF SafeInv

\* Changing another local than the kind of call on the way.
LEMMA SafeMoveWith ==
  ASSUME TypeInv, SafeInv, NEW p \in Procs, pc[p] \in InCall,
         NEW l, l # "fault", Goto(p, l), NEW k, k.op = loc[p].op, loc' = [loc EXCEPT ![p] = k]
  PROVE  SafeInv'
BY SameOp, SafeMove

LEMMA SafeSequenceError ==
  ASSUME TypeInv, SafeInv, PeeksLocked, NEW p \in Procs, pc[p] \in InCall, ReadSequenceError(p)
  PROVE  SafeInv'
BY SafeReturn, SafeMove DEF ReadSequenceError

LEMMA SafeSizeKnown ==
  ASSUME TypeInv, SafeInv, PeeksLocked, NEW p \in Procs, pc[p] \in SizePcs,
         NEW n, SizeKnown(p, n)
  PROVE  SafeInv'
<1> pc[p] \in InCall
  BY DEF InCall, InnerPcs
<1>1. CASE SendCheck(p, n)
  BY <1>1, SafeReturn, SafeMove DEF SendCheck
<1>2. CASE ReadCheck(p, n)
  <2>1. CASE Return(p, QUEUE_NO_MESSAGE)
    BY <2>1, SafeReturn
  <2>2. CASE ReadSequenceError(p)
    BY <2>2, SafeSequenceError
  <2>3. CASE Goto(p, "head") /\ loc' = [loc EXCEPT ![p].room = MaxLength(p, n)]
    <3> DEFINE k == [loc[p] EXCEPT !.room = MaxLength(p, n)]
    <3>1. k.op = loc[p].op
      BY DEF TypeInv, TypeOK, Locals
    <3>2. loc' = [loc EXCEPT ![p] = k]
      BY <2>3
    <3> HIDE DEF k
    <3>3. QED
      BY <2>3, <3>1, <3>2, SafeMoveWith
  <2>4. QED
    BY <1>2, <2>1, <2>2, <2>3 DEF ReadCheck
<1>3. QED
  BY <1>1, <1>2 DEF SizeKnown

LEMMA SafeSizes ==
  ASSUME TypeInv, SafeInv, PeeksLocked, NEW p \in Procs,
         SizeEqual(p) \/ SizeOrder(p) \/ SizeWrapped(p) \/ SizeMiddle(p)
  PROVE  SafeInv'
<1>1. pc[p] \in SizePcs /\ pc[p] \in InCall
  BY DEF SizeEqual, SizeOrder, SizeWrapped, SizeMiddle, InCall, InnerPcs, SizePcs
<1>2. CASE \E l \in SizePcs : Goto(p, l) /\ UNCHANGED loc
  BY <1>1, <1>2, SafeMove DEF SizePcs
<1>3. QED
  BY <1>1, <1>2, SafeSizeKnown DEF SizeEqual, SizeOrder, SizeWrapped, SizeMiddle, SizePcs

\* A frame that has room, and one that is in the ring, is shorter than it: the
\* second part of a copy stays inside the array.
LEMMA SafeCopies ==
  ASSUME Deployment, DataInv, SafeInv, NEW p \in Procs,
         WriteFirst(p) \/ WriteRest(p) \/ ReadFirst(p) \/ ReadRest(p)
  PROVE  SafeInv'
<1> USE DEF DataInv, LockInv, DataPart
<1> pc[p] \in InCall
  BY DEF WriteFirst, WriteRest, ReadFirst, ReadRest, InCall, InnerPcs, CopyPcs
<1>1. CASE WriteFirst(p) \/ ReadFirst(p)
  BY <1>1, SafeMove DEF WriteFirst, ReadFirst
<1>2. CASE WriteRest(p)
  <2>1. pc[p] \in CopyPcs /\ p \in Writers
    BY <1>2 DEF WriteRest, CopyPcs
  <2>2. Used + HDR + loc[p].len + EXTRA <= L
    BY <2>1 DEF SenderData, SenderFacts
  <2>3. ~(loc[p].len - FirstPart(p) > L)
    BY <2>1, <2>2, CopyFacts
  <2>4. QED
    BY <1>2, <2>3, SafeMove DEF WriteRest
<1>3. CASE ReadRest(p)
  <2>1. pc[p] \in CopyPcs /\ pc[p] = "rest" /\ p \in Readers
    BY <1>3 DEF ReadRest, CopyPcs
  <2>2. frames # << >> /\ loc[p].len = frames[1].len
    BY <2>1 DEF ReceiverData, ReceiverFacts
  <2>3. HDR + loc[p].len < L /\ HDR \in Nat
    BY <2>2, HeadFrame
  <2>4. ~(loc[p].len - FirstPart(p) > L)
    BY <2>1, <2>3, CopyFacts
  <2>5. QED
    BY <1>3, <2>4, SafeMove DEF ReadRest
<1>4. QED
  BY <1>1, <1>2, <1>3

LEMMA SafeDecode ==
  ASSUME TypeInv, SafeInv, PeeksLocked, NEW p \in Procs, pc[p] = "head", NEW n, Decode(p, n)
  PROVE  SafeInv'
<1> pc[p] \in InCall
  BY DEF InCall, InnerPcs, CopyPcs
<1>1. CASE ReadSequenceError(p)
  BY <1>1, SafeSequenceError
<1>2. CASE /\ Goto(p, IF loc[p].op = "del" THEN "publish" ELSE "copy")
           /\ loc' = [loc EXCEPT ![p].len = n, ![p].idx = Slot(begin, HDR)]
  <2> DEFINE k == [loc[p] EXCEPT !.len = n, !.idx = Slot(begin, HDR)]
  <2>1. k.op = loc[p].op
    BY DEF TypeInv, TypeOK, Locals
  <2>2. loc' = [loc EXCEPT ![p] = k]
    BY <1>2
  <2> HIDE DEF k
  <2>3. QED
    BY <1>2, <2>1, <2>2, SafeMoveWith
<1>3. QED
  BY <1>1, <1>2 DEF Decode

LEMMA SafeHeaders ==
  ASSUME TypeInv, SafeInv, PeeksLocked, NEW p \in Procs,
         WriteHeader(p) \/ ReadHeader(p)
  PROVE  SafeInv'
<1>1. CASE WriteHeader(p)
  <2> DEFINE m == [src |-> p, num |-> sent[p] + 1, len |-> loc[p].len, pos |-> end]
             k == [loc[p] EXCEPT !.msg = m, !.idx = Slot(end, HDR)]
  <2>1. k.op = loc[p].op
    BY DEF TypeInv, TypeOK, Locals
  <2>2. loc' = [loc EXCEPT ![p] = k] /\ Goto(p, "copy") /\ pc[p] \in InCall
    BY <1>1 DEF WriteHeader, InCall, InnerPcs, CopyPcs
  <2> HIDE DEF k
  <2>3. QED
    BY <2>1, <2>2, SafeMoveWith
<1>2. CASE ReadHeader(p)
  BY <1>2, SafeDecode DEF ReadHeader
<1>3. QED
  BY <1>1, <1>2

\* Entering a call, its lock, and leaving through the guard or by death.
LEMMA SafeOutside ==
  ASSUME TypeInv, SafeInv, NEW p \in Procs,
         \/ \E n \in Lens : p \in Writers /\ SendMessage(p, n)
         \/ \E op \in Ops : p \in Readers /\ (ReadMessage(p, op) \/ ReadNull(p, op))
         \/ TakeLock(p) \/ Unlock(p) \/ Exit(p)
  PROVE  SafeInv'
<1> USE DEF TypeInv, TypeOK
<1>1. CASE TakeLock(p)
  BY <1>1, SafeMove DEF TakeLock, InCall
<1>2. CASE Unlock(p) \/ Exit(p)
  <2>1. pc' = [pc EXCEPT ![p] = "idle"] /\ loc' = [loc EXCEPT ![p] = NoCall]
    BY <1>2 DEF Unlock, Exit, Goto
  <2>2. QED
    BY <2>1 DEF SafeInv, NoFault, Calling, NoCall, InCall, InnerPcs, SizePcs, CopyPcs
<1>3. CASE UNCHANGED <<pc, loc>>
  BY <1>3 DEF SafeInv, NoFault, Calling
<1>4. ASSUME NEW n \in Lens, p \in Writers, SendMessage(p, n) PROVE SafeInv'
  <2>1. CASE n = 0
    BY <1>3, <1>4, <2>1 DEF SendMessage
  <2>2. CASE n # 0
    <3>1. loc' = [loc EXCEPT ![p] = [NoCall EXCEPT !.op = "send", !.len = n]]
      BY <1>4, <2>2 DEF SendMessage
    <3>2. loc'[p].op = "send" /\ \A q \in Procs : q # p => loc'[q] = loc[q]
      BY <3>1 DEF NoCall
    <3>3. pc'[p] \in {"lock", "equal"} /\ \A q \in Procs : q # p => pc'[q] = pc[q]
      BY <1>4, <2>2 DEF SendMessage, Goto
    <3>4. QED
      BY <1>4, <3>2, <3>3 DEF SafeInv, NoFault, Calling
  <2>3. QED
    BY <2>1, <2>2
<1>5. ASSUME NEW op \in Ops, p \in Readers, ReadMessage(p, op) PROVE SafeInv'
  <2>1. loc' = [loc EXCEPT ![p] = [NoCall EXCEPT !.op = op]]
    BY <1>5 DEF ReadMessage
  <2>2. loc'[p].op = op /\ \A q \in Procs : q # p => loc'[q] = loc[q]
    BY <2>1 DEF NoCall
  <2>3. pc'[p] \in {"lock", "equal"} /\ \A q \in Procs : q # p => pc'[q] = pc[q]
    BY <1>5 DEF ReadMessage, Goto
  <2>4. p \notin Writers /\ op # "none"
    BY <1>5, ShmQueueAssumption
  <2>5. QED
    BY <1>5, <2>2, <2>3, <2>4 DEF SafeInv, NoFault, Calling
<1>6. QED
  BY <1>1, <1>2, <1>3, <1>4, <1>5 DEF ReadNull

LEMMA SafeStep ==
  ASSUME Deployment, PeeksLocked, DataInv, SafeInv, [Next]_vars
  PROVE  SafeInv'
<1> USE DEF DataInv, LockInv
<1>1. CASE Send \/ Read
  BY <1>1, SafeOutside DEF Send, Read, Procs
<1>2. ASSUME NEW p \in Procs, Exit(p) PROVE SafeInv'
  BY <1>2, SafeOutside
<1>3. ASSUME NEW p \in Procs, Work(p) PROVE SafeInv'
  <2>1. CASE TakeLock(p) \/ Unlock(p)
    BY <2>1, SafeOutside
  <2>2. CASE SizeEqual(p) \/ SizeOrder(p) \/ SizeWrapped(p) \/ SizeMiddle(p)
    BY <2>2, SafeSizes
  <2>3. CASE WriteHeader(p) \/ ReadHeader(p)
    BY <2>3, SafeHeaders
  <2>4. CASE WriteFirst(p) \/ WriteRest(p) \/ ReadFirst(p) \/ ReadRest(p)
    BY <2>4, SafeCopies
  <2>5. CASE Publish(p) \/ Consume(p) \/ Answer(p) \/ ResetBegin(p)
    BY <2>5, SafeReturn DEF Publish, Consume, Answer, ResetBegin, InCall, InnerPcs, CopyPcs
  <2>6. p \in Readers => ~ResetEnd(p)
    BY DEF ResetEnd, DataPart, ReceiverData, ReceiverFacts
  <2>7. QED
    BY <1>3, <2>1, <2>2, <2>3, <2>4, <2>5, <2>6 DEF Work, ReadEnd
<1>4. CASE UNCHANGED vars
  BY <1>4 DEF vars, SafeInv, NoFault, Calling
<1>5. CASE Next
  BY <1>1, <1>2, <1>3, <1>5 DEF Next
<1>6. QED
  BY <1>4, <1>5

LEMMA SafeInit == Init => SafeInv
BY DEF Init, SafeInv, NoFault, Calling, NoCall, InCall, InnerPcs, SizePcs, CopyPcs, Procs

\* No call ends beyond the segment or in a NULL lock, if ReadHeadMessage of
\* the class is kept to the modes with a reading lock.
THEOREM NeverFaults ==
  ASSUME Deployment, PeeksLocked
  PROVE  Spec => []NoFault
<1>1. Init => SafeInv
  BY SafeInit
<1>2. DataInv /\ SafeInv /\ [Next]_vars => SafeInv'
  BY SafeStep
<1>3. SafeInv => NoFault
  BY DEF SafeInv
<1>4. QED
  BY <1>1, <1>2, <1>3, DataInvariant, PTL DEF Spec
=============================================================================
