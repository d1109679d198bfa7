----------------------- MODULE ShmQueueRestartProofs -----------------------
(***************************************************************************)
(* What holds of the ring when programs create the queue again while it is *)
(* in use: the indices may point anywhere then, and the bytes between them *)
(* decode to anything, but no call leaves the segment; and a creation that *)
(* no call overlaps makes the ring a working queue again.                  *)
(***************************************************************************)
EXTENDS ShmQueueRestart, ShmQueueFifoProofs

-----------------------------------------------------------------------------
(* Types and locks.                                                        *)

RestartInv ==
  /\ LockInv
  /\ seen \in [Procs -> Slots \cup {NotLoaded}]
  /\ \A p \in Procs : seen[p] # NotLoaded => pc[p] \in SizePcs
  /\ creating \in {"no", "alone", "overlapped"}
  /\ broken \in BOOLEAN

\* A step of ShmQueue that a process takes in a call, GetDataSize apart.
CallStep(p) ==
  \/ TakeLock(p) \/ Unlock(p)
  \/ WriteHeader(p) \/ WriteFirst(p) \/ WriteRest(p) \/ Publish(p)
  \/ ReadHeader(p) \/ ReadFirst(p) \/ ReadRest(p) \/ ReadEnd(p)

EntryStep(p) ==
  \/ p \in Writers /\ \E n \in Lens : SendMessage(p, n)
  \/ p \in Readers /\ \E op \in Ops : ReadMessage(p, op) \/ ReadNull(p, op)

\* A comparison that only decides which load comes next.
Decide(p) ==
  /\ pc[p] \in {"equal", "order"}
  /\ \E l \in {"order", "wrapped", "middle"} : Goto(p, l)
  /\ UNCHANGED <<shared, locks, loc, ret, sent, frames, got, buf>>

\* A second load after which the size is known.
SizeFrom(p) == IF pc[p] = "equal" THEN 0
               ELSE IF pc[p] = "wrapped" THEN seen[p] + L - begin
               ELSE seen[p] - begin

LEMMA SecondLoadIs ==
  ASSUME NEW p, SecondLoad(p)
  PROVE  /\ seen[p] # NotLoaded /\ seen' = [seen EXCEPT ![p] = NotLoaded]
         /\ pc[p] \in SizePcs
         /\ \/ /\ pc[p] \in {"equal", "wrapped", "middle"}
               /\ pc[p] = "equal" => seen[p] = end
               /\ SizeKnown(p, SizeFrom(p))
            \/ /\ Decide(p)
               /\ pc[p] = "equal" => seen[p] # end /\ Goto(p, "order")
               /\ pc[p] = "order" => Goto(p, IF seen[p] > end THEN "wrapped" ELSE "middle")
BY DEF SecondLoad, Compare, Subtract, SizeFrom, Decide, SizePcs

\* Nobody but p moves, and the seen of the others stays.
OthersStill(p) == \A q \in Procs : q # p => pc'[q] = pc[q] /\ loc'[q] = loc[q]

LEMMA StillReturn ==
  ASSUME TypeInv, NEW p \in Procs, NEW x, Return(p, x)
  PROVE  OthersStill(p)
BY DEF Return, Goto, OthersStill, TypeInv, TypeOK

LEMMA StillSize ==
  ASSUME TypeInv, NEW p \in Procs, (\E n : SizeKnown(p, n)) \/ Decide(p) \/ (\E n : Decode(p, n))
  PROVE  OthersStill(p)
<1>1. CASE Decide(p)
  BY <1>1 DEF Decide, Goto, OthersStill, TypeInv, TypeOK
<1>2. CASE \E x : Return(p, x)
  BY <1>2, StillReturn
<1>3. CASE \E l, k : Goto(p, l) /\ (loc' = loc \/ loc' = [loc EXCEPT ![p] = k])
  BY <1>3 DEF Goto, OthersStill, TypeInv, TypeOK
<1>4. CASE \E n : SizeKnown(p, n)
  BY <1>2, <1>3, <1>4 DEF SizeKnown, SendCheck, ReadCheck, ReadSequenceError
<1>5. CASE \E n : Decode(p, n)
  <2>1. PICK n : Decode(p, n)
    BY <1>5
  <2>2. CASE ReadSequenceError(p)
    BY <1>2, <1>3, <2>2 DEF ReadSequenceError
  <2>3. CASE /\ Goto(p, IF loc[p].op = "del" THEN "publish" ELSE "copy")
             /\ loc' = [loc EXCEPT ![p].len = n, ![p].idx = Slot(begin, HDR)]
    BY <2>3 DEF Goto, OthersStill, TypeInv, TypeOK
  <2>4. QED
    BY <2>1, <2>2, <2>3 DEF Decode
<1>6. QED
  BY <1>1, <1>4, <1>5

LEMMA StillOthers ==
  ASSUME TypeInv, NEW p \in Procs, CallStep(p) \/ EntryStep(p) \/ Exit(p)
  PROVE  OthersStill(p)
<1>1. CASE TakeLock(p) \/ Unlock(p) \/ WriteFirst(p) \/ WriteRest(p) \/ ReadFirst(p) \/ ReadRest(p)
           \/ WriteHeader(p) \/ Exit(p) \/ ResetEnd(p)
  BY <1>1 DEF TakeLock, Unlock, WriteFirst, WriteRest, ReadFirst, ReadRest, WriteHeader, Exit,
              ResetEnd, Goto, OthersStill, TypeInv, TypeOK
<1>2. CASE Publish(p) \/ Consume(p) \/ Answer(p) \/ ResetBegin(p)
  BY <1>2, StillReturn DEF Publish, Consume, Answer, ResetBegin
<1>3. CASE ReadHeader(p)
  BY <1>3, StillSize DEF ReadHeader
<1>4. CASE EntryStep(p)
  BY <1>4 DEF EntryStep, SendMessage, ReadMessage, ReadNull, Goto, OthersStill, TypeInv, TypeOK
<1>5. QED
  BY <1>1, <1>2, <1>3, <1>4 DEF CallStep, ReadEnd

\* The steps of RestartNext, by what they are in ShmQueue.
LEMMA RestartCases ==
  ASSUME [RestartNext]_restartVars
  PROVE  \/ StartBegin \/ StartEnd \/ StartDies
         \/ UNCHANGED restartVars
         \/ \E p \in Procs :
              \/ EntryStep(p) /\ Overlap /\ UNCHANGED <<seen, broken>>
              \/ /\ Exit(p) /\ seen' = [seen EXCEPT ![p] = NotLoaded]
                 /\ UNCHANGED <<creating, broken>>
              \/ /\ \/ Load(p) \/ SecondLoad(p)
                    \/ UNCHANGED seen /\ (ReadAnyHeader(p) \/ CallStep(p))
                 /\ UNCHANGED <<creating, broken>>
<1>1. CASE (Send \/ Read) /\ Overlap /\ UNCHANGED <<seen, broken, starts, deaths>>
  BY <1>1 DEF Send, Read, EntryStep, Procs
<1>2. ASSUME NEW p \in Procs, RestartWork(p)
      PROVE  /\ \/ Load(p) \/ SecondLoad(p)
                \/ UNCHANGED seen /\ (ReadAnyHeader(p) \/ CallStep(p))
             /\ UNCHANGED <<creating, broken>>
  BY <1>2 DEF RestartWork, CallStep
<1>3. QED
  BY <1>1, <1>2 DEF RestartNext, Die

\* The locks and types through the steps ShmQueue has not.
LEMMA LoadedLocks ==
  ASSUME RestartInv, NEW p \in Procs, SecondLoad(p)
  PROVE  LockInv'
<1> USE DEF RestartInv, LockInv
<1>1. pc[p] \in SizePcs /\ seen[p] \in Slots
  BY SecondLoadIs
<1>2. SizeFrom(p) \in Int
  <2>1. begin \in Slots
    BY DEF TypeInv, TypeOK
  <2>2. seen[p] \in Int /\ begin \in Int /\ L \in Int
    BY <1>1, <2>1, SlotRange
  <2>3. QED
    BY <2>2 DEF SizeFrom
<1>3. CASE SizeKnown(p, SizeFrom(p))
  BY <1>1, <1>2, <1>3, SizeKnownType, SizeKnownKeepsLocks, KeepsLocksKeeps
<1>4. CASE Decide(p)
  <2>1. pc'[p] \in {"order", "wrapped", "middle"} /\ \A q \in Procs : q # p => pc'[q] = pc[q]
    BY <1>4 DEF Decide, Goto, TypeInv, TypeOK
  <2>2. UNCHANGED <<mem, begin, end, beginLock, endLock, loc, buf, ret, sent, frames, got>>
    BY <1>4 DEF Decide, shared, locks
  <2>3. TypeOK'
    BY <1>1, <1>4, <2>2 DEF Decide, Goto, TypeInv, TypeOK, InnerPcs, SizePcs
  <2>4. OthersKeep(p)
    BY <2>1, <2>2 DEF OthersKeep
  <2>5. SenderLocals' /\ ReceiverLocals'
    <3>1. p \in Writers => sent'[p] < MaxSend /\ loc'[p].len \in Lens
      BY <1>1, <2>2 DEF TypeInv, SenderLocals, SendPcs
    <3>2. pc'[p] \notin {"copy", "rest", "publish"}
      BY <2>1
    <3>3. QED
      BY <2>4, <3>1, <3>2, OwnLocals
  <2>6. KeepsLocks
    BY <1>1, <1>4, <2>2, Inside DEF Decide, InnerPcs, SizePcs
  <2>7. QED
    BY <2>3, <2>5, <2>6, KeepsLocksKeeps DEF TypeInv
<1>5. QED
  BY <1>3, <1>4, SecondLoadIs

LEMMA AnyHeaderLocks ==
  ASSUME LockInv, NEW r \in Readers, ReadAnyHeader(r)
  PROVE  LockInv'
<1>1. PICK n \in GarbageLens : Decode(r, n)
  BY DEF ReadAnyHeader
<1>2. n \in Nat /\ pc[r] = "head" /\ r \in Procs
  BY Constants DEF ReadAnyHeader, Procs
<1>3. QED
  BY <1>1, <1>2, DecodeType, DecodeKeepsLocks, KeepsLocksKeeps DEF LockInv, ReadAnyHeader

LEMMA StartLocks ==
  ASSUME LockInv, StartBegin \/ StartEnd \/ StartDies
  PROVE  LockInv'
<1> USE DEF LockInv, TypeInv
<1>1. /\ UNCHANGED <<mem, beginLock, endLock, pc, loc, buf, ret, sent, got>>
      /\ begin' \in {begin, 0} /\ end' \in {end, 0} /\ frames' \in {frames, << >>}
  BY DEF StartBegin, StoreBegin, StartEnd, StartDies, locks, vars
<1>2. TypeOK'
  <2>1. begin' \in Slots /\ end' \in Slots /\ frames' \in Seq(Frames)
    <3>1. << >> \in Seq(Frames)
      OBVIOUS
    <3>2. frames' \in Seq(Frames)
      BY <1>1, <3>1, Zenon DEF TypeOK
    <3>3. QED
      BY <1>1, <3>2, Constants DEF TypeOK
  <2>2. QED
    BY <1>1, <2>1 DEF TypeOK
<1>3. SenderLocals' /\ ReceiverLocals'
  BY <1>1 DEF SenderLocals, ReceiverLocals, FirstPart, Min2
<1>4. KeepsLocks
  BY <1>1 DEF KeepsLocks
<1>5. QED
  BY <1>2, <1>3, <1>4, KeepsLocksKeeps

LEMMA RestartInvStep ==
  ASSUME RestartInv, [RestartNext]_restartVars
  PROVE  RestartInv'
<1> USE DEF RestartInv
<1>a. TypeInv
  BY DEF LockInv
<1>1. CASE StartBegin \/ StartEnd \/ StartDies
  <2>1. UNCHANGED <<seen, pc>> /\ creating' \in {"no", "alone", "overlapped"} /\ broken' \in BOOLEAN
    BY <1>1 DEF StartBegin, StartEnd, StartDies, vars
  <2>2. QED
    BY <1>1, <2>1, StartLocks
<1>2. CASE UNCHANGED restartVars
  <2>1. UNCHANGED vars /\ UNCHANGED <<seen, pc, creating, broken>>
    BY <1>2 DEF restartVars, vars
  <2>2. QED
    BY <2>1, LockStep
<1>3. ASSUME NEW p \in Procs, EntryStep(p), Overlap, UNCHANGED <<seen, broken>>
      PROVE  RestartInv'
  <2>1. Next /\ pc[p] = "idle"
    BY <1>3 DEF Next, Send, Read, EntryStep, SendMessage, ReadMessage, ReadNull
  <2>2. LockInv'
    BY <2>1, LockStep
  <2>3. seen[p] = NotLoaded /\ \A q \in Procs : q # p => pc'[q] = pc[q]
    BY <1>a, <1>3, <2>1, StillOthers DEF SizePcs, OthersStill
  <2>4. QED
    BY <1>3, <2>2, <2>3 DEF Overlap
<1>4. ASSUME NEW p \in Procs, Exit(p), seen' = [seen EXCEPT ![p] = NotLoaded],
             UNCHANGED <<creating, broken>>
      PROVE  RestartInv'
  <2>1. LockInv'
    BY <1>4, LockStep DEF Next
  <2>2. \A q \in Procs : q # p => pc'[q] = pc[q]
    BY <1>a, <1>4, StillOthers DEF OthersStill
  <2>3. QED
    BY <1>4, <2>1, <2>2
<1>5. ASSUME NEW p \in Procs, Load(p), UNCHANGED <<creating, broken>>
      PROVE  RestartInv'
  <2>1. LockInv' /\ UNCHANGED pc
    BY <1>5, LockStep DEF Load, vars
  <2>2. FirstLoad(p) \in Slots
    BY <1>a DEF FirstLoad, TypeInv, TypeOK
  <2>3. QED
    BY <1>5, <2>1, <2>2 DEF Load
<1>6. ASSUME NEW p \in Procs, SecondLoad(p), UNCHANGED <<creating, broken>>
      PROVE  RestartInv'
  <2>1. LockInv'
    BY <1>6, LoadedLocks
  <2>2. \A q \in Procs : q # p => pc'[q] = pc[q]
    BY <1>a, <1>6, SecondLoadIs, StillSize DEF OthersStill
  <2>3. seen' = [seen EXCEPT ![p] = NotLoaded]
    BY <1>6, SecondLoadIs
  <2>4. QED
    BY <1>6, <2>1, <2>2, <2>3
<1>7. ASSUME NEW p \in Procs, ReadAnyHeader(p) \/ CallStep(p), UNCHANGED <<seen, creating, broken>>
      PROVE  RestartInv'
  <2>1. LockInv'
    <3>1. CASE ReadAnyHeader(p)
      BY <3>1, AnyHeaderLocks DEF ReadAnyHeader
    <3>2. CASE CallStep(p)
      <4>1. Next
        BY <3>2 DEF Next, Work, CallStep
      <4>2. QED
        BY <4>1, LockStep
    <3>3. QED
      BY <1>7, <3>1, <3>2
  <2>2. pc[p] \notin SizePcs
    BY <1>7 DEF ReadAnyHeader, CallStep, TakeLock, Unlock, WriteHeader, WriteFirst, WriteRest,
                Publish, ReadHeader, ReadFirst, ReadRest, ReadEnd, Consume, Answer, ResetEnd,
                ResetBegin, SizePcs
  <2>3. OthersStill(p)
    BY <1>a, <1>7, StillOthers, StillSize DEF ReadAnyHeader
  <2>4. QED
    BY <1>7, <2>1, <2>2, <2>3 DEF OthersStill
<1>8. QED
  BY <1>1, <1>2, <1>3, <1>4, <1>5, <1>6, <1>7, RestartCases

-----------------------------------------------------------------------------
(* No faults.                                                              *)

\* Every receiver keeps the size in an int.  With GetMessage of the C++ class,
\* which keeps it in a size_t, a size torn by a creation is larger than every
\* length and the second part of the copy leaves the segment.
IntReceivers == \A r \in Readers : Impl[r] = "cpp" => "get" \notin Ops

\* Where a call may go wrong when indices move under it: what is left of a
\* length behind the end of the array is never longer than the array.
SenderBounds(w) ==
  /\ pc[w] \in {"wrapped", "middle"} /\ seen[w] # NotLoaded => end \in {seen[w], 0}
  /\ pc[w] = "head" => /\ loc[w].len + HDR <= 2 * L
                       /\ loc[w].len + Slot(end, HDR) <= 2 * L
  /\ pc[w] \in {"copy", "rest"} => loc[w].len + loc[w].idx <= 2 * L

ReceiverBounds(r) ==
  /\ pc[r] = "head" => /\ HDR < loc[r].room /\ loc[r].room < IntMod \div 2
                       /\ loc[r].room + begin < 2 * L
  /\ pc[r] \in {"copy", "rest"} => loc[r].len + loc[r].idx <= 2 * L
  /\ pc[r] \in {"reset", "resetBegin"} => loc[r].op # "peek"

Bounds ==
  /\ \A w \in Writers : SenderBounds(w)
  /\ \A r \in Readers : ReceiverBounds(r)

BoundInv == RestartInv /\ SafeInv /\ Bounds

LEMMA SignedIs ==
  ASSUME Deployment, NEW x \in Int, -IntMod < x, x < IntMod
  PROVE  Signed(x) = IF x >= IntMod \div 2 THEN x - IntMod
                     ELSE IF x < -(IntMod \div 2) THEN x + IntMod ELSE x
<1>1. IntMod \in Nat \ {0} /\ IntMod = 2 * (IntMod \div 2) /\ IntMod \div 2 \in Nat
  BY Widths
<1>2. CASE 0 <= x
  <2>1. x % IntMod = x
    BY <1>1, <1>2, ModSmall
  <2>2. QED
    BY <1>1, <1>2, <2>1 DEF Signed
<1>3. CASE x < 0
  <2>1. x % IntMod = x + IntMod
    BY <1>1, <1>3, ModBelow
  <2>2. QED
    BY <1>1, <1>3, <2>1 DEF Signed
<1>4. QED
  BY <1>2, <1>3

\* What a sender may conclude from a size that the indices never had.
LEMMA AcceptsAtMost ==
  ASSUME Deployment, EXTRA <= HDR, TypeInv, NEW w \in Writers, loc[w].len \in Lens,
         NEW n \in Int, -L < n, n < 2 * L, SendAccepts(w, n)
  PROVE  loc[w].len + HDR <= L - n - EXTRA \/ loc[w].len < L
<1>1. /\ L \in Nat /\ HDR \in Nat /\ EXTRA \in Nat \ {0} /\ SizeMod \in Nat
      /\ IntMod \div 2 \in Nat /\ L <= IntMod \div 2 /\ HDR + EXTRA < L
      /\ IntMod = 2 * (IntMod \div 2) /\ IntMod < SizeMod
      /\ loc[w].len \in Nat /\ loc[w].len + HDR < SizeMod
  BY Constants, Widths, ShmQueueAssumption
<1>2. PICK s \in Int : s = L - n - EXTRA
  BY <1>1
<1>3. -IntMod < s /\ s < IntMod
  BY <1>1, <1>2
<1>4. Signed(s) = IF s >= IntMod \div 2 THEN s - IntMod
                  ELSE IF s < -(IntMod \div 2) THEN s + IntMod ELSE s
  BY <1>3, SignedIs
<1>5. PICK z \in Int : z = Signed(s)
  BY ConversionType
<1>6. z > 0 /\ Unsigned(loc[w].len + HDR) <= Unsigned(z)
  BY <1>2, <1>5 DEF SendAccepts, SendAccepts_cpp, Deployment
<1>7. z < IntMod \div 2 /\ (z = s \/ (s < -(IntMod \div 2) /\ z = s + IntMod))
  BY <1>1, <1>3, <1>4, <1>5, <1>6
<1>8. Unsigned(z) = z
  BY <1>1, <1>6, <1>7, Conversions
<1>9. PICK t \in Int : t = loc[w].len + HDR
  BY <1>1
<1>10. Unsigned(t) = t
  BY <1>1, <1>9, Conversions
<1>11. loc[w].len + HDR <= z
  BY <1>6, <1>8, <1>9, <1>10
<1>12. CASE z = s
  BY <1>2, <1>11, <1>12
<1>13. CASE s < -(IntMod \div 2) /\ z = s + IntMod
  BY <1>1, <1>2, <1>11, <1>13
<1>14. QED
  BY <1>7, <1>12, <1>13

\* The sizes GetDataSize puts together.
LEMMA SizeFromIs ==
  ASSUME RestartInv, NEW p \in Procs, pc[p] \in {"equal", "wrapped", "middle"},
         seen[p] # NotLoaded
  PROVE  /\ seen[p] \in Int /\ 0 <= seen[p] /\ seen[p] < L
         /\ begin \in Int /\ 0 <= begin /\ begin < L /\ end \in Slots /\ L \in Nat
         /\ SizeFrom(p) \in Int /\ -L < SizeFrom(p) /\ SizeFrom(p) < 2 * L
         /\ pc[p] = "equal" => SizeFrom(p) = 0
         /\ pc[p] = "wrapped" => SizeFrom(p) = seen[p] + L - begin
         /\ pc[p] = "middle" => SizeFrom(p) = seen[p] - begin
<1>1. seen[p] \in Slots /\ begin \in Slots /\ end \in Slots
  BY DEF RestartInv, LockInv, TypeInv, TypeOK
<1>2. QED
  BY <1>1, SlotRange DEF SizeFrom

LEMMA SenderBounded ==
  ASSUME Deployment, EXTRA <= HDR, RestartInv, Bounds, NEW w \in Writers, SecondLoad(w)
  PROVE  SenderBounds(w)'
<1> USE DEF RestartInv, LockInv
<1>1. w \in Procs /\ seen[w] # NotLoaded /\ seen'[w] = NotLoaded /\ pc[w] \in SizePcs
  BY SecondLoadIs DEF Procs
<1>2. CASE Decide(w)
  <2>1. pc'[w] \in {"order", "wrapped", "middle"}
    BY <1>1, <1>2 DEF Decide, Goto, TypeInv, TypeOK
  <2>2. QED
    BY <1>1, <2>1 DEF SenderBounds
<1>3. CASE pc[w] \in {"equal", "wrapped", "middle"} /\ SizeKnown(w, SizeFrom(w))
  <2> DEFINE n == SizeFrom(w)
  <2>1. SendCheck(w, n) /\ end' = end
    BY <1>3 DEF SizeKnown, shared
  <2>2. CASE Return(w, QUEUE_NO_SPACE)
    <3>1. pc'[w] \in {"idle", "unlock", "fault"}
      BY <1>1, <2>2, Returning DEF QUEUE_NO_SPACE
    <3>2. QED
      BY <3>1 DEF SenderBounds
  <2>3. CASE SendAccepts(w, n) /\ Goto(w, "head") /\ UNCHANGED loc
    <3>1. loc[w].len \in Lens
      BY <1>1 DEF TypeInv, SenderLocals, SendPcs
    <3>2. /\ seen[w] \in Int /\ 0 <= seen[w] /\ seen[w] < L
          /\ begin \in Int /\ 0 <= begin /\ begin < L /\ end \in Slots /\ L \in Nat
          /\ n \in Int /\ -L < n /\ n < 2 * L
          /\ pc[w] = "equal" => n = 0
          /\ pc[w] = "wrapped" => n = seen[w] + L - begin
          /\ pc[w] = "middle" => n = seen[w] - begin
      BY <1>1, <1>3, SizeFromIs
    <3> HIDE DEF n
    <3>3. loc[w].len + HDR <= L - n - EXTRA \/ loc[w].len < L
      BY <2>3, <3>1, <3>2, AcceptsAtMost
    <3>4. loc[w].len \in Nat /\ HDR \in Nat /\ EXTRA \in Nat /\ HDR + EXTRA < L
      BY <3>1, Constants, ShmQueueAssumption
    <3>5. /\ Slot(end, HDR) \in Int /\ Slot(end, HDR) < L
          /\ Slot(end, HDR) = IF end + HDR < L THEN end + HDR ELSE end + HDR - L
      <4>1. HDR \in 0..L
        BY <3>2, <3>4
      <4>2. QED
        BY <3>2, <4>1, SlotIs, SlotRange
    <3>6. end \in Int /\ 0 <= end
      BY <3>2, SlotRange
    <3>7. pc[w] = "middle" => end \in {seen[w], 0}
      BY <1>1 DEF Bounds, SenderBounds
    <3>8. loc[w].len + HDR <= 2 * L /\ loc[w].len + Slot(end, HDR) <= 2 * L
      <4>1. CASE loc[w].len < L
        BY <3>2, <3>4, <3>5, <4>1
      <4>2. CASE loc[w].len + HDR <= L - n - EXTRA /\ n >= 0
        BY <3>2, <3>4, <3>5, <4>2
      <4>3. CASE loc[w].len + HDR <= L - n - EXTRA /\ n < 0
        <5>1. pc[w] = "middle"
          BY <1>3, <3>2, <4>3
        <5>2. Slot(end, HDR) <= end + HDR
          BY <3>2, <3>5, <3>6, <3>4
        <5>3. QED
          BY <3>2, <3>4, <3>5, <3>6, <3>7, <4>3, <5>1, <5>2
      <4>4. QED
        BY <3>2, <3>3, <4>1, <4>2, <4>3
    <3>9. pc'[w] = "head" /\ loc'[w] = loc[w] /\ Slot(end, HDR)' = Slot(end, HDR)
      BY <1>1, <2>1, <2>3 DEF Goto, TypeInv, TypeOK, Slot
    <3>10. QED
      BY <3>8, <3>9 DEF SenderBounds
  <2>4. QED
    BY <2>1, <2>2, <2>3 DEF SendCheck
<1>4. QED
  BY <1>2, <1>3, SecondLoadIs
\* A receiver that keeps the size in an int goes on with a size the indices
\* may really have had.
LEMMA RoomBounded ==
  ASSUME Deployment, IntReceivers, RestartInv, SafeInv, NEW r \in Readers,
         pc[r] \in {"equal", "wrapped", "middle"}, seen[r] # NotLoaded
  PROVE  /\ MaxLength(r, SizeFrom(r)) \in Int
         /\ \/ MaxLength(r, SizeFrom(r)) <= 0
            \/ /\ MaxLength(r, SizeFrom(r)) < IntMod \div 2
               /\ MaxLength(r, SizeFrom(r)) + begin < 2 * L
<1>1. /\ SizeFrom(r) \in Int /\ -L < SizeFrom(r) /\ SizeFrom(r) < 2 * L
      /\ pc[r] = "equal" => SizeFrom(r) = 0
      /\ pc[r] = "wrapped" => SizeFrom(r) = seen[r] + L - begin
      /\ pc[r] = "middle" => SizeFrom(r) = seen[r] - begin
      /\ seen[r] \in Int /\ 0 <= seen[r] /\ seen[r] < L
      /\ begin \in Int /\ 0 <= begin /\ begin < L /\ L \in Nat
  BY SizeFromIs DEF Procs
<1>2. ~(Impl[r] = "cpp" /\ loc[r].op = "get")
  <2>1. r \in Procs /\ r \notin Writers /\ pc[r] \in InCall
    BY ShmQueueAssumption DEF Procs, InCall, InnerPcs, SizePcs
  <2>2. loc[r].op \in Ops
    BY <2>1 DEF SafeInv, Calling
  <2>3. QED
    BY <2>2 DEF IntReceivers
<1>3. MaxLength(r, SizeFrom(r)) = Signed(SizeFrom(r))
  BY <1>2 DEF MaxLength
<1>4. PICK n \in Int : n = SizeFrom(r)
  BY <1>1
<1>5. IntMod \div 2 \in Nat /\ L <= IntMod \div 2 /\ IntMod = 2 * (IntMod \div 2)
  BY Widths
<1>6. Signed(n) = IF n >= IntMod \div 2 THEN n - IntMod
                  ELSE IF n < -(IntMod \div 2) THEN n + IntMod ELSE n
  BY <1>1, <1>4, <1>5, SignedIs
<1>7. n + begin < 2 * L
  BY <1>1, <1>4
<1>8. PICK z \in Int : z = Signed(n)
  BY ConversionType
<1>9. z <= 0 \/ (z = n /\ z < IntMod \div 2)
  BY <1>1, <1>4, <1>5, <1>6, <1>8
<1>10. QED
  BY <1>3, <1>4, <1>7, <1>8, <1>9

LEMMA ResetBounded ==
  ASSUME TypeInv, NEW r \in Readers, ReadSequenceError(r)
  PROVE  ReceiverBounds(r)'
<1>1. CASE Return(r, QUEUE_DATA_SEQUENCE_ERROR)
  BY <1>1, Returning DEF ReceiverBounds, QUEUE_DATA_SEQUENCE_ERROR, Procs
<1>2. CASE loc[r].op # "peek" /\ Goto(r, "reset") /\ UNCHANGED loc
  BY <1>2 DEF Goto, ReceiverBounds, TypeInv, TypeOK, Procs
<1>3. QED
  BY <1>1, <1>2 DEF ReadSequenceError

LEMMA ReceiverBounded ==
  ASSUME Deployment, IntReceivers, RestartInv, SafeInv, NEW r \in Readers, SecondLoad(r)
  PROVE  ReceiverBounds(r)'
<1> USE DEF RestartInv, LockInv
<1>1. r \in Procs /\ r \notin Writers /\ seen[r] # NotLoaded
  BY SecondLoadIs, ShmQueueAssumption DEF Procs
<1>2. CASE Decide(r)
  <2>1. pc'[r] \in {"order", "wrapped", "middle"}
    BY <1>1, <1>2 DEF Decide, Goto, TypeInv, TypeOK
  <2>2. QED
    BY <2>1 DEF ReceiverBounds
<1>3. CASE pc[r] \in {"equal", "wrapped", "middle"} /\ SizeKnown(r, SizeFrom(r))
  <2>1. PICK room \in Int : room = MaxLength(r, SizeFrom(r))
    BY <1>1, <1>3, RoomBounded
  <2>2. room <= 0 \/ (room < IntMod \div 2 /\ room + begin < 2 * L)
    BY <1>1, <1>3, <2>1, RoomBounded
  <2>3. ReadCheck(r, SizeFrom(r)) /\ begin' = begin
    BY <1>1, <1>3 DEF SizeKnown, shared
  <2>4. CASE Return(r, QUEUE_NO_MESSAGE)
    BY <1>1, <2>4, Returning DEF QUEUE_NO_MESSAGE, ReceiverBounds
  <2>5. CASE ReadSequenceError(r)
    BY <2>5, ResetBounded
  <2>6. CASE /\ ~(room <= 0) /\ ~(0 < room /\ room <= HDR)
             /\ Goto(r, "head") /\ loc' = [loc EXCEPT ![r].room = room]
    <3>1. pc'[r] = "head" /\ loc'[r].room = room
      BY <1>1, <2>6 DEF Goto, TypeInv, TypeOK, Locals
    <3>2. HDR < room
      BY <2>6, Constants
    <3>3. QED
      BY <2>2, <2>3, <2>6, <3>1, <3>2 DEF ReceiverBounds
  <2>7. QED
    BY <2>1, <2>3, <2>4, <2>5, <2>6 DEF ReadCheck
<1>4. QED
  BY <1>2, <1>3, SecondLoadIs

LEMMA DecodeBounded ==
  ASSUME Deployment, TypeInv, NEW r \in Readers, pc[r] = "head", ReceiverBounds(r),
         NEW n \in Nat, Decode(r, n), begin' = begin
  PROVE  ReceiverBounds(r)'
<1>1. CASE ReadSequenceError(r)
  BY <1>1, ResetBounded
<1>2. CASE /\ ~LengthIllegal(r, n)
           /\ Goto(r, IF loc[r].op = "del" THEN "publish" ELSE "copy")
           /\ loc' = [loc EXCEPT ![r].len = n, ![r].idx = Slot(begin, HDR)]
  <2>1. pc'[r] \in {"publish", "copy"} /\ loc'[r].len = n /\ loc'[r].idx = Slot(begin, HDR)
    BY <1>2 DEF Goto, TypeInv, TypeOK, Locals, Procs
  <2>2. PICK d \in Int : d = loc[r].room - HDR /\ loc[r].room \in Int
    BY Constants DEF TypeInv, TypeOK, Locals, Procs
  <2>3. /\ 0 < d /\ d < IntMod \div 2 /\ d + HDR + begin < 2 * L
        /\ HDR \in Nat /\ begin \in Int /\ 0 <= begin
    <3>1. HDR \in Nat /\ begin \in Int /\ 0 <= begin /\ L \in Int /\ IntMod \div 2 \in Int
      BY Constants, SlotRange, Widths DEF TypeInv, TypeOK
    <3>2. /\ HDR < loc[r].room /\ loc[r].room < IntMod \div 2
          /\ loc[r].room + begin < 2 * L
      BY DEF ReceiverBounds
    <3>3. QED
      BY <2>2, <3>1, <3>2
  <2>4. Unsigned(d) = d /\ Signed(d) = d
    BY <2>2, <2>3, Widths, Conversions
  <2>5. n <= d
    BY <1>2, <2>2, <2>4 DEF LengthIllegal
  <2>6. Slot(begin, HDR) \in Int /\ Slot(begin, HDR) <= begin + HDR
    <3>1. HDR \in 0..L /\ begin \in Slots /\ L \in Nat
      BY Constants, ShmQueueAssumption DEF TypeInv, TypeOK
    <3>2. QED
      BY <2>3, <3>1, SlotIs, SlotRange
  <2>7. n + Slot(begin, HDR) <= 2 * L
    BY <2>3, <2>5, <2>6, Constants
  <2>8. QED
    BY <2>1, <2>7 DEF ReceiverBounds
<1>3. QED
  BY <1>1, <1>2 DEF Decode
\* What keeps the bounds: the end moves only under the one sender inside, the
\* begin only under the one receiver.
LEMMA BoundsKept ==
  ASSUME Deployment, LockInv, Bounds, NEW p \in Procs, OthersStill(p),
         \A q \in Procs : q # p => seen'[q] = seen[q],
         end' = end \/ (p \in Writers /\ pc[p] \in InnerPcs),
         begin' = begin \/ (p \in Readers /\ pc[p] \in InnerPcs /\ loc[p].op # "peek"),
         p \in Writers => SenderBounds(p)',
         p \in Readers => ReceiverBounds(p)'
  PROVE  Bounds'
<1>1. ASSUME NEW w \in Writers, w # p PROVE SenderBounds(w)'
  <2>1. pc'[w] = pc[w] /\ loc'[w] = loc[w] /\ seen'[w] = seen[w]
    BY <1>1 DEF OthersStill, Procs
  <2>2. pc[w] \in {"wrapped", "middle", "head"} => end' = end
    BY <1>1, SendersAlone DEF OneSender, InnerPcs, SizePcs, CopyPcs, Deployment
  <2>3. QED
    BY <2>1, <2>2 DEF Bounds, SenderBounds, Slot
<1>2. ASSUME NEW r \in Readers, r # p PROVE ReceiverBounds(r)'
  <2>1. pc'[r] = pc[r] /\ loc'[r] = loc[r]
    BY <1>2 DEF OthersStill, Procs
  <2>2. pc[r] = "head" => begin' = begin
    BY <1>2, ReceiversAlone DEF OneReceiver, InnerPcs, SizePcs, CopyPcs, Deployment
  <2>3. QED
    BY <2>1, <2>2 DEF Bounds, ReceiverBounds
<1>3. QED
  BY <1>1, <1>2 DEF Bounds

LEMMA BoundsStart ==
  ASSUME Deployment, LockInv, Bounds, StartBegin \/ StartEnd \/ StartDies
  PROVE  Bounds' /\ UNCHANGED <<pc, loc>>
<1>1. /\ UNCHANGED <<pc, loc, seen>>
      /\ begin' \in {begin, 0} /\ end' \in {end, 0}
  BY DEF StartBegin, StoreBegin, StartEnd, StartDies, vars
<1>2. ASSUME NEW w \in Writers PROVE SenderBounds(w)'
  <2>1. SenderBounds(w) /\ pc'[w] = pc[w] /\ loc'[w] = loc[w] /\ seen'[w] = seen[w]
    BY <1>1 DEF Bounds
  <2>2. HDR \in Int /\ 0 <= HDR /\ HDR < L /\ Slot(0, HDR) = HDR
    BY Constants, ShmQueueAssumption, ModSmall DEF Slot
  <2>3. pc[w] = "head" => loc[w].len + Slot(end', HDR) <= 2 * L
    BY <1>1, <2>1, <2>2 DEF SenderBounds
  <2>4. QED
    BY <1>1, <2>1, <2>3 DEF SenderBounds, Slot
<1>3. ASSUME NEW r \in Readers PROVE ReceiverBounds(r)'
  <2>1. ReceiverBounds(r) /\ pc'[r] = pc[r] /\ loc'[r] = loc[r]
    BY <1>1 DEF Bounds
  <2>2. begin \in Int /\ 0 <= begin /\ loc[r].room \in Int /\ L \in Int
    BY SlotRange DEF LockInv, TypeInv, TypeOK, Locals, Procs
  <2>3. QED
    BY <1>1, <2>1, <2>2 DEF ReceiverBounds
<1>4. QED
  BY <1>1, <1>2, <1>3 DEF Bounds

\* Places at which there is no bound to keep.
LEMMA Unbounded ==
  ASSUME NEW p, pc'[p] \in {"idle", "lock", "equal", "order", "publish", "unlock", "fault"}
  PROVE  SenderBounds(p)' /\ ReceiverBounds(p)'
BY DEF SenderBounds, ReceiverBounds

LEMMA LengthsType ==
  ASSUME TypeInv
  PROVE  LengthsAt(begin) \subseteq Nat
BY Constants DEF TypeInv, TypeOK, LengthsAt, HeaderAt, Cells, Frames

\* The steps of a call keep the bounds of their process.
LEMMA OwnBounds ==
  ASSUME Deployment, LockInv, Bounds, NEW p \in Procs, CallStep(p) \/ ReadAnyHeader(p)
  PROVE  /\ p \in Writers => SenderBounds(p)'
         /\ p \in Readers => ReceiverBounds(p)'
<1> USE DEF LockInv
<1>1. CASE TakeLock(p) \/ Unlock(p) \/ WriteRest(p) \/ ReadRest(p)
  <2>1. pc'[p] \in {"equal", "idle", "fault", "publish"}
    BY <1>1 DEF TakeLock, Unlock, WriteRest, ReadRest, Goto, TypeInv, TypeOK
  <2>2. QED
    BY <2>1, Unbounded
<1>2. CASE Publish(p) \/ Consume(p) \/ Answer(p) \/ ResetBegin(p)
  <2>1. \E x \in Int : Return(p, x)
    BY <1>2 DEF Publish, Consume, Answer, ResetBegin, QUEUE_OK, QUEUE_DATA_SEQUENCE_ERROR,
                TypeInv, TypeOK, Locals
  <2>2. pc'[p] \in {"idle", "unlock", "fault"}
    BY <2>1, Returning
  <2>3. QED
    BY <2>2, Unbounded
<1>3. CASE WriteHeader(p)
  <2>1. /\ p \in Writers /\ p \notin Readers /\ pc[p] = "head"
        /\ pc'[p] = "copy" /\ loc'[p].len = loc[p].len /\ loc'[p].idx = Slot(end, HDR)
    BY <1>3, ShmQueueAssumption DEF WriteHeader, Goto, TypeInv, TypeOK, Locals
  <2>2. QED
    BY <2>1 DEF Bounds, SenderBounds
<1>4. CASE WriteFirst(p) \/ ReadFirst(p)
  <2>1. pc[p] = "copy" /\ pc'[p] \in {"rest", "publish"} /\ loc' = loc
    BY <1>4 DEF WriteFirst, ReadFirst, Goto, TypeInv, TypeOK
  <2>2. QED
    BY <2>1 DEF Bounds, SenderBounds, ReceiverBounds
<1>5. CASE ReadHeader(p) \/ ReadAnyHeader(p)
  <2>1. p \in Readers /\ p \notin Writers /\ pc[p] = "head" /\ begin' = begin
    BY <1>5, ShmQueueAssumption DEF ReadHeader, ReadAnyHeader, shared
  <2>2. \E n \in Nat : Decode(p, n)
    BY <1>5, Constants, LengthsType DEF ReadHeader, ReadAnyHeader
  <2>3. QED
    BY <2>1, <2>2, DecodeBounded DEF Bounds
<1>6. CASE ResetEnd(p) /\ p \in Readers
  <2>1. pc[p] = "reset" /\ pc'[p] = "resetBegin" /\ loc'[p].op = loc[p].op /\ p \notin Writers
    BY <1>6, ShmQueueAssumption DEF ResetEnd, Goto, TypeInv, TypeOK, Locals
  <2>2. QED
    BY <1>6, <2>1 DEF Bounds, ReceiverBounds
<1>7. QED
  BY <1>1, <1>2, <1>3, <1>4, <1>5, <1>6 DEF CallStep, ReadEnd
\* With them the second part of a copy stays inside the array.
LEMMA RestFits ==
  ASSUME TypeInv, Bounds, NEW p \in Procs, pc[p] = "rest"
  PROVE  ~(loc[p].len - FirstPart(p) > L)
<1>1. loc[p].len + loc[p].idx <= 2 * L
  BY DEF Bounds, SenderBounds, ReceiverBounds, Procs
<1>2. loc[p].len \in Int /\ loc[p].idx \in Int /\ L \in Int
  BY FirstPartType, Constants
<1>3. FirstPart(p) = IF loc[p].len < L - loc[p].idx THEN loc[p].len ELSE L - loc[p].idx
  BY DEF FirstPart, Min2
<1>4. L > 0
  BY Constants
<1>5. QED
  BY <1>1, <1>2, <1>3, <1>4

LEMMA SafeCall ==
  ASSUME PeeksLocked, BoundInv, NEW p \in Procs, CallStep(p) \/ ReadAnyHeader(p)
  PROVE  SafeInv'
<1> USE DEF BoundInv, RestartInv, LockInv
<1>1. CASE TakeLock(p) \/ Unlock(p)
  BY <1>1, SafeOutside
<1>2. CASE WriteHeader(p) \/ ReadHeader(p)
  BY <1>2, SafeHeaders
<1>3. CASE ReadAnyHeader(p)
  BY <1>3, SafeDecode DEF ReadAnyHeader
<1>4. CASE WriteFirst(p) \/ ReadFirst(p) \/ WriteRest(p) \/ ReadRest(p)
  <2>1. /\ pc[p] \in InCall /\ \A q \in Procs : loc'[q].op = loc[q].op
        /\ Goto(p, "rest") \/ Goto(p, "publish")
    BY <1>4, RestFits DEF WriteFirst, ReadFirst, WriteRest, ReadRest, InCall, InnerPcs, CopyPcs
  <2>2. QED
    BY <2>1, SafeMove
<1>5. CASE Publish(p) \/ Consume(p) \/ Answer(p) \/ ResetBegin(p)
  BY <1>5, SafeReturn DEF Publish, Consume, Answer, ResetBegin, InCall, InnerPcs, CopyPcs
<1>6. CASE ResetEnd(p)
  <2> DEFINE k == [loc[p] EXCEPT !.idx = end]
  <2>1. k.op = loc[p].op
    BY DEF TypeInv, TypeOK, Locals
  <2>2. loc' = [loc EXCEPT ![p] = k] /\ Goto(p, "resetBegin") /\ pc[p] \in InCall
    BY <1>6 DEF ResetEnd, InCall, InnerPcs
  <2> HIDE DEF k
  <2>3. QED
    BY <2>1, <2>2, SafeMoveWith
<1>7. QED
  BY <1>1, <1>2, <1>3, <1>4, <1>5, <1>6 DEF CallStep, ReadEnd

LEMMA BoundStep ==
  ASSUME Deployment, PeeksLocked, IntReceivers, EXTRA <= HDR,
         BoundInv, [RestartNext]_restartVars
  PROVE  BoundInv'
<1> USE DEF BoundInv, RestartInv, LockInv
<1>1. RestartInv'
  BY RestartInvStep
<1>2. CASE StartBegin \/ StartEnd \/ StartDies
  BY <1>1, <1>2, BoundsStart DEF SafeInv, NoFault, Calling
<1>3. CASE UNCHANGED restartVars
  BY <1>1, <1>3 DEF restartVars, vars, SafeInv, NoFault, Calling, Bounds, SenderBounds,
                    ReceiverBounds, Slot
<1>4. ASSUME NEW p \in Procs, EntryStep(p) \/ Exit(p), \A q \in Procs : q # p => seen'[q] = seen[q]
      PROVE  SafeInv' /\ Bounds'
  <2>1. SafeInv'
    BY <1>4, SafeOutside DEF EntryStep
  <2>2. OthersStill(p) /\ UNCHANGED <<begin, end>>
    BY <1>4, StillOthers DEF EntryStep, Exit, SendMessage, ReadMessage, ReadNull, shared
  <2>3. pc'[p] \in {"idle", "lock", "equal"}
    BY <1>4 DEF EntryStep, Exit, SendMessage, ReadMessage, ReadNull, Goto, TypeInv, TypeOK
  <2>4. QED
    BY <1>4, <2>1, <2>2, <2>3, Unbounded, BoundsKept
<1>5. ASSUME NEW p \in Procs, Load(p) PROVE SafeInv' /\ Bounds'
  <2>1. UNCHANGED <<pc, loc, begin, end>> /\ seen' = [seen EXCEPT ![p] = FirstLoad(p)]
    BY <1>5 DEF Load, vars
  <2>2. p \in Writers => SenderBounds(p)'
    BY <2>1 DEF Bounds, SenderBounds, FirstLoad, Slot
  <2>3. p \in Readers => ReceiverBounds(p)'
    BY <2>1 DEF Bounds, ReceiverBounds
  <2>4. QED
    BY <2>1, <2>2, <2>3, BoundsKept DEF OthersStill, SafeInv, NoFault, Calling
<1>6. ASSUME NEW p \in Procs, SecondLoad(p) PROVE SafeInv' /\ Bounds'
  <2>1. pc[p] \in SizePcs /\ pc[p] \in InCall /\ seen' = [seen EXCEPT ![p] = NotLoaded]
    BY <1>6, SecondLoadIs DEF InCall, InnerPcs
  <2>2. SafeInv'
    <3>1. CASE SizeKnown(p, SizeFrom(p))
      BY <2>1, <3>1, SafeSizeKnown
    <3>2. CASE Decide(p)
      BY <2>1, <3>2, SafeMove DEF Decide
    <3>3. QED
      BY <1>6, <3>1, <3>2, SecondLoadIs
  <2>3. OthersStill(p) /\ UNCHANGED <<begin, end>>
    BY <1>6, SecondLoadIs, StillSize DEF SizeKnown, Decide, shared
  <2>4. QED
    BY <1>6, <2>1, <2>2, <2>3, SenderBounded, ReceiverBounded, BoundsKept
<1>7. ASSUME NEW p \in Procs, CallStep(p) \/ ReadAnyHeader(p), UNCHANGED seen
      PROVE  SafeInv' /\ Bounds'
  <2>1. OthersStill(p)
    BY <1>7, StillOthers, StillSize DEF ReadAnyHeader
  <2>2. end' = end \/ (p \in Writers /\ pc[p] \in InnerPcs)
    BY <1>7 DEF CallStep, ReadAnyHeader, TakeLock, Unlock, WriteHeader, WriteFirst, WriteRest,
                Publish, ReadHeader, ReadFirst, ReadRest, ReadEnd, Consume, Answer, ResetEnd,
                ResetBegin, shared, InnerPcs, CopyPcs
  <2>3. begin' = begin \/ (p \in Readers /\ pc[p] \in InnerPcs /\ loc[p].op # "peek")
    <3>1. pc[p] = "resetBegin" /\ p \in Readers => loc[p].op # "peek"
      BY DEF Bounds, ReceiverBounds
    <3>2. QED
      BY <1>7, <3>1 DEF CallStep, ReadAnyHeader, TakeLock, Unlock, WriteHeader, WriteFirst,
                WriteRest, Publish, ReadHeader, ReadFirst, ReadRest, ReadEnd, Consume, Answer,
                ResetEnd, ResetBegin, shared, InnerPcs, CopyPcs
  <2>4. QED
    BY <1>7, <2>1, <2>2, <2>3, SafeCall, OwnBounds, BoundsKept
<1>8. QED
  BY <1>1, <1>2, <1>3, <1>4, <1>5, <1>6, <1>7, RestartCases

\* No call runs past the end of the segment or through a NULL pointer,
\* whatever indices the creations leave under it.
THEOREM RestartsNeverFault ==
  ASSUME Deployment, PeeksLocked, IntReceivers, EXTRA <= HDR
  PROVE  RestartSpec => []NoFault
<1>1. RestartInit => BoundInv
  <2> SUFFICES ASSUME RestartInit PROVE BoundInv
    OBVIOUS
  <2>1. LockInv /\ SafeInv /\ \A p \in Procs : pc[p] = "idle" /\ seen[p] = NotLoaded
    BY LockInit, SafeInit DEF RestartInit, Init
  <2>2. RestartInv
    BY <2>1 DEF RestartInit, RestartInv
  <2>3. Bounds
    BY <2>1 DEF Bounds, SenderBounds, ReceiverBounds, Procs
  <2>4. QED
    BY <2>1, <2>2, <2>3 DEF BoundInv
<1>2. BoundInv /\ [RestartNext]_restartVars => BoundInv'
  BY BoundStep
<1>3. BoundInv => NoFault
  BY DEF BoundInv, SafeInv
<1>4. QED
  BY <1>1, <1>2, <1>3, PTL DEF RestartSpec
-----------------------------------------------------------------------------
(* The promise of RestartableFifo.  While no creation is under way and the *)
(* ring is sound, DataPart holds as it does in ShmQueue.  The loads that   *)
(* are steps here fit it because an index a process has loaded can only    *)
(* have moved in one direction since.                                      *)

\* A sender's m_iEnd is where it was.  m_iBegin has not met it since it was
\* found elsewhere, and has not gone past the end of the array.
SenderSeen(w) == seen[w] # NotLoaded =>
  /\ pc[w] = "equal" /\ seen[w] = end => begin = end
  /\ pc[w] = "order" /\ seen[w] <= end => begin <= end
  /\ pc[w] \in {"wrapped", "middle"} => seen[w] = end

\* A receiver's m_iBegin is where it was, and the first frame was there when
\* it loaded m_iEnd.
ReceiverSeen(r) == seen[r] # NotLoaded =>
  /\ pc[r] \in {"equal", "order"} => seen[r] = begin
  /\ pc[r] \in {"wrapped", "middle"} => FrameLen(frames[1]) <= Off(begin, seen[r])
  /\ pc[r] = "wrapped" => seen[r] < begin

SeenData ==
  /\ \A w \in Writers : SenderSeen(w)
  /\ \A r \in Readers : ReceiverSeen(r)

SoundInv == DataPart /\ SeenData

RestartDataInv ==
  /\ RestartInv /\ HandsEmpty
  /\ creating = "alone" => begin = 0 /\ \A p \in Procs : pc[p] = "idle"
  /\ creating = "no" /\ ~broken => SoundInv

LEMMA SenderSecond ==
  ASSUME Deployment, RestartInv, SoundInv, NEW w \in Writers, SecondLoad(w)
  PROVE  DataPart'
<1> USE DEF RestartInv, SoundInv
<1>1. DataInv /\ SenderSeen(w) /\ w \in Procs /\ w \notin Readers
  BY ShmQueueAssumption DEF DataInv, SeenData, Procs
<1>2. seen[w] # NotLoaded /\ pc[w] \in SizePcs
  BY SecondLoadIs
<1>3. CASE pc[w] = "equal" /\ seen[w] = end
  <2>1. SizeEqual(w)
    BY <1>1, <1>2, <1>3 DEF SecondLoad, Compare, Subtract, SenderSeen, SizeEqual
  <2>2. QED
    BY <1>1, <2>1, SenderSizes
<1>4. CASE pc[w] \in {"wrapped", "middle"}
  <2>1. SizeWrapped(w) \/ SizeMiddle(w)
    BY <1>1, <1>2, <1>4 DEF SecondLoad, Compare, Subtract, SenderSeen, SizeWrapped, SizeMiddle
  <2>2. QED
    BY <1>1, <2>1, SenderSizes
<1>5. CASE (pc[w] = "equal" /\ seen[w] # end) \/ pc[w] = "order"
  <2>1. Decide(w) /\ (pc[w] = "order" => Goto(w, IF seen[w] > end THEN "wrapped" ELSE "middle"))
        /\ (pc[w] = "equal" => Goto(w, "order"))
    BY <1>5, SecondLoadIs
  <2>2. /\ UNCHANGED <<mem, begin, end, frames, sent, buf, loc, ret>>
        /\ pc'[w] \in {"order", "wrapped", "middle"}
        /\ pc'[w] = "middle" => pc[w] = "order" /\ ~(seen[w] > end)
        /\ \A q \in Procs : q # w => pc'[q] = pc[q]
    BY <1>1, <1>5, <2>1 DEF Decide, Goto, shared, LockInv, TypeInv, TypeOK
  <2>3. seen[w] \in Int /\ end \in Int
    BY <1>1, <1>2, SlotRange DEF LockInv, TypeInv, TypeOK
  <2>4. pc'[w] = "middle" => begin <= end
    BY <1>1, <1>2, <2>2, <2>3 DEF SenderSeen
  <2>5. OthersKeep(w) /\ OthersAnswer(w) /\ AnswerOk(w)
    BY <1>1, <2>2 DEF OthersKeep, OthersAnswer, AnswerOk
  <2>6. loc[w].len > 0
    BY <1>2 DEF DataPart, SenderData, SenderFacts, SendPcs
  <2>7. SenderFacts(w)'
    BY <2>2, <2>4, <2>6 DEF SenderFacts, CopyPcs
  <2>8. QED
    BY <1>1, <2>2, <2>5, <2>7, QuietStep
<1>6. QED
  BY <1>2, <1>3, <1>4, <1>5 DEF SizePcs

LEMMA ReceiverSecond ==
  ASSUME Deployment, RestartInv, SoundInv, NEW r \in Readers, SecondLoad(r)
  PROVE  DataPart'
<1> USE DEF RestartInv, SoundInv
<1>1. DataInv /\ ReceiverSeen(r) /\ r \in Procs /\ r \notin Writers
  BY ShmQueueAssumption DEF DataInv, SeenData, Procs
<1>2. seen[r] # NotLoaded /\ pc[r] \in SizePcs
  BY SecondLoadIs
<1>3. CASE pc[r] \in {"equal", "order"}
  <2>1. SizeEqual(r) \/ SizeOrder(r)
    BY <1>1, <1>2, <1>3 DEF SecondLoad, Compare, Subtract, ReceiverSeen, SizeEqual, SizeOrder
  <2>2. QED
    BY <1>1, <2>1, ReceiverSizes
<1>4. CASE pc[r] \in {"wrapped", "middle"}
  <2>1. frames # << >> /\ FrameLen(frames[1]) <= Off(begin, seen[r])
        /\ (pc[r] = "wrapped" => seen[r] < begin)
    BY <1>1, <1>2, <1>4 DEF ReceiverSeen, DataPart, ReceiverData, ReceiverFacts
  <2>2. /\ SizeKnown(r, SizeFrom(r)) /\ SizeFrom(r) \in Int
        /\ seen[r] \in Int /\ 0 <= seen[r] /\ seen[r] < L
        /\ begin \in Int /\ 0 <= begin /\ begin < L /\ L \in Nat
        /\ pc[r] = "wrapped" => SizeFrom(r) = seen[r] + L - begin
        /\ pc[r] = "middle" => SizeFrom(r) = seen[r] - begin
    BY <1>1, <1>2, <1>4, SecondLoadIs, SizeFromIs DEF Decide
  <2>3. /\ Off(begin, seen[r]) \in Slots
        /\ Off(begin, seen[r]) =
             IF seen[r] >= begin THEN seen[r] - begin ELSE seen[r] - begin + L
    BY <1>1, <1>2, OffIs DEF LockInv, TypeInv, TypeOK
  <2>4. Off(begin, seen[r]) \in Int
    BY <2>3, SlotRange
  <2>5. SizeFrom(r) \in {Off(begin, seen[r]), Off(begin, seen[r]) - L}
    BY <1>4, <2>1, <2>2, <2>3, <2>4
  <2>6. RoomFor(SizeFrom(r))
    BY <2>1, <2>3, <2>5 DEF RoomFor
  <2>7. QED
    BY <1>1, <1>2, <2>2, <2>6, ReceiverLearns
<1>5. QED
  BY <1>2, <1>3, <1>4 DEF SizePcs

\* What a process has loaded stays true while the ring and its place stay.
LEMMA SeenStays ==
  ASSUME SeenData, NEW p \in Procs, UNCHANGED <<begin, end, frames>>,
         \A q \in Procs : q # p => pc'[q] = pc[q] /\ seen'[q] = seen[q],
         seen'[p] = NotLoaded
  PROVE  SeenData'
BY DEF SeenData, SenderSeen, ReceiverSeen, Procs, FrameLen, Off

LEMMA LoadSeen ==
  ASSUME RestartInv, SoundInv, NEW p \in Procs, Load(p)
  PROVE  SoundInv'
<1> USE DEF RestartInv, SoundInv
<1>1. /\ UNCHANGED <<mem, begin, end, frames, pc, loc, buf, sent>>
      /\ pc[p] \in SizePcs /\ seen' = [seen EXCEPT ![p] = FirstLoad(p)]
  BY DEF Load, vars
<1>2. TypeInv /\ Layout /\ DataInv
  BY DEF LockInv, DataPart, DataInv
<1>3. DataPart'
  BY <1>1 DEF DataPart, Layout, UnreadIntact, SenderData, ReceiverData, SenderFacts,
              ReceiverFacts, At, Used, Off, FrameLen, Slot, Written, FirstPart, Min2
<1>4. ASSUME NEW w \in Writers PROVE SenderSeen(w)'
  <2>1. CASE w = p
    BY <1>1, <2>1 DEF SenderSeen, FirstLoad
  <2>2. CASE w # p
    BY <1>1, <2>2 DEF SeenData, SenderSeen, Procs
  <2>3. QED
    BY <2>1, <2>2
<1>5. ASSUME NEW r \in Readers PROVE ReceiverSeen(r)'
  <2>1. CASE r = p
    <3>1. seen'[r] = IF pc[r] \in {"equal", "order"} THEN begin ELSE end
      BY <1>1, <2>1 DEF FirstLoad
    <3>2. pc[r] \in {"wrapped", "middle"} => FrameLen(frames[1]) <= Off(begin, end)
      BY <1>2, FirstFrame DEF DataPart, ReceiverData, ReceiverFacts, Used
    <3>3. pc[r] = "wrapped" => end < begin
      <4>1. begin \in Int /\ end \in Int
        BY <1>2, SlotRange DEF TypeInv, TypeOK
      <4>2. QED
        BY <4>1 DEF DataPart, ReceiverData, ReceiverFacts
    <3>4. QED
      BY <1>1, <3>1, <3>2, <3>3 DEF ReceiverSeen, FrameLen, Off
  <2>2. CASE r # p
    BY <1>1, <2>2 DEF SeenData, ReceiverSeen, Procs, FrameLen, Off
  <2>3. QED
    BY <2>1, <2>2
<1>6. QED
  BY <1>3, <1>4, <1>5 DEF SeenData
\* The steps of a call.  Only Publish and Consume move an index, and neither
\* harms what others have loaded.
LEMMA PublishSeen ==
  ASSUME Deployment, RestartInv, SoundInv, NEW w \in Writers, Publish(w), UNCHANGED seen
  PROVE  SeenData'
<1> USE DEF RestartInv, SoundInv, LockInv
<1>1. /\ w \in Procs /\ w \notin Readers /\ pc[w] = "publish" /\ begin' = begin
      /\ frames' = Append(frames, loc[w].msg) /\ OthersStill(w)
  <2>1. w \in Procs /\ w \notin Readers
    BY ShmQueueAssumption DEF Procs
  <2>2. QED
    BY <2>1, StillOthers DEF Publish, CallStep
<1>2. ASSUME NEW v \in Writers PROVE SenderSeen(v)'
  <2>1. seen[v] = NotLoaded
    BY <1>1, SendersAlone
       DEF OneSender, Deployment, InnerPcs, SizePcs, CopyPcs, Procs
  <2>2. QED
    BY <2>1 DEF SenderSeen
<1>3. ASSUME NEW r \in Readers PROVE ReceiverSeen(r)'
  <2>1. ReceiverSeen(r) /\ r \in Procs /\ r # w
    BY <1>1 DEF SeenData, Procs
  <2>2. pc'[r] = pc[r]
    BY <1>1, <2>1 DEF OthersStill
  <2>3. pc[r] \in {"wrapped", "middle"} => frames'[1] = frames[1]
    <3>1. pc[r] \in {"wrapped", "middle"} => frames # << >>
      BY DEF DataPart, ReceiverData, ReceiverFacts
    <3>2. frames \in Seq(Frames) /\ loc[w].msg \in Frames
      BY <1>1 DEF TypeInv, TypeOK, SenderLocals
    <3>3. QED
      BY <1>1, <3>1, <3>2
  <2>4. QED
    BY <1>1, <2>1, <2>2, <2>3 DEF ReceiverSeen, FrameLen, Off
<1>4. QED
  BY <1>2, <1>3 DEF SeenData

LEMMA ConsumeSeen ==
  ASSUME Deployment, RestartInv, SoundInv, NEW r \in Readers, Consume(r), UNCHANGED seen
  PROVE  SeenData'
<1> USE DEF RestartInv, SoundInv, LockInv
<1>1. /\ r \in Procs /\ r \notin Writers /\ pc[r] = "publish" /\ loc[r].op # "peek"
      /\ end' = end /\ OthersStill(r)
  <2>1. r \in Procs /\ r \notin Writers
    BY ShmQueueAssumption DEF Procs
  <2>2. QED
    BY <2>1, StillOthers DEF Consume, CallStep, ReadEnd
<1>2. frames # << >> /\ (begin <= end => begin' <= end)
  BY ConsumeMoves DEF DataInv
<1>3. begin # end
  BY <1>2, FirstFrame DEF DataPart
<1>4. ASSUME NEW w \in Writers PROVE SenderSeen(w)'
  <2>1. SenderSeen(w) /\ pc'[w] = pc[w]
    BY <1>1 DEF SeenData, OthersStill, Procs
  <2>2. QED
    BY <1>1, <1>2, <1>3, <2>1 DEF SenderSeen
<1>5. ASSUME NEW q \in Readers PROVE ReceiverSeen(q)'
  <2>1. seen[q] = NotLoaded
    BY <1>1, ReceiversAlone
       DEF OneReceiver, Deployment, InnerPcs, SizePcs, CopyPcs, Procs
  <2>2. QED
    BY <2>1 DEF ReceiverSeen
<1>6. QED
  BY <1>4, <1>5 DEF SeenData

LEMMA CallNext ==
  ASSUME NEW p \in Procs, CallStep(p) \/ EntryStep(p) \/ Exit(p)
  PROVE  Next
BY DEF Next, Work, Send, Read, CallStep, EntryStep

LEMMA SoundStep ==
  ASSUME Deployment, RestartInv, SoundInv, NEW p \in Procs,
         \/ UNCHANGED seen /\ (CallStep(p) \/ EntryStep(p))
         \/ seen' = [seen EXCEPT ![p] = NotLoaded] /\ (Exit(p) \/ SecondLoad(p))
         \/ Load(p)
  PROVE  SoundInv'
<1> USE DEF RestartInv, SoundInv, LockInv
<1>1. CASE Load(p)
  BY <1>1, LoadSeen
<1>2. CASE SecondLoad(p)
  <2>1. DataPart'
    BY <1>2, SenderSecond, ReceiverSecond DEF Procs
  <2>2. OthersStill(p) /\ UNCHANGED <<begin, end, frames>>
    BY <1>2, SecondLoadIs, StillSize DEF SizeKnown, Decide, shared
  <2>3. seen' = [seen EXCEPT ![p] = NotLoaded]
    BY <1>2, SecondLoadIs
  <2>4. QED
    BY <2>1, <2>2, <2>3, SeenStays DEF OthersStill
<1>3. CASE UNCHANGED seen /\ (CallStep(p) \/ EntryStep(p))
  <2>1. DataPart'
    BY <1>3, CallNext, DataStep DEF DataInv
  <2>2. CASE Publish(p)
    BY <1>3, <2>1, <2>2, PublishSeen DEF Publish
  <2>3. CASE p \in Readers /\ Consume(p)
    BY <1>3, <2>1, <2>3, ConsumeSeen
  <2>4. CASE ~Publish(p) /\ ~(p \in Readers /\ Consume(p))
    <3>1. p \in Readers => ~ResetEnd(p) /\ ~ResetBegin(p)
      BY DEF ResetEnd, ResetBegin, DataPart, ReceiverData, ReceiverFacts
    <3>2. UNCHANGED <<begin, end, frames>>
      BY <1>3, <2>4, <3>1
         DEF CallStep, EntryStep, SendMessage, ReadMessage, ReadNull, TakeLock, Unlock,
             WriteHeader, WriteFirst, WriteRest, ReadHeader, ReadFirst, ReadRest, ReadEnd,
             Answer, shared
    <3>3. pc[p] \notin SizePcs
      BY <1>3
         DEF CallStep, EntryStep, SendMessage, ReadMessage, ReadNull, TakeLock, Unlock,
             WriteHeader, WriteFirst, WriteRest, Publish, ReadHeader, ReadFirst, ReadRest,
             ReadEnd, Consume, Answer, ResetEnd, ResetBegin, SizePcs
    <3>4. OthersStill(p)
      BY <1>3, StillOthers
    <3>5. QED
      BY <1>3, <2>1, <3>2, <3>3, <3>4, SeenStays DEF OthersStill
  <2>5. QED
    BY <2>2, <2>3, <2>4
<1>4. CASE Exit(p) /\ seen' = [seen EXCEPT ![p] = NotLoaded]
  <2>1. DataPart'
    BY <1>4, CallNext, DataStep DEF DataInv
  <2>2. OthersStill(p) /\ UNCHANGED <<begin, end, frames>>
    BY <1>4, StillOthers DEF Exit, shared
  <2>3. QED
    BY <1>4, <2>1, <2>2, SeenStays DEF OthersStill
<1>5. QED
  BY <1>1, <1>2, <1>3, <1>4

\* A creation that nothing overlapped leaves an empty queue.
LEMMA StartSound ==
  ASSUME Deployment, RestartInv, begin = 0, \A p \in Procs : pc[p] = "idle", StartEnd
  PROVE  SoundInv'
<1>1. /\ begin' = 0 /\ end' = 0 /\ frames' = << >> /\ UNCHANGED <<pc, seen>>
  BY DEF StartEnd
<1>2. \A p \in Procs : pc'[p] = "idle" /\ seen'[p] = NotLoaded
  BY <1>1 DEF RestartInv, SizePcs
<1>3. Layout' /\ UnreadIntact'
  <2>1. EXTRA \in Nat /\ EXTRA <= L /\ 0 \in Slots
    BY Constants, ShmQueueAssumption
  <2>2. Off(0, 0) = 0
    BY <2>1, OffSelf
  <2>3. Used' = 0
    BY <1>1, <2>2 DEF Used, Off
  <2>4. Len(frames') = 0
    BY <1>1
  <2>5. QED
    BY <1>1, <2>1, <2>3, <2>4 DEF Layout, UnreadIntact
<1>4. SenderData' /\ ReceiverData'
  BY <1>2 DEF SenderData, ReceiverData, SenderFacts, ReceiverFacts, SendPcs, SizePcs, CopyPcs, Procs
<1>5. SeenData'
  BY <1>2 DEF SeenData, SenderSeen, ReceiverSeen, Procs
<1>6. QED
  BY <1>3, <1>4, <1>5 DEF SoundInv, DataPart
LEMMA RestartHands ==
  ASSUME RestartInv, HandsEmpty, [RestartNext]_restartVars
  PROVE  HandsEmpty'
<1> USE DEF RestartInv, LockInv
<1>1. CASE StartBegin \/ StartEnd \/ StartDies \/ UNCHANGED restartVars
  BY <1>1 DEF StartBegin, StartEnd, StartDies, restartVars, vars, HandsEmpty
<1>2. ASSUME NEW p \in Procs, CallStep(p) \/ EntryStep(p) \/ Exit(p) PROVE HandsEmpty'
  BY <1>2, CallNext, HandsStep
<1>3. ASSUME NEW p \in Procs, Load(p) PROVE HandsEmpty'
  BY <1>3 DEF Load, vars, HandsEmpty
<1>4. ASSUME NEW p \in Procs, SecondLoad(p) \/ ReadAnyHeader(p) PROVE HandsEmpty'
  <2>1. OthersStill(p) /\ UNCHANGED got /\ pc[p] \in SizePcs \cup CopyPcs
    BY <1>4, SecondLoadIs, StillSize DEF ReadAnyHeader, SizeKnown, Decide, CopyPcs
  <2>2. QED
    BY <2>1, HandsSame DEF OthersStill
<1>5. QED
  BY <1>1, <1>2, <1>3, <1>4, RestartCases

\* While a creation is under way that nothing has overlapped, there are only
\* calls refused for their parameters, and exits.
LEMMA AloneStep ==
  ASSUME \A q \in Procs : pc[q] = "idle", NEW p \in Procs,
         Load(p) \/ SecondLoad(p) \/ ReadAnyHeader(p) \/ CallStep(p)
  PROVE  FALSE
BY SecondLoadIs
   DEF Load, SizePcs, ReadAnyHeader, CallStep, TakeLock, Unlock, WriteHeader, WriteFirst,
       WriteRest, Publish, ReadHeader, ReadFirst, ReadRest, ReadEnd, Consume, Answer, ResetEnd,
       ResetBegin

LEMMA RestartDataStep ==
  ASSUME Deployment, RestartDataInv, [RestartNext]_restartVars
  PROVE  RestartDataInv'
<1> USE DEF RestartDataInv
<1>1. RestartInv' /\ HandsEmpty'
  BY RestartInvStep, RestartHands
<1> DEFINE Alone == creating = "alone" => begin = 0 /\ \A p \in Procs : pc[p] = "idle"
           AfterStart == creating = "no" /\ ~broken => SoundInv
<1>2. CASE StartBegin
  BY <1>1, <1>2 DEF StartBegin, StoreBegin
<1>3. CASE StartEnd
  <2>1. creating' = "no" /\ broken' = (creating = "overlapped") /\ creating # "no"
    BY <1>3 DEF StartEnd
  <2>2. ~broken' => creating = "alone"
    BY <2>1 DEF RestartInv
  <2>3. QED
    BY <1>1, <1>3, <2>1, <2>2, StartSound
<1>4. CASE StartDies
  BY <1>1, <1>4 DEF StartDies
<1>5. CASE UNCHANGED restartVars
  <2>1. /\ UNCHANGED <<creating, broken, seen, begin, pc>>
        /\ UNCHANGED <<mem, end, loc, buf, sent, frames>>
    BY <1>5 DEF restartVars, vars
  <2>2. SoundInv => SoundInv'
    BY <2>1 DEF SoundInv, SeenData, SenderSeen, ReceiverSeen, DataPart, Layout, UnreadIntact,
                SenderData, ReceiverData, SenderFacts, ReceiverFacts, At, Used, Off, FrameLen,
                Slot, Written, FirstPart, Min2
  <2>3. QED
    BY <1>1, <2>1, <2>2
<1>6. ASSUME NEW p \in Procs, EntryStep(p), Overlap, UNCHANGED <<seen, broken>>
      PROVE  Alone' /\ AfterStart'
  <2>1. begin' = begin
    BY <1>6 DEF EntryStep, SendMessage, ReadMessage, ReadNull, shared
  <2>2. creating' = "no" => creating = "no"
    BY <1>6 DEF Overlap
  <2>3. creating' = "alone" => creating = "alone" /\ \A q \in Procs : pc'[q] = "idle"
    BY <1>6 DEF Overlap
  <2>4. AfterStart'
    BY <1>6, <2>2, SoundStep
  <2>5. QED
    BY <2>1, <2>3, <2>4
<1>7. ASSUME NEW p \in Procs, Exit(p), seen' = [seen EXCEPT ![p] = NotLoaded],
             UNCHANGED <<creating, broken>>
      PROVE  Alone' /\ AfterStart'
  <2>1. begin' = begin /\ pc' = [pc EXCEPT ![p] = "idle"]
    BY <1>7 DEF Exit, Goto, shared
  <2>2. Alone'
    BY <1>7, <2>1 DEF RestartInv, LockInv, TypeInv, TypeOK
  <2>3. AfterStart'
    BY <1>7, SoundStep
  <2>4. QED
    BY <2>2, <2>3
<1>8. ASSUME NEW p \in Procs,
             \/ Load(p) \/ SecondLoad(p)
             \/ UNCHANGED seen /\ (ReadAnyHeader(p) \/ CallStep(p)),
             UNCHANGED <<creating, broken>>
      PROVE  Alone' /\ AfterStart'
  <2>1. creating' # "alone"
    BY <1>8, AloneStep
  <2>2. CASE creating' = "no" /\ ~broken'
    <3>1. creating = "no" /\ ~broken /\ ~ReadAnyHeader(p)
      BY <1>8, <2>2 DEF ReadAnyHeader, Sound
    <3>2. SecondLoad(p) => seen' = [seen EXCEPT ![p] = NotLoaded]
      BY SecondLoadIs
    <3>3. SoundInv'
      BY <1>8, <3>1, <3>2, SoundStep
    <3>4. QED
      BY <2>1, <3>3
  <2>3. QED
    BY <2>1, <2>2
<1>9. QED
  BY <1>1, <1>2, <1>3, <1>4, <1>5, <1>6, <1>7, <1>8, RestartCases

-----------------------------------------------------------------------------
(* The steps as those of RestartableFifo.                                  *)

LEMMA SoundWork ==
  ASSUME DataInv, HandsEmpty, [Next]_vars, Phase = "sound", Phase' = "sound"
  PROVE  [Restartable!RestartableNext]_(Restartable!restartableVars)
<1>1. [Fifo!Next]_(Fifo!fifoVars)
  BY FifoStep
<1>2. CASE Fifo!Next
  <2>1. Restartable!Next
    BY <1>2 DEF Fifo!Next, Fifo!Put, Fifo!Take, Fifo!Peek, Fifo!Drop, Fifo!Clear,
                Restartable!Next, Restartable!Put, Restartable!Take, Restartable!Peek,
                Restartable!Drop, Restartable!Clear
  <2>2. QED
    BY <2>1 DEF Restartable!RestartableNext, Restartable!Work
<1>3. CASE UNCHANGED <<frames, got>>
  BY <1>3 DEF Restartable!restartableVars
<1>4. QED
  BY <1>1, <1>2, <1>3 DEF Fifo!fifoVars

LEMMA RestartableStep ==
  ASSUME RestartDataInv, [RestartNext]_restartVars
  PROVE  [Restartable!RestartableNext]_(Restartable!restartableVars)
<1> USE DEF RestartDataInv
<1>1. CASE Phase' = "broken"
  BY <1>1 DEF Restartable!RestartableNext, Restartable!Break
<1>2. CASE Phase' # "broken" /\ StartBegin
  <2>1. creating = "no" /\ ~broken /\ creating' = "alone" /\ broken' = broken
        /\ UNCHANGED <<frames, got>>
    BY <1>2 DEF StartBegin, Phase, Sound
  <2>2. Restartable!Restart
    BY <2>1 DEF Phase, Sound, Restartable!Restart
  <2>3. QED
    BY <2>2 DEF Restartable!RestartableNext
<1>3. CASE Phase' # "broken" /\ StartEnd
  <2>1. creating # "no" /\ creating' = "no" /\ ~broken' /\ frames' = << >> /\ UNCHANGED got
        /\ broken' = (creating = "overlapped")
    BY <1>3 DEF StartEnd, Phase, Sound
  <2>2. creating = "alone"
    BY <2>1 DEF RestartInv
  <2>3. Restartable!Flush
    BY <2>1, <2>2 DEF Phase, Sound, Restartable!Flush
  <2>4. QED
    BY <2>3 DEF Restartable!RestartableNext
<1>4. CASE Phase' # "broken" /\ StartDies
  BY <1>4 DEF StartDies, Phase, Sound
<1>5. CASE UNCHANGED restartVars
  BY <1>5 DEF restartVars, vars, Restartable!restartableVars, Phase, Sound
<1>6. ASSUME NEW p \in Procs, Load(p) \/ SecondLoad(p), UNCHANGED <<creating, broken>>
      PROVE  [Restartable!RestartableNext]_(Restartable!restartableVars)
  <2>1. UNCHANGED <<frames, got>>
    BY <1>6, SecondLoadIs DEF Load, vars, SizeKnown, Decide
  <2>2. QED
    BY <1>6, <2>1 DEF Restartable!restartableVars, Phase, Sound
<1>7. ASSUME NEW p \in Procs, CallStep(p) \/ EntryStep(p) \/ Exit(p), Phase' # "broken",
             broken' = broken, creating' = creating
      PROVE  [Restartable!RestartableNext]_(Restartable!restartableVars)
  <2>1. CASE creating = "no"
    <3>1. Phase = "sound" /\ Phase' = "sound" /\ ~broken
      BY <1>7, <2>1 DEF Phase, Sound
    <3>2. DataInv
      BY <2>1, <3>1 DEF SoundInv, RestartInv, DataInv
    <3>3. QED
      BY <1>7, <3>1, <3>2, CallNext, SoundWork
  <2>2. CASE creating = "alone"
    <3>1. Phase = "restarting" /\ Phase' = "restarting"
      BY <1>7, <2>2 DEF Phase, Sound
    <3>2. ~CallStep(p)
      BY <2>2, AloneStep
    <3>3. ASSUME NEW r \in Readers, got' = [got EXCEPT ![r] = NoMsg], UNCHANGED frames
          PROVE  Restartable!RestartableNext
      BY <3>1, <3>3 DEF Restartable!RestartableNext, Restartable!Refuse, Restartable!Clear
    <3>4. CASE UNCHANGED <<frames, got>>
      BY <3>1, <3>4 DEF Restartable!restartableVars
    <3>5. CASE Exit(p)
      BY <3>3, <3>4, <3>5 DEF Exit
    <3>6. CASE EntryStep(p)
      BY <3>3, <3>4, <3>6 DEF EntryStep, SendMessage, ReadMessage, ReadNull
    <3>7. QED
      BY <1>7, <3>2, <3>5, <3>6
  <2>3. QED
    BY <1>7, <2>1, <2>2 DEF Phase, Sound, RestartInv
<1>8. ASSUME NEW p \in Procs, ReadAnyHeader(p), UNCHANGED <<creating, broken>>
      PROVE  Phase' = "broken"
  BY <1>8 DEF ReadAnyHeader, Phase, Sound
<1>9. ASSUME NEW p \in Procs, EntryStep(p), Overlap, Phase' # "broken"
      PROVE  creating' = creating
  BY <1>9 DEF Overlap, Phase, Sound
<1>10. QED
  BY <1>1, <1>2, <1>3, <1>4, <1>5, <1>6, <1>7, <1>8, <1>9, RestartCases

\* Whatever earlier creations left, one that no call overlaps makes the ring
\* a queue again that hands its messages over whole, once and in order.
THEOREM RestartableImplemented ==
  ASSUME Deployment
  PROVE  RestartSpec => ImplementsRestartableFifo
<1>1. RestartInit => RestartDataInv
  <2> SUFFICES ASSUME RestartInit PROVE RestartDataInv
    OBVIOUS
  <2>1. DataInv /\ HandsEmpty /\ \A p \in Procs : pc[p] = "idle" /\ seen[p] = NotLoaded
    BY DataInit, HandsInit DEF RestartInit, Init
  <2>2. RestartInv
    BY <2>1 DEF RestartInit, RestartInv, DataInv
  <2>3. SeenData
    BY <2>1 DEF SeenData, SenderSeen, ReceiverSeen, Procs
  <2>4. QED
    BY <2>1, <2>2, <2>3 DEF RestartInit, RestartDataInv, SoundInv, DataInv
<1>2. RestartDataInv /\ [RestartNext]_restartVars => RestartDataInv'
  BY RestartDataStep
<1>3. RestartInit => Restartable!RestartableInit
  BY DEF RestartInit, Init, Restartable!RestartableInit, Restartable!Init, Phase, Sound
<1>4. RestartDataInv /\ [RestartNext]_restartVars
        => [Restartable!RestartableNext]_(Restartable!restartableVars)
  BY RestartableStep
<1>5. QED
  BY <1>1, <1>2, <1>3, <1>4, PTL
     DEF RestartSpec, ImplementsRestartableFifo, Restartable!RestartableSpec
=============================================================================
