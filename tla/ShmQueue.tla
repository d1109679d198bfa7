------------------------------ MODULE ShmQueue ------------------------------
(***************************************************************************)
(* The ring buffer of shmmqueue.cpp (class CMessageQueue) and of its C     *)
(* port PyWapper/shmmqueueWapper.c, as the processes attached to one       *)
(* shared memory segment run it: each load of the shared indices, each     *)
(* copy and each store of an index is a step, and steps of different       *)
(* processes interleave.                                                   *)
(*                                                                         *)
(* A frame is a message with its length in front (HDR bytes, the           *)
(* sizeof(MESS_SIZE_TYPE) of the source) and lies in the ring from index   *)
(* pos on.  A cell of mem is one byte of a frame: the frame and the        *)
(* offset in it; offsets below HDR are the length bytes.                   *)
(*                                                                         *)
(* The processors the code is built for (its barriers are x86 code) keep   *)
(* loads and stores of a process in order, so memory is sequentially       *)
(* consistent here.                                                        *)
(***************************************************************************)
EXTENDS MachineInt, Sequences

CONSTANTS
  Writers, Readers,  \* the processes that send, and those that receive
  Impl,              \* "cpp" or "c": the code a process was built from
  Mode,              \* m_eQueueModule of the trunk
  LockPtr,           \* processes whose m_pBeginLock / m_pEndLock is not NULL
  L,                 \* m_iSize
  HDR, EXTRA,        \* sizeof(MESS_SIZE_TYPE) and EXTRA_BYTE
  Lens,              \* the lengths callers pass to SendMessage
  GarbageLens,       \* lengths read from bytes that are no message's header
  Ops,               \* the reading calls in use: "get", "peek", "del"
  MaxSend,           \* bound: messages one writer sends
  NoMsg, Torn        \* no message; bytes that are no message

Procs == Writers \cup Readers

ASSUME ShmQueueAssumption ==
  /\ Writers \cap Readers = {}
  /\ Impl \in [Procs -> {"cpp", "c"}]
  /\ Mode \in {"ONE_READ_ONE_WRITE", "ONE_READ_MUL_WRITE",
               "MUL_READ_ONE_WRITE", "MUL_READ_MUL_WRITE"}
  /\ LockPtr \subseteq Procs
  /\ L \in Nat \ {0} /\ \E k \in 0..L : L = 2^k
  /\ HDR \in Nat \ {0}
  /\ EXTRA \in Nat \ {0}
  /\ HDR + EXTRA < L
  /\ \A n \in Lens : n \in Nat /\ n + HDR < SizeMod
  /\ GarbageLens \subseteq 0..(SizeMod - 1)
  /\ Ops \subseteq {"get", "peek", "del"}
  /\ MaxSend \in Nat

QUEUE_OK == 0
QUEUE_PARAM_ERROR == -1
QUEUE_NO_SPACE == -2
QUEUE_NO_MESSAGE == -3
QUEUE_DATA_SEQUENCE_ERROR == -4

Slots == 0..(L - 1)
Frames == [src : Writers, num : 1..MaxSend, len : Lens, pos : Slots]

ASSUME NoFrame == NoMsg \notin Frames /\ Torn \notin Frames

VARIABLES
  mem,        \* the bytes behind m_pQueueAddr
  begin, end, \* m_iBegin, m_iEnd
  beginLock, endLock,   \* the locks of shmkey + 1 and shmkey + 2
  pc,         \* where a process is in its call
  loc,        \* the locals of its call
  buf,        \* the bytes a reader has copied to its pOutCode
  ret,        \* what its last call returned
  sent,       \* history: messages a writer has published
  frames,     \* history: the published frames not yet taken, oldest first
  got         \* history: what the last call of a reader handed over

shared == <<mem, begin, end>>
locks == <<beginLock, endLock>>
vars == <<mem, begin, end, beginLock, endLock, pc, loc, buf, ret, sent, frames, got>>

BeginLock == INSTANCE RWLock WITH lock <- beginLock
EndLock   == INSTANCE RWLock WITH lock <- endLock

NoBytes == [k \in {} |-> 0]
NoCall == [op |-> "none", len |-> 0, room |-> 0, idx |-> 0,
           msg |-> NoMsg]

Byte(m, k) == [msg |-> m, off |-> k]

-----------------------------------------------------------------------------
(* Index arithmetic.  The source masks with m_iSize - 1; m_iSize is a      *)
(* power of two, so that is the remainder.                                 *)

\* (Definitions named X_slip_... are plausible slips in X; nothing uses them.
\* Replacing X by one must break a property, which the project checks.)
Slot_slip_unmasked(s, k) == s + k

Slot(s, k) == (s + k) % L

\* How far index x lies behind index s, going round.
Off(s, x) == (x - s) % L

Min2(a, b) == IF a < b THEN a ELSE b

IsBeginLock == Mode \in {"MUL_READ_MUL_WRITE", "MUL_READ_ONE_WRITE"}
IsEndLock   == Mode \in {"MUL_READ_MUL_WRITE", "ONE_READ_MUL_WRITE"}

Locks_slip_none(p) == FALSE

\* Does this process take a lock in its calls?
Locks(p) ==
  /\ p \in LockPtr
  /\ IF p \in Writers THEN IsEndLock ELSE IsBeginLock

SharedRead_slip_any(p) == p \in Readers

\* ReadHeadMessage of the C++ class takes the read lock; its C port and
\* every other call take the write lock.
SharedRead(p) == Impl[p] = "cpp" /\ loc[p].op = "peek"

Goto(p, l) == pc' = [pc EXCEPT ![p] = l]

-----------------------------------------------------------------------------
(* Leaving a call.                                                         *)

ReturnPc_slip_keep(p) == "idle"

\* The C++ guards release the lock in their destructors; the guard of
\* ReadHeadMessage releases through its pointer even when no lock was
\* taken and the pointer is NULL.  The C port has no destructor and calls
\* no unlock function: the lock stays taken.
ReturnPc(p) ==
  IF Impl[p] = "c" THEN "idle"
  ELSE IF Locks(p) THEN "unlock"
  ELSE IF SharedRead(p) THEN "fault"
  ELSE "idle"

\* GetMessage of the C++ class returns its int codes as a size_t; all the
\* others return an int.
RetValue(p, x) ==
  IF Impl[p] = "cpp" /\ loc[p].op = "get" THEN Unsigned(x) ELSE Signed(x)

Return(p, x) ==
  /\ Goto(p, ReturnPc(p))
  /\ ret' = [ret EXCEPT ![p] = RetValue(p, x)]
  /\ loc' = [loc EXCEPT ![p] =
               IF ReturnPc(p) = "unlock"
                 THEN [NoCall EXCEPT !.op = loc[p].op] ELSE NoCall]

Unlock(p) ==
  /\ pc[p] = "unlock"
  /\ IF p \in Writers
       THEN EndLock!UnWlock(p) /\ UNCHANGED beginLock
       ELSE /\ IF SharedRead(p) THEN BeginLock!UnRlock(p)
                                ELSE BeginLock!UnWlock(p)
            /\ UNCHANGED endLock
  /\ Goto(p, "idle")
  /\ loc' = [loc EXCEPT ![p] = NoCall]
  /\ UNCHANGED <<shared, ret, sent, frames, got, buf>>

-----------------------------------------------------------------------------
(* Entering a call: parameter checks, then the lock.                       *)

SendMessage(w, n) ==
  /\ pc[w] = "idle"
  /\ sent[w] < MaxSend
  /\ IF n = 0
       THEN /\ ret' = [ret EXCEPT ![w] = QUEUE_PARAM_ERROR]
            /\ UNCHANGED <<pc, loc>>
       ELSE /\ Goto(w, IF Locks(w) THEN "lock" ELSE "equal")
            /\ ret' = [ret EXCEPT ![w] = 0]
            /\ loc' = [loc EXCEPT ![w] = [NoCall EXCEPT !.op = "send", !.len = n]]
  /\ UNCHANGED <<shared, locks, sent, frames, got, buf>>

\* GetMessage ("get"), ReadHeadMessage ("peek"), DeleteHeadMessage ("del").
ReadMessage(r, op) ==
  /\ pc[r] = "idle"
  /\ Goto(r, IF Locks(r) THEN "lock" ELSE "equal")
  /\ ret' = [ret EXCEPT ![r] = 0]
  /\ loc' = [loc EXCEPT ![r] = [NoCall EXCEPT !.op = op]]
  /\ got' = [got EXCEPT ![r] = NoMsg]
  /\ buf' = [buf EXCEPT ![r] = NoBytes]
  /\ UNCHANGED <<shared, locks, sent, frames>>

\* GetMessage or ReadHeadMessage with a NULL buffer.
ReadNull(r, op) ==
  /\ pc[r] = "idle"
  /\ op # "del"
  /\ ret' = [ret EXCEPT ![r] =
               IF Impl[r] = "cpp" /\ op = "get"
                 THEN Unsigned(QUEUE_PARAM_ERROR) ELSE QUEUE_PARAM_ERROR]
  /\ got' = [got EXCEPT ![r] = NoMsg]
  /\ UNCHANGED <<shared, locks, pc, loc, sent, frames, buf>>

TakeLock(p) ==
  /\ pc[p] = "lock"
  /\ IF p \in Writers
       THEN EndLock!Wlock(p) /\ UNCHANGED beginLock
       ELSE /\ IF SharedRead(p) THEN BeginLock!Rlock(p) ELSE BeginLock!Wlock(p)
            /\ UNCHANGED endLock
  /\ Goto(p, "equal")
  /\ UNCHANGED <<shared, loc, ret, sent, frames, got, buf>>

-----------------------------------------------------------------------------
(* What a call does once GetDataSize has answered n.                       *)

\* SendMessage's two space checks.  The C++ class stores the free size in
\* an int before it looks at it, the C port in a size_t.
SendAccepts_c(len, n) ==
  LET size == Unsigned(L - n - EXTRA)
  IN  size > 0 /\ Unsigned(len + HDR) <= size

SendAccepts_slip_brim(len, n) == len + HDR <= L - n

SendAccepts_cpp(len, n) ==
  LET size == Signed(L - n - EXTRA)
  IN  size > 0 /\ Unsigned(len + HDR) <= Unsigned(size)

SendAccepts(w, n) ==
  IF Impl[w] = "cpp" THEN SendAccepts_cpp(loc[w].len, n)
                     ELSE SendAccepts_c(loc[w].len, n)

SendCheck(w, n) ==
  IF SendAccepts(w, n)
    THEN Goto(w, "head") /\ UNCHANGED <<loc, ret>>
    ELSE Return(w, QUEUE_NO_SPACE)

MaxLength_slip_int(r, n) == Signed(n)

MaxLength_slip_size_t(r, n) == Unsigned(n)

\* nTempMaxLength: a size_t in GetMessage of the C++ class, otherwise an int.
MaxLength(r, n) ==
  IF Impl[r] = "cpp" /\ loc[r].op = "get" THEN Unsigned(n) ELSE Signed(n)

ReadSequenceError_slip_report(r) == Return(r, QUEUE_DATA_SEQUENCE_ERROR)

\* Data the reader cannot make sense of: GetMessage and DeleteHeadMessage
\* throw all of it away, ReadHeadMessage only reports it.
ReadSequenceError(r) ==
  IF loc[r].op = "peek"
    THEN Return(r, QUEUE_DATA_SEQUENCE_ERROR)
    ELSE Goto(r, "reset") /\ UNCHANGED <<loc, ret>>

ReadCheck(r, n) ==
  LET room == MaxLength(r, n)
  IN  CASE room <= 0 -> Return(r, QUEUE_NO_MESSAGE)
        [] 0 < room /\ room <= HDR -> ReadSequenceError(r)
        [] OTHER -> /\ Goto(r, "head")
                    /\ loc' = [loc EXCEPT ![r].room = room]
                    /\ UNCHANGED ret

SizeKnown(p, n) ==
  /\ IF p \in Writers THEN SendCheck(p, n) ELSE ReadCheck(p, n)
  /\ UNCHANGED <<shared, locks, sent, frames, got, buf>>

-----------------------------------------------------------------------------
(* GetDataSize loads the volatile indices three times: for the test of     *)
(* equality, for the test of order, and for the difference.  The index the *)
(* caller is about to move is stable meanwhile, the other one is not.      *)

SizeEqual(p) ==
  /\ pc[p] = "equal"
  /\ IF begin = end
       THEN SizeKnown(p, 0)
       ELSE Goto(p, "order") /\ UNCHANGED <<shared, locks, loc, ret, sent, frames, got, buf>>

SizeOrder(p) ==
  /\ pc[p] = "order"
  /\ Goto(p, IF begin > end THEN "wrapped" ELSE "middle")
  /\ UNCHANGED <<shared, locks, loc, ret, sent, frames, got, buf>>

SizeWrapped(p) ==
  /\ pc[p] = "wrapped"
  /\ SizeKnown(p, end + L - begin)

SizeMiddle(p) ==
  /\ pc[p] = "middle"
  /\ SizeKnown(p, end - begin)

-----------------------------------------------------------------------------
(* The rest of SendMessage.                                                *)

\* Bytes from..to-1 of frame m (at most L of them) written from index at on.
Fill(m, from, to, at) ==
  [x \in Slots |-> LET k == from + Off(at, x)
                   IN  IF k < to THEN Byte(m, k) ELSE mem[x]]

FirstPart_slip_short(p) == Min2(loc[p].len, L - loc[p].idx - 1)

\* The bytes that fit between the running index and the end of the array.
FirstPart(p) == Min2(loc[p].len, L - loc[p].idx)

\* The loop that writes the length in front of the message.
WriteHeader(w) ==
  LET m == [src |-> w, num |-> sent[w] + 1, len |-> loc[w].len, pos |-> end]
  IN  /\ w \in Writers
      /\ pc[w] = "head"
      /\ mem' = Fill(m, 0, HDR, end)
      /\ loc' = [loc EXCEPT ![w].msg = m, ![w].idx = Slot(end, HDR)]
      /\ Goto(w, "copy")
      /\ UNCHANGED <<begin, end, locks, ret, sent, frames, got, buf>>

\* The memcpy up to the end of the array.
WriteFirst(w) ==
  /\ w \in Writers
  /\ pc[w] = "copy"
  /\ mem' = Fill(loc[w].msg, HDR, HDR + FirstPart(w), loc[w].idx)
  /\ Goto(w, IF loc[w].len > FirstPart(w) THEN "rest" ELSE "publish")
  /\ UNCHANGED <<begin, end, locks, loc, ret, sent, frames, got, buf>>

\* The memcpy of the rest to the start of the array.  A rest longer than
\* the array runs past the end of the segment.
WriteRest(w) ==
  /\ w \in Writers
  /\ pc[w] = "rest"
  /\ IF loc[w].len - FirstPart(w) > L
       THEN Goto(w, "fault") /\ UNCHANGED mem
       ELSE /\ mem' = Fill(loc[w].msg, HDR + FirstPart(w), HDR + loc[w].len, 0)
            /\ Goto(w, "publish")
  /\ UNCHANGED <<begin, end, locks, loc, ret, sent, frames, got, buf>>

\* The store to m_iEnd makes the frame visible.
Publish(w) ==
  /\ w \in Writers
  /\ pc[w] = "publish"
  /\ end' = Slot(loc[w].idx, loc[w].len)
  /\ sent' = [sent EXCEPT ![w] = @ + 1]
  /\ frames' = Append(frames, loc[w].msg)
  /\ Return(w, QUEUE_OK)
  /\ UNCHANGED <<mem, begin, locks, got, buf>>

-----------------------------------------------------------------------------
(* The rest of GetMessage, ReadHeadMessage and DeleteHeadMessage.          *)

\* The HDR bytes from index b on are the length bytes of one frame.
HeaderAt(b) ==
  /\ mem[b].msg # NoMsg
  /\ \A k \in 0..(HDR - 1) : mem[Slot(b, k)] = Byte(mem[b].msg, k)

\* The lengths that can be decoded there.
LengthsAt(b) == IF HeaderAt(b) THEN {mem[b].msg.len} ELSE GarbageLens

LengthIllegal_slip_strict(r, n) == n >= loc[r].room - HDR

\* usOutLength against what the indices said is there.
LengthIllegal(r, n) ==
  n > (IF Impl[r] = "cpp" /\ loc[r].op = "get"
         THEN Unsigned(loc[r].room - HDR)
         ELSE Unsigned(Signed(loc[r].room - HDR)))

\* What the reader does with the length n it decoded.
Decode(r, n) ==
  IF LengthIllegal(r, n)
    THEN ReadSequenceError(r)
    ELSE /\ Goto(r, IF loc[r].op = "del" THEN "publish" ELSE "copy")
         /\ loc' = [loc EXCEPT ![r].len = n, ![r].idx = Slot(begin, HDR)]
         /\ UNCHANGED ret

ReadHeader(r) ==
  /\ r \in Readers
  /\ pc[r] = "head"
  /\ \E n \in LengthsAt(begin) : Decode(r, n)
  /\ UNCHANGED <<shared, locks, sent, frames, got, buf>>

\* The memcpy up to the end of the array.
ReadFirst(r) ==
  /\ r \in Readers
  /\ pc[r] = "copy"
  /\ buf' = [buf EXCEPT ![r] =
               [k \in 0..(FirstPart(r) - 1) |-> mem[loc[r].idx + k]]]
  /\ Goto(r, IF loc[r].len > FirstPart(r) THEN "rest" ELSE "publish")
  /\ UNCHANGED <<shared, locks, loc, ret, sent, frames, got>>

\* The memcpy of the rest from the start of the array.
ReadRest(r) ==
  /\ r \in Readers
  /\ pc[r] = "rest"
  /\ IF loc[r].len - FirstPart(r) > L
       THEN Goto(r, "fault") /\ UNCHANGED buf
       ELSE /\ buf' = [buf EXCEPT ![r] =
                         [k \in 0..(loc[r].len - 1) |->
                            IF k < FirstPart(r) THEN buf[r][k]
                                                ELSE mem[k - FirstPart(r)]]]
            /\ Goto(r, "publish")
  /\ UNCHANGED <<shared, locks, loc, ret, sent, frames, got>>

\* What the copied bytes are.
Content(r) ==
  LET n == loc[r].len
      m == buf[r][0].msg
  IN  IF /\ n > 0
         /\ m # NoMsg
         /\ n = m.len
         /\ \A k \in 0..(n - 1) : buf[r][k] = Byte(m, HDR + k)
        THEN m ELSE Torn

Rest(s) == IF s = << >> THEN << >> ELSE Tail(s)

\* GetMessage and DeleteHeadMessage store m_iBegin behind the message.
Consume(r) ==
  /\ pc[r] = "publish"
  /\ loc[r].op # "peek"
  /\ begin' = Slot(loc[r].idx, loc[r].len)
  /\ frames' = Rest(frames)
  /\ got' = [got EXCEPT ![r] = IF loc[r].op = "get" THEN Content(r) ELSE NoMsg]
  /\ Return(r, loc[r].len)
  /\ UNCHANGED <<mem, end, locks, sent, buf>>

\* ReadHeadMessage leaves m_iBegin where it is.
Answer(r) ==
  /\ pc[r] = "publish"
  /\ loc[r].op = "peek"
  /\ got' = [got EXCEPT ![r] = Content(r)]
  /\ Return(r, loc[r].len)
  /\ UNCHANGED <<shared, locks, sent, frames, buf>>

\* Recovery from a sequence error, m_iBegin = m_iEnd: the load, which settles
\* what is thrown away, and the store.
ResetEnd(r) ==
  /\ pc[r] = "reset"
  /\ Goto(r, "resetBegin")
  /\ loc' = [loc EXCEPT ![r].idx = end]
  /\ frames' = << >>
  /\ UNCHANGED <<shared, locks, ret, sent, got, buf>>

ResetBegin(r) ==
  /\ pc[r] = "resetBegin"
  /\ begin' = loc[r].idx
  /\ Return(r, QUEUE_DATA_SEQUENCE_ERROR)
  /\ UNCHANGED <<mem, end, locks, sent, frames, got, buf>>

ReadEnd(r) ==
  /\ r \in Readers
  /\ Consume(r) \/ Answer(r) \/ ResetEnd(r) \/ ResetBegin(r)

-----------------------------------------------------------------------------
(* A process dies in a call (or of a fault), or exits while it still holds *)
(* a lock; the kernel undoes its semaphore operations.  Another run of the *)
(* same program attaches to the segment with GetInstance and starts idle.  *)
Exit(p) ==
  /\ pc[p] # "idle" \/ p \in beginLock.w \cup endLock.w
  /\ BeginLock!Undo(p)
  /\ EndLock!Undo(p)
  /\ Goto(p, "idle")
  /\ loc' = [loc EXCEPT ![p] = NoCall]
  /\ ret' = [ret EXCEPT ![p] = 0]
  /\ got' = IF p \in Readers THEN [got EXCEPT ![p] = NoMsg] ELSE got
  /\ UNCHANGED <<shared, sent, frames, buf>>

Init ==
  /\ mem = [x \in Slots |-> Byte(NoMsg, 0)]
  /\ begin = 0
  /\ end = 0
  /\ BeginLock!Init
  /\ EndLock!Init
  /\ pc = [p \in Procs |-> "idle"]
  /\ loc = [p \in Procs |-> NoCall]
  /\ buf = [r \in Readers |-> NoBytes]
  /\ ret = [p \in Procs |-> 0]
  /\ sent = [w \in Writers |-> 0]
  /\ frames = << >>
  /\ got = [r \in Readers |-> NoMsg]

\* The steps of a call once it has been entered.
Work(p) ==
  \/ TakeLock(p)
  \/ SizeEqual(p) \/ SizeOrder(p) \/ SizeWrapped(p) \/ SizeMiddle(p)
  \/ WriteHeader(p) \/ WriteFirst(p) \/ WriteRest(p) \/ Publish(p)
  \/ ReadHeader(p) \/ ReadFirst(p) \/ ReadRest(p) \/ ReadEnd(p)
  \/ Unlock(p)

Send == \E w \in Writers, n \in Lens : SendMessage(w, n)
Read == \E r \in Readers, op \in Ops : ReadMessage(r, op) \/ ReadNull(r, op)

Next ==
  \/ Send
  \/ Read
  \/ \E p \in Procs : Work(p) \/ Exit(p)

Spec == Init /\ [][Next]_vars

-----------------------------------------------------------------------------
(* Scheduling.  A process that is in a call keeps running: its steps do    *)
(* not wait for anybody, except for the lock.  A semop that cannot proceed *)
(* sleeps in the kernel's queue of the semaphore set, and whoever changes  *)
(* the set completes the sleeping operations that have become possible,    *)
(* oldest first, before its own call returns: a lock that keeps becoming   *)
(* free is eventually granted (SF).  That senders go on sending until they *)
(* have sent their messages, and receivers go on polling, is what the      *)
(* deployment does, not the queue.  Nobody dies in these behaviours.       *)

Step(p) == Work(p) /\ ~TakeLock(p)

Fairness ==
  /\ \A p \in Procs : WF_vars(Step(p)) /\ SF_vars(TakeLock(p))
  /\ \A w \in Writers : WF_vars(\E n \in Lens : SendMessage(w, n))
  /\ \A r \in Readers : WF_vars(\E op \in Ops : ReadMessage(r, op))

LiveSpec == Init /\ [][Send \/ Read \/ \E p \in Procs : Work(p)]_vars /\ Fairness

-----------------------------------------------------------------------------
(* Properties.                                                             *)

Cells == [msg : Frames \cup {NoMsg}, off : Nat]

Locals == [op : {"none", "send", "get", "peek", "del"}, len : Nat, room : Nat,
           idx : Slots, msg : Frames \cup {NoMsg}]

LockStates == [w : SUBSET Procs, r : SUBSET Procs]

\* The places of a process inside the region its lock guards, if it has one.
SizePcs == {"equal", "order", "wrapped", "middle"}
CopyPcs == {"head", "copy", "rest", "publish"}
InnerPcs == SizePcs \cup CopyPcs \cup {"reset", "resetBegin", "unlock"}

\* The types of the variables; both indices stay inside the ring.
TypeOK ==
  /\ mem \in [Slots -> Cells]
  /\ begin \in Slots
  /\ end \in Slots
  /\ beginLock \in LockStates
  /\ endLock \in LockStates
  /\ pc \in [Procs -> InnerPcs \cup {"idle", "lock", "fault"}]
  /\ loc \in [Procs -> Locals]
  /\ DOMAIN buf = Readers
  /\ ret \in [Procs -> Int]
  /\ sent \in [Writers -> 0..MaxSend]
  /\ frames \in Seq(Frames)
  /\ got \in [Readers -> Frames \cup {NoMsg, Torn}]

\* The bytes between the indices.
Used == Off(begin, end)

\* At most one process is between taking and releasing the lock of m_iEnd,
\* even when processes die in their calls: SendMessage computes the free
\* size, fills the ring and moves m_iEnd on the strength of that.
OneSender ==
  \A v, w \in Writers : pc[v] \in InnerPcs /\ pc[w] \in InnerPcs => v = w

\* A process that is about to move m_iBegin has the reading side to itself,
\* also against the processes that only look (ReadHeadMessage).
OneReceiver ==
  \A q, r \in Readers :
    pc[q] \in InnerPcs /\ pc[r] \in InnerPcs /\ loc[q].op # "peek" => q = r

\* A frame is only written when it fits into the space that is free at that
\* moment with EXTRA_BYTE to spare: nothing unread is overwritten, and the
\* indices cannot meet on a full ring.  The free size was computed from
\* three loads of an index the receivers move meanwhile.
NoOverwrite ==
  \A w \in Writers :
    pc[w] \in CopyPcs => Used + HDR + loc[w].len + EXTRA <= L

\* The bytes a message takes in the ring, and the index behind them.
FrameLen(m) == HDR + m.len
After(m) == Slot(m.pos, FrameLen(m))

\* The published frames lie back to back from m_iBegin to m_iEnd: the
\* indices always stand on frame boundaries, and equal means empty.
Chained ==
  /\ frames = << >> => begin = end
  /\ frames # << >> => /\ frames[1].pos = begin
                       /\ After(frames[Len(frames)]) = end
                       /\ begin # end
  /\ \A i \in 1..(Len(frames) - 1) : frames[i + 1].pos = After(frames[i])

\* Every byte of every published frame is still in the ring until the
\* frame has been taken.
UnreadIntact ==
  \A i \in 1..Len(frames) : \A k \in 0..(FrameLen(frames[i]) - 1) :
    mem[Slot(frames[i].pos, k)] = Byte(frames[i], k)

\* No receiver ever finds data it cannot make sense of (the branches that
\* return QUEUE_DATA_SEQUENCE_ERROR and throw the content away).
NoSequenceError ==
  \A r \in Readers :
    /\ pc[r] # "reset"
    /\ ret[r] \notin {QUEUE_DATA_SEQUENCE_ERROR, Unsigned(QUEUE_DATA_SEQUENCE_ERROR)}

Fifo == INSTANCE MsgFifo WITH Messages <- Frames, queue <- frames

\* Messages come out whole, once and in order, through races and deaths of
\* senders and receivers: SendMessage takes effect at its store to m_iEnd,
\* GetMessage and DeleteHeadMessage at theirs to m_iBegin.
ImplementsFifo == Fifo!Spec

Returned(p, code) ==
  ret'[p] \in {code, Unsigned(code)} /\ ret[p] \notin {code, Unsigned(code)}

\* QUEUE_NO_MESSAGE is answered only by a call that saw an empty queue.
EmptyTruthful ==
  [][\A r \in Readers : Returned(r, QUEUE_NO_MESSAGE) => begin = end]_vars

\* A call never ends in an access through a NULL lock pointer or beyond the
\* segment, also when the bytes in the ring decode to any length at all: the
\* length is compared with a size that was loaded in pieces and that an int
\* may have turned negative.
NoFault == \A p \in Procs : pc[p] # "fault"

\* Every call returns, whatever the other processes do.
CallsReturn == \A p \in Procs : pc[p] # "idle" ~> pc[p] = "idle"

\* With receivers polling, senders that try again after QUEUE_NO_SPACE get
\* all their messages in, and the receivers get all of them out.
AllDelivered ==
  <>[](/\ \A w \in Writers : sent[w] = MaxSend
       /\ frames = << >>)
=============================================================================
