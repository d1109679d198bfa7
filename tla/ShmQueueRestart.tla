-------------------------- MODULE ShmQueueRestart --------------------------
(***************************************************************************)
(* ShmQueue with programs that start while the queue is in use.  Every     *)
(* run of a sending demonstration program (py-py/write.py,                 *)
(* py-cpp/write.py) calls CreateInstance, which stores zero to m_iBegin    *)
(* and then to m_iEnd of the segment it finds, takes no lock, and asks     *)
(* nobody.  Its other stores write what is there already (the size, key,   *)
(* id and mode of the queue it was started for).                           *)
(*                                                                         *)
(* Both indices may now move under a call, so each load of GetDataSize is  *)
(* a step here.  The order of the loads is the one GCC emits for both      *)
(* programs: comparisons load m_iBegin first, differences m_iEnd.  The     *)
(* index a call then copies from or to (tmpBegin, tmpEnd) is loaded in one *)
(* step with the loop over the header.                                     *)
(***************************************************************************)
EXTENDS ShmQueue

CONSTANTS
  MaxStarts,   \* bound: creations
  MaxDeaths    \* bound: processes that die in a call

ASSUME RestartAssumption == MaxStarts \in Nat /\ MaxDeaths \in Nat

VARIABLES
  seen,      \* the index a process has loaded and not yet used, or NotLoaded
  creating,  \* the program inside CreateInstance: "no" if there is none,
             \* "alone" while no call has overlapped it, or "overlapped"
  broken,    \* history: did the last creation meet a call, or die half-way?
  starts, deaths

NotLoaded == -1

restartVars == <<vars, seen, creating, broken, starts, deaths>>

\* The ring holds nothing but whole frames, as far as the history tells.
Sound == ~broken /\ creating # "overlapped"

-----------------------------------------------------------------------------
(* CreateInstance of the C port on the segment in use.                     *)

\* (Definitions named X_slip_... are plausible slips in X; nothing uses them.)
StoreBegin_slip_keep == UNCHANGED begin

\* m_iBegin = 0
StoreBegin == begin' = 0

StartBegin ==
  /\ creating = "no"
  /\ starts < MaxStarts
  /\ StoreBegin
  /\ creating' = IF \A p \in Procs : pc[p] = "idle" THEN "alone" ELSE "overlapped"
  /\ starts' = starts + 1
  /\ UNCHANGED <<mem, end, locks, pc, loc, buf, ret, sent, frames, got, seen, broken, deaths>>

\* m_iEnd = 0
StartEnd ==
  /\ creating # "no"
  /\ end' = 0
  /\ creating' = "no"
  /\ broken' = (creating = "overlapped")
  /\ frames' = << >>
  /\ UNCHANGED <<mem, begin, locks, pc, loc, buf, ret, sent, got, seen, starts, deaths>>

\* The program dies between the two stores.
StartDies ==
  /\ creating # "no"
  /\ creating' = "no"
  /\ broken' = TRUE
  /\ UNCHANGED <<vars, seen, starts, deaths>>

-----------------------------------------------------------------------------
(* GetDataSize, load by load.                                              *)

FirstLoad(p) == IF pc[p] \in {"equal", "order"} THEN begin ELSE end

\* The first load of a comparison or a difference.
Load(p) ==
  /\ pc[p] \in SizePcs
  /\ seen[p] = NotLoaded
  /\ seen' = [seen EXCEPT ![p] = FirstLoad(p)]
  /\ UNCHANGED vars

\* The second load, and what it decides.
Compare(p) ==
  \/ /\ pc[p] = "equal"
     /\ IF seen[p] = end
          THEN SizeKnown(p, 0)
          ELSE /\ Goto(p, "order")
               /\ UNCHANGED <<shared, locks, loc, ret, sent, frames, got, buf>>
  \/ /\ pc[p] = "order"
     /\ Goto(p, IF seen[p] > end THEN "wrapped" ELSE "middle")
     /\ UNCHANGED <<shared, locks, loc, ret, sent, frames, got, buf>>

Subtract(p) ==
  \/ pc[p] = "wrapped" /\ SizeKnown(p, seen[p] + L - begin)
  \/ pc[p] = "middle" /\ SizeKnown(p, seen[p] - begin)

SecondLoad(p) ==
  /\ seen[p] # NotLoaded
  /\ Compare(p) \/ Subtract(p)
  /\ seen' = [seen EXCEPT ![p] = NotLoaded]

-----------------------------------------------------------------------------
(* The header.  While the ring is not sound its bytes may be of two frames *)
(* at once, one of them still being written, and decode to any length.     *)

ReadAnyHeader(r) ==
  /\ ~Sound
  /\ r \in Readers
  /\ pc[r] = "head"
  /\ \E n \in GarbageLens : Decode(r, n)
  /\ UNCHANGED <<shared, locks, sent, frames, got, buf>>

-----------------------------------------------------------------------------
RestartInit ==
  /\ Init
  /\ seen = [p \in Procs |-> NotLoaded]
  /\ creating = "no"
  /\ broken = FALSE
  /\ starts = 0
  /\ deaths = 0

\* Entering a call while a creation is under way overlaps it.
Overlap ==
  creating' = IF creating = "alone" /\ \E p \in Procs : pc'[p] # "idle"
                THEN "overlapped" ELSE creating

\* The steps outside GetDataSize are those of ShmQueue.
RestartWork(p) ==
  /\ \/ Load(p) \/ SecondLoad(p)
     \/ ReadAnyHeader(p) /\ UNCHANGED seen
     \/ /\ \/ TakeLock(p)
           \/ WriteHeader(p) \/ WriteFirst(p) \/ WriteRest(p) \/ Publish(p)
           \/ Sound /\ ReadHeader(p)
           \/ ReadFirst(p) \/ ReadRest(p) \/ ReadEnd(p)
           \/ Unlock(p)
        /\ UNCHANGED seen
  /\ UNCHANGED <<creating, broken, starts, deaths>>

Die(p) ==
  /\ deaths < MaxDeaths
  /\ Exit(p)
  /\ deaths' = deaths + 1
  /\ seen' = [seen EXCEPT ![p] = NotLoaded]
  /\ UNCHANGED <<creating, broken, starts>>

RestartNext ==
  \/ StartBegin \/ StartEnd \/ StartDies
  \/ (Send \/ Read) /\ Overlap /\ UNCHANGED <<seen, broken, starts, deaths>>
  \/ \E p \in Procs : RestartWork(p) \/ Die(p)

(* A program inside CreateInstance gets on or dies; a process in a call    *)
(* keeps running, as in ShmQueue.  There is no lock in the mode these      *)
(* programs use (ONE_READ_ONE_WRITE), and after MaxStarts creations and    *)
(* MaxDeaths deaths there are no more: liveness is about what the last one *)
(* leaves behind.                                                          *)
RestartFairness ==
  /\ WF_restartVars(StartEnd \/ StartDies)
  /\ \A p \in Procs : WF_restartVars(RestartWork(p))
  /\ \A w \in Writers :
       WF_restartVars(/\ \E n \in Lens : SendMessage(w, n)
                      /\ Overlap /\ UNCHANGED <<seen, broken, starts, deaths>>)
  /\ \A r \in Readers :
       WF_restartVars(/\ \E op \in Ops \ {"peek"} : ReadMessage(r, op)
                      /\ Overlap /\ UNCHANGED <<seen, broken, starts, deaths>>)

RestartSpec == RestartInit /\ [][RestartNext]_restartVars /\ RestartFairness
-----------------------------------------------------------------------------
(* Properties.                                                             *)

Phase ==
  IF ~Sound THEN "broken" ELSE IF creating = "alone" THEN "restarting" ELSE "sound"

Restartable == INSTANCE RestartableFifo
                 WITH Messages <- Frames, queue <- frames, phase <- Phase

\* Whatever earlier starts did to the ring, a start that no call overlaps
\* leaves an empty and working queue: from there on messages come out whole,
\* once and in order until another start disturbs a call.
ImplementsRestartableFifo == Restartable!RestartableSpec

\* After the last start and the last death the ring recovers, whatever
\* indices and bytes they left: the senders get all their messages in and
\* the receivers empty the ring.
Recovers ==
  <>[]((\A w \in Writers : sent[w] = MaxSend) /\ begin = end)
=============================================================================
