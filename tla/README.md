# TLA+ for the shared memory message queue

Models, model-checking instances and machine-checked proofs for the
inter-process message queue of this repository: the C++ class in
`shmmqueue.cpp`, its readers-writer lock in `shm_rwlock.cpp`, and their C port
under `PyWapper/` that the Python binding loads.

## The system

| part | code | state | operations |
|---|---|---|---|
| ring buffer | `shmmqueue.cpp` 62-323, C port `PyWapper/shmmqueueWapper.c` 92-341 | the trunk in shared memory (`m_iBegin`, `m_iEnd`, `m_iSize`, `m_eQueueModule`) and the bytes behind it | `SendMessage`, `GetMessage`, `ReadHeadMessage`, `DeleteHeadMessage` |
| readers-writer lock | `shm_rwlock.cpp`, C port `PyWapper/shm_rwlockWapper.c` | a System V semaphore set of two counters and the kernel's undo adjustments | `init`, `Rlock`, `UnRlock`, `TryRlock`, `Wlock`, `UnWlock`, `TryWlock` |
| lock guards | `shm_rwlock.h` 62-121, `shm_rwlockWapper.c` 175-197 | one pointer per call | constructor, `InitLock`, destructor (the C port has no destructor) |
| queue object | `shmmqueue.cpp` 16-60, 325-334, 487-527; C port 9-90, 343-350 | the object's pointers, the trunk's fields | `CreateInstance`, `GetInstance`, constructors, `InitLock`, destructor, `DestroyInstance` |
| segment | `shmmqueue.cpp` 354-457; C port 361-453 | the kernel's table of segments and attachments | `CreateShareMem`, `DestroyShareMem` |
| size rounding | `shmmqueue.cpp` 459-485; C port 454-473 | none | `IsPowerOfTwo`, `Fls`, `RoundupPowofTwo` |
| Python binding | `PyWapper/PyShmqueue.py` | a pointer | `write`, `get`, `GetDataSize`, ... |
| demonstrations | `cpp-cpp`, `py-cpp`, `py-py` | none | one process writes, one reads |

Processes interact only through the segment and the semaphore sets. A sender
moves `m_iEnd` and reads `m_iBegin`; a receiver moves `m_iBegin` and reads
`m_iEnd`. In the `MUL_WRITE` modes senders share the lock of key `shmkey + 2`,
in the `MUL_READ` modes receivers share that of `shmkey + 1`; the two sides never
share a lock. What is hard:

* `GetDataSize` loads the other side's index up to three times without a
  snapshot, and its callers put the result into integers of different width and
  sign (`int` in the C++ `SendMessage`, `size_t` in the C port, and the other way
  round in `GetMessage`);
* a frame is published by one store after up to three writes, and consumed by one
  store after up to three reads; a death may come between any two of them;
* a lock is held by a process that may die; only SEM_UNDO gives it back;
* objects are created and attached by processes that start in any order, and a
  creator that comes back builds its trunk anew on top of the one in use, under
  whatever calls are in flight;
* `CreateShareMem` removes a segment that others have mapped, and `DestroyShareMem`
  the one that has the key by then.

What makes each part correct: the ring is a FIFO of whole messages and never
overwrites unread bytes; its error codes are true; every call returns; the lock
excludes, its counters balance through deaths, and it has no moment at which it
exists but does not work; an attached object sees the size, mode and locks its
creator chose; rounding yields the least power of two that is large enough.

## Modules

| module | what it is |
|---|---|
| `MachineInt` | `size_t` and `int` with their widths as constants |
| `RWLock` | abstract specification of the lock |
| `ShmRWlock` | the lock on semaphores, as coded; implements `RWLock` |
| `MsgFifo` | abstract specification of the queue: put, take, peek, drop |
| `ShmQueue` | the ring buffer, step by step; uses `RWLock` twice; implements `MsgFifo` |
| `MCShmQueue` | definitions for the TLC instances of `ShmQueue` |
| `SemQueue` | `ShmQueue` with `ShmRWlock` twice in place of `RWLock`: the queue on its semaphore sets; implements `ShmQueue` |
| `MCSemQueue` | definitions for the TLC instances of `SemQueue` |
| `RestartableFifo` | `MsgFifo` for a queue that programs create again: flushed by an undisturbed creation, void after a disturbed one until the next |
| `ShmQueueRestart` | `ShmQueue` with creators that store the indices under calls in flight; implements `RestartableFifo` |
| `MCShmQueueRestart` | definitions for the TLC instance of `ShmQueueRestart` |
| `QueueSizing` | the rounding of sizes, with the `int` of `Fls` |
| `ShmSegment` | System V shared memory of one key, as the code uses it |
| `QueueLifecycle` | creating, attaching, destroying and recreating a queue, step by step; uses `ShmSegment` and `QueueSizing` |
| `MCQueueLifecycle` | definitions for the TLC instances of `QueueLifecycle` |
| `ShmRWlockProofs` | proofs about `ShmRWlock` |
| `ShmQueueProofs` | type invariant of `ShmQueue`, exclusion on each side of the queue; arithmetic on the ring, the invariant about its bytes, what a write does to it |
| `ShmQueueDataProofs` | that every step keeps that invariant, and what follows from it |
| `ShmQueueFifoProofs` | that the ring implements `MsgFifo`, and when "no message" is true |
| `ShmQueueRestartProofs` | that a ring which is created again under calls implements `RestartableFifo`, and faults nowhere |
| `SemQueueProofs` | that `SemQueue` implements `ShmQueue`, and so all that is proved of it |
| `QueueSizingProofs` | what the rounding computes, for every size and width; induction over numbers |
| `QueueLifecycleProofs` | rings stay in their segments and are masked with powers of two; what users who agree can rely on |

### ShmQueue and the code

One module covers both implementations; `Impl[p]` says which program a process
runs, so that C++ and C processes can share one queue as in `py-cpp`. Where the
two differ the definition says so: `SendAccepts_cpp` against `SendAccepts_c` (the
type of the free size), `MaxLength` and `LengthIllegal` (the type of the data
size), `SharedRead` (the C port locks `ReadHeadMessage` exclusively), `ReturnPc`
(destructors release, the C port never does) and `RetValue` (`GetMessage` of the
class returns `size_t`).

`pc[p]` follows a call through the function bodies:

    idle -> lock -> equal -> order -> wrapped | middle      GetDataSize, one load each
         -> head -> copy -> rest -> publish -> unlock -> idle

* `SendMessage`, `ReadMessage`, `ReadNull`: parameter checks (lines 64-66,
  117-119, 180-182).
* `TakeLock`, `Unlock`: the guard; `LockPtr` is the set of processes whose object
  has its lock pointers.
* `SizeEqual`, `SizeOrder`, `SizeWrapped`, `SizeMiddle`: the loads of
  `GetDataSize`. The index a caller is about to move is not moved by anyone else,
  so each step stands for the load of the other one. `SendCheck` and `ReadCheck`
  are the early returns that follow.
* `WriteHeader`, `WriteFirst`, `WriteRest`, `Publish`: the header loop, the two
  `memcpy`s and the store to `m_iEnd`.
* `ReadHeader`, `ReadFirst`, `ReadRest`: the header loop with its check and the two
  `memcpy`s.
* `ReadEnd`: how the call ends. `Consume` stores to `m_iBegin`, `Answer` (of
  `ReadHeadMessage`) does not; `ResetEnd` and `ResetBegin` are the load and the store
  of `m_iBegin = m_iEnd` after a sequence error. A sound ring never gets there
  (`NoSequenceError`); the run `restart` does.
* `Exit`: the process dies anywhere in a call, and a new one takes its place.

A cell of `mem` is not a byte value but says which byte of which frame it is: two
different bytes are never confused, and what a receiver copies can be compared
with what was sent. Eight bytes that are not the header of one frame decode to any
length in `GarbageLens`. A copy (`memcpy`, header loop) is one step. That is sound
for the properties here because the bytes a copy touches are, while they hold,
not touched by the other side; where they fail (run `c_overwrite`) the failure is
the first such copy itself, the step that writes over a byte of an unread frame. Memory is sequentially consistent: the code is
built for x86 (`__WRITE_BARRIER__` is x86 assembly), where stores are not
reordered with stores nor loads with loads, and a call never needs its store to
be visible before its own later load.

`SizeKnown` takes a difference as an `int` or a `size_t`, as the caller does. That an
index which is not moved needs no load of its own is no longer so when a creator
stores both: `ShmQueueRestart` has a step for each load of `GetDataSize`.

`sent`, `frames` and `got` are history variables; no guard but the bound of
`SendMessage` (`sent[w] < MaxSend`) reads them.

### ShmRWlock and the code

One atomic action per `semop` (the kernel performs the array of operations
atomically). `Create`/`SetAll`/`Attach` are the two-step `init`. `adj` is the
kernel's per-process undo adjustment; `SetAll` clears it as `semctl(SETALL)` does on
Linux, `Exit` applies it and stops at zero. A blocked `semop` is an action that is
not enabled. `Simultaneous` says whether a process may attach between the
creator's `semget` and its `SETALL`; the runs about what holds say no, `lock_birth` says yes.

### SemQueue and the code

`ShmQueue` uses the abstract `RWLock`; `SemQueue` puts the two sets of the keys
`shmkey + 1` and `shmkey + 2` in its place, each an instance of `ShmRWlock` with the
places of the processes read off their calls (`BeginPlaces`, `EndPlaces`). All
processes are C++ programs of the mode with both locks, since no object of the port
has a working lock (`port_locks`).

* `stage` follows a process through `InitLock`: `down -> setBegin -> half -> setEnd -> up`,
  or past a `set` place when the set is there already (`InitBeginLock`, `InitEndLock`).
* `SemTakeLock`, `SemUnlock`: the `semop`s of the guards; `RingWork` is the rest of a
  call, unchanged.
* `SemExit`: a death in a call or in `InitLock`. The kernel applies the adjustments of
  both sets; the next run of the program starts at `down`.

`beginLock` and `endLock` are then only records of who is inside. `ImplementsShmQueue`
says that with them the whole is a behaviour of `ShmQueue`: each lock lets a call
through exactly when `RWLock` would. `Simultaneous = FALSE` is the deployment in
which the creating program is through `InitLock` before others attach. `lock_birth` is this
module with `Simultaneous = TRUE`: one sender has created the set of `shmkey + 2`, another one
attaches, enters `SendMessage` and takes the write lock, `SETALL` zeroes the counter, and the first one
takes the write lock too.

### ShmQueueRestart and the code

Every run of a Python program that writes (`py-py/write.py`, `py-cpp/write.py`) calls
`CreateInstance`, on the segment that is in use too. `StartBegin` and `StartEnd` are its stores `m_iBegin = 0` and `m_iEnd = 0` (C port
35-36); it may die in between (`StartDies`). Its other stores write what is there
already, for programs that agree on size, key and mode. One creation at a time;
`MaxStarts` and `MaxDeaths` bound creations and deaths in calls.

* `Load` and then `SecondLoad` are the two loads of a comparison or a difference of
  `GetDataSize`, in the order GCC emits at -O2 for both programs: `m_iBegin` first in
  comparisons, `m_iEnd` first in differences. `seen` is the index loaded first; the second
  load decides (`Compare`) or gives the size (`Subtract`).
* The index from which a call then copies (`tmpBegin`, `tmpEnd`, lines 141 and 90) is loaded in one step
  with the loop over the header. Between the two a creation could leave a receiver with the
  index from before it and a length decoded after it. The length has passed the same check against
  the same size, so that the copy stays within the bound that the proof of `RestartsNeverFault`
  states (`BoundInv`), and the ring is one that a call has overlapped in either case.
* `creating` is `alone` while no call has overlapped the creation, else `overlapped`;
  `broken` remembers that the last one was overlapped or died half-way. While the ring is
  not `Sound`, `ReadAnyHeader` decodes a header to any length whatever.

The sender is a C++ program and the receiver a Python one. The other way round there
is nothing to find out: a C sender overwrites unread data without any restart
(`c_overwrite`), and the check of a C++ receiver on a damaged length is against a
`size_t`, which lets it leave the segment (that is the mutant of `NoFault` in this run).

### QueueLifecycle and the code

A process is one run of a program, C++ or Python (`Impl`); it may die anywhere and be
started again. `pc[p]` follows `CreateInstance` and `GetInstance`:

    out -> excl -> get -> touch -> rmid -> again         the shmget calls and IPC_RMID
        -> shmat -> zero -> stores -> beginlock -> endlock -> in      C++, create
        -> shmat -> beginlock -> endlock -> stores -> in              C port, create
        -> shmat -> beginlock -> endlock -> in                        attach
    in -> shmdt -> remove -> pointers -> done            the destructor, DestroyInstance

* `Call`: the rounding (`QueueSizing`); a size for which the loop of `Fls` never ends
  takes the process to `spin`.
* `ShmgetExcl`, `ShmgetAny`, `ShmgetOld`, `RemoveOld`, `ShmgetAgain`, `Shmat`: the paths
  of `CreateShareMem`. A process that gives up (`exit`) is at `failed`.
* `Zero`: `new (m_pQueueAddr) stMemTrunk()` of the class. The trunk has no constructor
  of its own, so the `()` fills it with zeros; GCC at -O2 emits that store over the
  whole trunk, for segments that were found as well.
* `StoreIndices`, `StoreSize`, `StoreMode`: the constructor's stores, in any order
  (`todo`), since all but the indices are plain fields other processes read without
  synchronisation. GCC 12 stores the mode first.
* `InitBeginLock`, `InitEndLock`: the two halves of `InitLock`, by mode and key found in
  the trunk at that moment. A pointer is `unset` (memory of `new` or `malloc`), a `lock`
  of the queue's key, a lock of another key (`alien`: the key was still 0), or, in
  the C port, whatever a write through an unset pointer leaves (`stray`).
* `Delete`, `Shmdt`, `RemoveKeyed`, `FreeLocks`: the destructor with `DestroyShareMem`.

What a user does with an object is `Send` and `Receive`, one step each: `ShmQueue` has the
details. Both indices count as one number of messages and are zeroed in one
store; what the port's two stores do to a call in its middle is in `ShmQueueRestart`. The
link to `ShmQueue`: `LockPtr` of `ShmQueue` is `EveryProc` in a `MUL` mode
of the class because of `ClassHasLocks`.

`made`, `late`, `agreed`, `asked` and `orderly` are history variables, which no guard reads.
`agreed`: all have asked for one (rounded) size that the kernel can provide, and
nobody has destroyed an object. `orderly`: creators came one at a time, and none of
the class to a queue that existed. The demonstrations agree and, unless the
writing program is restarted, are orderly.

### Slips

A definition named `X_slip_...` is a plausible mistake in `X`. Nothing uses it;
substituting it for `X` must break a property, which shows that the property
depends on the code it is about.

## Runs

| run | instance | shows |
|---|---|---|
| `spsc_cpp` | 1 sender, 1 receiver, C++, no locks, L = 8, header 2, spare 2, lengths 0, 1, 2, 4 | no overwrite, frames chained, unread bytes intact, no sequence error, FIFO |
| `mpmc_sem` | 2 senders, 2 receivers, both locks as semaphore sets, from `InitLock` on | one sender, one receiver inside, unread bytes intact, FIFO, all through deaths; the semaphores implement the locks of `ShmQueue`; symmetric in senders and in receivers |
| `live_cpp` | 2 senders, 1 receiver, fairness | calls return, all is delivered, "empty" is true |
| `restart` | a C++ sender, a C receiver, 2 creations, 1 death in a call, L = 4, any garbage length | the receiver never leaves the segment; an undisturbed creation leaves an empty FIFO; after the last creation and death the ring recovers |
| `lock` | 4 processes | exclusion, balance, refinement, readers served |
| `c_overwrite` | C sender, C++ receiver, L = 8, frames of 3 and 6 bytes | violated: a frame of the C port is written over an unread one |
| `peek_fault` | `ReadHeadMessage` without lock | violated: NULL lock pointer |
| `spurious_empty` | `DeleteHeadMessage` against a wrapping sender | violated: "no message" on a queue that has one |
| `lifecycle` | a C++ and a C process, both with restarts, sizes that fit, differ, are too large or make `Fls` spin, destructors | rings stay in their segment; users who agree share one queue, which persists and has its locks; the size stored is the least power of two that holds a size passed |
| `resume` | one C++ creator and its restart | violated: the zeroing of the trunk takes out the message that was queued |
| `port_locks` | one C process in `MUL_READ_MUL_WRITE` | violated: its object has no locks |
| `lock_birth` | 2 senders, 1 receiver on both semaphore sets, starting together | violated: two senders inside `SendMessage` |

### Bounds

`L`, `HDR` and `EXTRA` are scaled: 8 (or 4) bytes of ring, 2 (or 1) for the header and
the spare bytes instead of 8. With a header of 2 it can straddle the end of the
array; with `MaxSend` messages of several lengths every start offset occurs, both
copies wrap, the ring gets exactly full, and `begin` passes the end of the array
more than once. `IntMod` and `SizeMod` are chosen so that the data sizes fit an `int` (as on queues
of up to 2 GiB) while a difference that has gone negative does wrap; in `spsc_cpp` the ring has half as
many bytes as an `int` has values, the largest that `Deployment` (below) allows.
`MaxSend` bounds messages per sender and, with it, the history; calls that fail are
not bounded. `mpmc_sem` and `live_cpp` use one header byte and few lengths, since what
they ask is about processes, not about wrapping: in `mpmc_sem` two frames fit the ring but
not two of the longer ones, so that senders are refused too. Two processes on each side
are the fewest that contend for each lock, and two that share one; a process that
dies and attaches again plays the third. Proofs cover any number.

The runs that expect a violation are as small as shows it. `c_overwrite` needs a ring of 8 bytes on
which a frame stays unread while the one before it, across the end of the array, is taken
between two loads; in 4 bytes only an empty ring can be met there, and nothing is lost. `resume` has one
process, one segment and one message, and no destructor, so that only the next creation can take the message.

In `restart` two creations let one heal what the other has left, or repeat it, and a
death in a call leaves a frame half written under a creation. The ring has 4 bytes,
so that with the indices at any values garbage lengths up to the whole `size_t` (32
values) reach every side of every comparison. More than one
death, or more than two creations, on a ring that has not been healed meanwhile is
beyond the run; a healed one starts from nothing, which is what the run shows.

In `lifecycle` an `int` has 16 values and a `size_t` 64, so that 16 stands for 2^32:
3 and 6 round to 4 and 8, 16 is its own rounding and more than the kernel
provides (`SHMMAX` = 9), 17 makes `Fls` spin. `MaxSegs` = 2 lets a segment be removed,
used on by its old users and replaced; `MaxMsgs` = 1 is a queue that is empty or
not. Two processes suffice there: every branch of `CreateShareMem` depends on what
*one* other process has done since the last system call, and a process that has
died and come back plays a third. Any number is covered by the proofs.

### Fairness

`live_cpp` assumes that a process inside a call keeps running (weak fairness of its
steps) and that the kernel's semaphore queue is served oldest first (strong
fairness of `TakeLock`): whoever changes a Linux semaphore set completes the
sleeping operations that have become possible, in order of arrival. That senders
try again and receivers go on polling is what the deployment does and is stated
as such. No process dies in those behaviours. `restart` assumes the same of its processes
(there are no locks in its mode) and that a program inside `CreateInstance` gets on or
dies; creations and deaths are bounded and not fair, so `Recovers` is about what the
last of them leaves. In `lock` a holder releases or dies.
Fairness for a writer against overlapping readers is not assumed and writers'
progress not claimed: `Rlock` looks only at the writers' counter.

## Proofs

Proved for every value of the constants:

* `ShmRWlockProofs`: `MutualExclusion`, `CountersBalanced`, `LockRefinement`, for any finite set of
  processes and `Simultaneous = FALSE`. The inductive invariant says that the
  counters are the numbers of holders, that each process's adjustment is the
  negative of what it holds, and that nobody holds anything while the set is
  being created; exclusion alone is not inductive, since the guards look at the
  counters and a death at the adjustments.
* `ShmQueueProofs`: `TypeCorrect`. The strengthening (`TypeInv`) says which locals of
  a call are set where: a sender in a call may still send, its frame is a frame
  once the header is written, a receiver's copy has as many cells as its length.
  Then `SendersExclude` and `ReceiversExclude`, for every deployment in
  which a side locks in all its processes or consists of one process. The
  invariant (`LockInv`) ties the place of a process to what it holds: exclusively, or for
  the C++ `ReadHeadMessage` in shared mode.

* `ShmQueueDataProofs`: `NeverOverwrites`, `StaysChained`, `UnreadStaysIntact`, `NeverSequenceError`, and
  `ShmQueueFifoProofs`: `FifoImplemented`, all under `Deployment`: each side locks or has one
  process, the senders are C++ programs, `L` is at most half the values of an
  `int` (rings of up to 2 GiB). Receivers may be C++ or C. The second condition is needed (`c_overwrite`
  is the counterexample to `UnreadStaysIntact` without it), the third is what makes a torn free size come out
  negative. None of the properties is inductive. `DataInv` counts positions
  from `m_iBegin`: the frames follow each other within the used bytes
  (`Layout`); a sender past its check has room behind them and what it has
  written is its frame (`SenderFacts`); a receiver past the test for equality works
  on the first frame, and what it has copied is that frame (`ReceiverFacts`). The
  heart is in two lemmas. `AcceptsMeans`: a sender that saw `begin > end` and then
  loads an index that has wrapped computes at least `L`, and then refuses, so
  that a size it accepts is the true one. `RoomIs`: a receiver's torn size is the
  true one or that minus `L`, which an `int` calls empty and a `size_t` larger than
  every message; it is never a positive number smaller than the first frame.
  `NeverFaults` adds that no call ends in a NULL lock or beyond the segment, if
  `ReadHeadMessage` of the class is kept to modes with a reading lock (`PeeksLocked`;
  `peek_fault` is the counterexample without). `EmptyIsTrue` says that `GetMessage` answers
  "no message" only while the indices are equal, for receivers that are C++ programs and
  only call `GetMessage` (`SizeReceivers`): their size is a `size_t` and never negative, so the
  answer can only come from the test for equality. `spurious_empty` is the counterexample
  for the calls that keep the size in an `int`.

* `ShmQueueRestartProofs`, both theorems under `Deployment` and for any number of creations and deaths.
  `RestartsNeverFault` needs an invariant that survives indices at any value and headers
  of any length (`BoundInv`): what a call has decided to copy, added to the index it copies
  from, is at most `2 * L`, so that the part behind the end of the array fits the array. It
  holds because of how a stale size can come about (`AcceptsAtMost`, `RoomBounded`): a sender
  that has loaded `m_iEnd` sees it where it was or at 0 afterwards, and a receiver's size plus
  the `m_iBegin` it used is less than `2 * L`. The assumptions are `PeeksLocked`; that receivers keep the
  size in an `int` (`IntReceivers`: the class's `GetMessage` does leave the segment, the mutant
  of `NoFault` in run `restart`); and `EXTRA <= HDR` (both are 8 in the code).
  `RestartableImplemented` needs `RestartDataInv`: while no creation is under way and the ring is
  sound, `DataPart` holds, and so does what a process may conclude from the index it has loaded
  (`SenderSeen`, `ReceiverSeen`): the index it is about to move is still there, and the other one
  has only moved away. With that, a second load is a step of `GetDataSize` in `ShmQueue`, or gives a size
  that its lemmas (`SenderLearns`, `ReceiverLearns`) cover. While a creation is `alone` everybody is
  outside and `m_iBegin` is 0, so that its second store leaves an empty ring, whatever was there.

* `SemQueueProofs`: `SemaphoresSuffice`, that the queue on its semaphore sets is a `ShmQueue`, for any
  finite number of processes and `Simultaneous = FALSE`, and `SharedQueueWorks`, that what is
  proved of `ShmQueue` therefore holds of it. A step of `SemQueue` is a step or
  a stutter of three machines: `ShmQueue` and one `ShmRWlock` for each set. Its invariant
  `SemInv` is made of theirs (`TypeInv`, and the `IInv` of `ShmRWlockProofs` for both sets), of
  `Recorded` (the history records agree with the places) and `Unused` (who has not finished
  `InitLock` is in no call). `IInv` turns a `semop` that goes through into the guard of
  `RWLock`, since the counters are the numbers of holders.

* `QueueSizingProofs`: `RoundedIs`, that the three functions together round to the least power of two that
  holds a size, and `RoundedPositive`, that the result is never 0, so that the check for 0 behind it
  never fires. These are about recursive functions (`Bits`, `Halvings`), and the provers have
  neither induction over numbers nor facts about powers. Both come out of the library's theorems on
  finite sets: induction (`NatSet`) from the pigeonhole principle, `2^(n+1) = 2^n + 2^n` (`Pow`)
  from the number of subsets. From them follow strong induction, that a function defined by
  halving exists and is unique (`HalvingFunction`), so that the definitions describe what they
  seem to, that `Halvings` gives the number of the highest bit (`HalvingsBound`), and that
  only powers of two share no bit with the number before them (`PowersOfTwo`).

* `QueueLifecycleProofs`: `LifecycleTypes`, `RingStaysInSegment`, `SizesRoundUp`, `UsersShareSegment`,
  `QueueOutlivesUsers`, `ObjectsHaveLocks`, for any number of processes of either program. Nothing is
  assumed beyond `LifecycleAssumption` and `MachineAssumption`, except in `SizesRoundUp`: there sizes are at most `2 * IntMod`
  (2^33 on the build; of those above 2^32 all but 2^33 make `Fls` spin). Above that `Fls` works on a
  truncated size and `RoundsUp` is false. `SizesInv` says that the sizes in trunks, and those
  objects ask for, come from the rounding. `RingInSegment` is not inductive, since nothing in
  the trunk says what a creator is about to store there: `RingInv` follows a creator
  from the `shmget` that succeeded to the store of `m_iSize` and says that its segment,
  as long as it exists, is large enough for it, whoever removes it from under
  the key meanwhile. `AgreedInv` says that while users agree no process is on a path
  that removes anything, that the one segment there ever was has the key, and
  that everybody is attached to it; and while creators are orderly, that at most
  one is at work, that a class creator's trunk has what is no longer in its `todo`, and
  that an object past `InitBeginLock` or `InitEndLock` has the pointer that goes with the mode.

Model-checked only: all liveness (`CallsReturn`, `AllDelivered`, `Recovers`,
`ReadersServed`), which is out of the prover's reach. The runs that expect a violation have nothing to
prove; the theorems about the same properties name the assumption that the run breaks.

## Not modelled, and the plan

What is left, in this order:

1. The class's creator under calls in flight: `Zero` also makes `m_iSize` 0 for a moment, so that
   a sender's mask becomes `SIZE_MAX`. `ShmQueueRestart` has the port's creator only,
   which stores the size that is there; for the class's the size would have to be
   a variable of `ShmQueue`.
2. Rings at the limits: `m_iSize` of `EXTRA_BYTE` and less in the C port, sizes above 2 GiB
   in either, where `Deployment` does not hold.
3. The port's guards on a real lock: `CSafeShmWlock` is never released there; with
   locks in place its second call would wait for ever. Today no object of the
   port has one (`port_locks`).
4. Failures of `semop` (the class throws, the port returns) and two programs at a time inside
   `CreateInstance` with calls in flight.
5. Proofs about what 1 to 4 add.

`CShmRWlock` takes any semaphore set of its key; keys that collide with those of
another queue are not modelled. The error codes of `GetMessage`, negative numbers
returned through `size_t`, are in `RetValue`, with no property about them.

Left out for good: the Python binding's marshalling (its buffer of 100 bytes is listed as a
hazard), `PrintTrunk`, the
demonstrations' straight-line code, build files, errors of the system calls other
than those the code distinguishes, and memory models weaker than x86.
