-------------------------- MODULE ShmRWlockProofs --------------------------
(***************************************************************************)
(* Proofs about ShmRWlock for any number of processes, provided that no    *)
(* process attaches to the set while another one is creating it            *)
(* (Simultaneous = FALSE; without that, exclusion does not hold).          *)
(*                                                                         *)
(* Exclusion is not inductive: a step needs to know that the counters are  *)
(* what the holders put there (Balanced), a death that the kernel's        *)
(* adjustments are the negatives of that (Adjusted), and SETALL that       *)
(* nobody is there yet whose counts it could wipe out (Newborn).           *)
(***************************************************************************)
EXTENDS ShmRWlock, FiniteSetTheorems, TLAPS

Held(p) == [w |-> IF pc[p] = "writing" THEN -1 ELSE 0,
            r |-> IF pc[p] = "reading" THEN -1 ELSE 0]

Adjusted == \A p \in Procs : adj[p] = Held(p)

Newborn ==
  /\ ~exists => \A q \in Procs : pc[q] = "out"
  /\ \A p, q \in Procs : pc[p] = "setall" /\ p # q => pc[q] = "out"

IInv == TypeOK /\ Balanced /\ Exclusion /\ Adjusted /\ Newborn

-----------------------------------------------------------------------------
(* Counting.                                                               *)

\* One more member counts one more.
LEMMA CountUp ==
  ASSUME NEW S \in SUBSET Procs, NEW p \in Procs, p \notin S
  PROVE  Cardinality(S \cup {p}) = Cardinality(S) + 1
<1>1. IsFiniteSet(S)
  BY FS_Subset, ShmRWlockAssumption
<1>2. QED
  BY <1>1, FS_AddElement

\* One member less counts one less, and there was at least one.
LEMMA CountDown ==
  ASSUME NEW S \in SUBSET Procs, NEW p \in S
  PROVE  /\ Cardinality(S \ {p}) = Cardinality(S) - 1
         /\ Cardinality(S) \in Nat
         /\ Cardinality(S) >= 1
<1>1. IsFiniteSet(S)
  BY FS_Subset, ShmRWlockAssumption
<1>2. /\ Cardinality(S \ {p}) = Cardinality(S) - 1
      /\ Cardinality(S) \in Nat
      /\ IsFiniteSet(S \ {p})
  BY <1>1, FS_RemoveElement, FS_CardinalityType
<1>3. Cardinality(S \ {p}) \in Nat
  BY <1>2, FS_CardinalityType
<1>4. QED
  BY <1>2, <1>3

\* Nobody counts zero, and only nobody does.
LEMMA CountZero ==
  ASSUME NEW S \in SUBSET Procs
  PROVE  Cardinality(S) = 0 <=> S = {}
BY FS_Subset, FS_EmptySet, ShmRWlockAssumption

-----------------------------------------------------------------------------
(* The sets of holders before and after a step.                            *)

\* A process that goes from a place outside the lock to another one, or
\* from one to another, changes the sets of holders by itself only.
LEMMA HoldersMove ==
  ASSUME TypeOK, NEW p \in Procs, NEW l \in Places, Goto(p, l)
  PROVE  /\ WritersIn' = IF l = "writing" THEN WritersIn \cup {p} ELSE WritersIn \ {p}
         /\ ReadersIn' = IF l = "reading" THEN ReadersIn \cup {p} ELSE ReadersIn \ {p}
         /\ pc' \in [Procs -> Places]
         /\ pc'[p] = l
         /\ \A q \in Procs : q # p => pc'[q] = pc[q]
BY DEF TypeOK, Goto, WritersIn, ReadersIn

LEMMA InvInit == Init => IInv
<1> SUFFICES ASSUME Init PROVE IInv
  OBVIOUS
<1> USE DEF Init, Zero
<1>1. WritersIn = {} /\ ReadersIn = {}
  BY DEF WritersIn, ReadersIn
<1>2. TypeOK
  <2>1. sem \in [w : Nat, r : Nat]
    OBVIOUS
  <2>2. adj \in [Procs -> [w : Int, r : Int]]
    <3>1. [w |-> 0, r |-> 0] \in [w : Int, r : Int]
      OBVIOUS
    <3>2. QED
      BY <3>1
  <2>3. pc \in [Procs -> Places]
    BY DEF Places
  <2>4. QED
    BY <2>1, <2>2, <2>3 DEF TypeOK
<1>3. Balanced
  BY <1>1, CountZero DEF Balanced
<1>4. Exclusion
  BY <1>1 DEF Exclusion
<1>5. Adjusted
  BY DEF Adjusted, Held
<1>6. Newborn
  BY DEF Newborn
<1>7. QED
  BY <1>2, <1>3, <1>4, <1>5, <1>6 DEF IInv
-----------------------------------------------------------------------------
(* Every step keeps the invariant.                                         *)

\* The counters of a state that satisfies the invariant.
LEMMA Counters ==
  ASSUME IInv
  PROVE  /\ sem = [w |-> sem.w, r |-> sem.r]
         /\ sem.w \in Nat /\ sem.r \in Nat
         /\ sem.w = Cardinality(WritersIn) /\ sem.r = Cardinality(ReadersIn)
         /\ sem.w = 0 <=> WritersIn = {}
         /\ sem.r = 0 <=> ReadersIn = {}
         /\ WritersIn \in SUBSET Procs /\ ReadersIn \in SUBSET Procs
<1>1. WritersIn \in SUBSET Procs /\ ReadersIn \in SUBSET Procs
  BY DEF WritersIn, ReadersIn
<1>2. sem = [w |-> sem.w, r |-> sem.r] /\ sem.w \in Nat /\ sem.r \in Nat
  BY DEF IInv, TypeOK
<1>3. sem.w = Cardinality(WritersIn) /\ sem.r = Cardinality(ReadersIn)
  BY DEF IInv, Balanced
<1>4. QED
  BY <1>1, <1>2, <1>3, CountZero

\* A step of p that leaves every lock alone and goes from one place outside
\* the lock to another.
LEMMA OutsideStep ==
  ASSUME IInv, NEW p \in Procs, NEW l \in Places \ {"reading", "writing"},
         pc[p] \notin {"reading", "writing"}, Goto(p, l), sem' = sem, adj' = adj,
         exists' \in BOOLEAN, Newborn'
  PROVE  IInv'
<1>1. TypeOK
  BY DEF IInv
<1>2. WritersIn' = WritersIn /\ ReadersIn' = ReadersIn
  BY <1>1, HoldersMove DEF WritersIn, ReadersIn
<1>3. /\ pc' \in [Procs -> Places]
      /\ pc'[p] = l
      /\ \A q \in Procs : q # p => pc'[q] = pc[q]
  BY <1>1, HoldersMove
<1>4. TypeOK'
  BY <1>1, <1>3 DEF TypeOK
<1>5. Balanced' /\ Exclusion'
  BY <1>2 DEF IInv, Balanced, Exclusion
<1>6. Adjusted'
  BY <1>3 DEF IInv, Adjusted, Held
<1>7. QED
  BY <1>4, <1>5, <1>6 DEF IInv

\* A step that takes the lock shared: TryRlock, or a sleeping Rlock that the
\* kernel completes.
LEMMA SharedStep ==
  ASSUME IInv, NEW p \in Procs, pc[p] \in {"free", "wantR"}, AcquireR(p)
  PROVE  IInv'
<1> USE DEF AcquireR
<1>1. TypeOK
  BY DEF IInv
<1>2. /\ WritersIn' = WritersIn
      /\ ReadersIn' = ReadersIn \cup {p}
      /\ pc' \in [Procs -> Places]
      /\ pc'[p] = "reading"
      /\ \A q \in Procs : q # p => pc'[q] = pc[q]
      /\ p \notin ReadersIn
  BY <1>1, HoldersMove DEF WritersIn, ReadersIn, Places
<1>3. sem' = [w |-> sem.w, r |-> sem.r + 1]
  BY Counters
<1>4. adj' = [adj EXCEPT ![p] = [w |-> 0, r |-> -1]]
  <2>1. adj[p] = [w |-> 0, r |-> 0]
    BY DEF IInv, Adjusted, Held
  <2>2. adj' = [adj EXCEPT ![p] = [adj[p] EXCEPT !.r = adj[p].r - 1]]
    OBVIOUS
  <2>3. [adj[p] EXCEPT !.r = adj[p].r - 1] = [w |-> 0, r |-> -1]
    BY <2>1
  <2>4. QED
    BY <2>2, <2>3
<1>5. TypeOK'
  <2>1. sem' \in [w : Nat, r : Nat]
    BY <1>3, Counters
  <2>2. adj' \in [Procs -> [w : Int, r : Int]]
    BY <1>1, <1>4 DEF TypeOK
  <2>3. QED
    BY <1>1, <1>2, <2>1, <2>2 DEF TypeOK
<1>6. Balanced'
  BY <1>2, <1>3, Counters, CountUp DEF Balanced
<1>7. Exclusion'
  BY <1>2, Counters DEF IInv, Exclusion
<1>8. Adjusted'
  BY <1>1, <1>2, <1>4 DEF IInv, Adjusted, Held, TypeOK
<1>9. Newborn'
  BY <1>2 DEF IInv, Newborn
<1>10. QED
  BY <1>5, <1>6, <1>7, <1>8, <1>9 DEF IInv

\* A step that takes the lock exclusively: TryWlock or a sleeping Wlock.
LEMMA ExclusiveStep ==
  ASSUME IInv, NEW p \in Procs, pc[p] \in {"free", "wantW"}, AcquireW(p)
  PROVE  IInv'
<1> USE DEF AcquireW
<1>1. TypeOK
  BY DEF IInv
<1>2. /\ WritersIn' = WritersIn \cup {p}
      /\ ReadersIn' = ReadersIn
      /\ pc' \in [Procs -> Places]
      /\ pc'[p] = "writing"
      /\ \A q \in Procs : q # p => pc'[q] = pc[q]
      /\ p \notin WritersIn
  BY <1>1, HoldersMove DEF WritersIn, ReadersIn, Places
<1>3. sem' = [w |-> sem.w + 1, r |-> sem.r]
  BY Counters
<1>4. adj' = [adj EXCEPT ![p] = [w |-> -1, r |-> 0]]
  <2>1. adj[p] = [w |-> 0, r |-> 0]
    BY DEF IInv, Adjusted, Held
  <2>2. adj' = [adj EXCEPT ![p] = [adj[p] EXCEPT !.w = adj[p].w - 1]]
    OBVIOUS
  <2>3. [adj[p] EXCEPT !.w = adj[p].w - 1] = [w |-> -1, r |-> 0]
    BY <2>1
  <2>4. QED
    BY <2>2, <2>3
<1>5. TypeOK'
  <2>1. sem' \in [w : Nat, r : Nat]
    BY <1>3, Counters
  <2>2. adj' \in [Procs -> [w : Int, r : Int]]
    BY <1>1, <1>4 DEF TypeOK
  <2>3. QED
    BY <1>1, <1>2, <2>1, <2>2 DEF TypeOK
<1>6. Balanced'
  BY <1>2, <1>3, Counters, CountUp DEF Balanced
<1>7. Exclusion'
  <2>1. WritersIn = {} /\ ReadersIn = {}
    BY Counters
  <2>2. QED
    BY <1>2, <2>1 DEF Exclusion
<1>8. Adjusted'
  BY <1>1, <1>2, <1>4 DEF IInv, Adjusted, Held, TypeOK
<1>9. Newborn'
  BY <1>2 DEF IInv, Newborn
<1>10. QED
  BY <1>5, <1>6, <1>7, <1>8, <1>9 DEF IInv

\* What the kernel would add to the counters if p died now.
LEMMA Undoing ==
  ASSUME IInv, NEW p \in Procs
  PROVE  /\ p \in WritersIn => adj[p].w = -1
         /\ p \notin WritersIn => adj[p].w = 0
         /\ p \in ReadersIn => adj[p].r = -1
         /\ p \notin ReadersIn => adj[p].r = 0
<1>1. /\ p \in WritersIn <=> pc[p] = "writing"
      /\ p \in ReadersIn <=> pc[p] = "reading"
  BY DEF WritersIn, ReadersIn
<1>2. adj[p] = Held(p)
  BY DEF IInv, Adjusted
<1>3. QED
  BY <1>1, <1>2 DEF Held

\* A step that gives back what p holds, if anything: UnRlock, UnWlock, and
\* the kernel's part of a death, which need not know what p held.
LEMMA LeaveStep ==
  ASSUME IInv, NEW p \in Procs, pc[p] # "out", NEW l \in {"free", "out"}, Goto(p, l),
         pc[p] = "setall" => l = "out",
         sem' = [w |-> sem.w + adj[p].w, r |-> sem.r + adj[p].r],
         adj' = [adj EXCEPT ![p] = Zero],
         UNCHANGED exists
  PROVE  IInv'
<1>1. TypeOK
  BY DEF IInv
<1>2. /\ WritersIn' = WritersIn \ {p}
      /\ ReadersIn' = ReadersIn \ {p}
      /\ pc' \in [Procs -> Places]
      /\ pc'[p] = l
      /\ \A q \in Procs : q # p => pc'[q] = pc[q]
  BY <1>1, HoldersMove DEF WritersIn, ReadersIn, Places
<1>3. ASSUME NEW S \in SUBSET Procs, Cardinality(S) \in Nat, NEW d,
             p \in S => d = -1, p \notin S => d = 0
      PROVE  /\ Cardinality(S) + d = Cardinality(S \ {p})
             /\ Cardinality(S \ {p}) \in Nat
  <2>1. CASE p \in S
    BY <1>3, <2>1, CountDown
  <2>2. CASE p \notin S
    <3>1. S \ {p} = S
      BY <2>2
    <3>2. QED
      BY <1>3, <2>2, <3>1
  <2>3. QED
    BY <2>1, <2>2
<1>4. /\ sem'.w = Cardinality(WritersIn \ {p}) /\ sem'.w \in Nat
      /\ sem'.r = Cardinality(ReadersIn \ {p}) /\ sem'.r \in Nat
  BY <1>3, Undoing, Counters
<1>5. TypeOK'
  <2>1. sem' \in [w : Nat, r : Nat]
    BY <1>4
  <2>2. adj' \in [Procs -> [w : Int, r : Int]]
    BY <1>1 DEF TypeOK, Zero
  <2>3. QED
    BY <1>1, <1>2, <2>1, <2>2 DEF TypeOK
<1>6. Balanced'
  BY <1>2, <1>4 DEF Balanced
<1>7. Exclusion'
  BY <1>2 DEF IInv, Exclusion
<1>8. Adjusted'
  BY <1>1, <1>2 DEF IInv, Adjusted, Held, TypeOK, Zero
<1>9. Newborn'
  BY <1>2 DEF IInv, Newborn
<1>10. QED
  BY <1>5, <1>6, <1>7, <1>8, <1>9 DEF IInv

\* As long as nobody is in, the counters and the adjustments are all zero:
\* creating the set and SETALL then change nothing.
LEMMA Untouched ==
  ASSUME IInv, \A q \in Procs : pc[q] \notin {"reading", "writing"}
  PROVE  sem = Zero /\ adj = [q \in Procs |-> Zero]
<1>1. WritersIn = {} /\ ReadersIn = {}
  BY DEF WritersIn, ReadersIn
<1>2. sem = Zero
  BY <1>1, Counters DEF Zero
<1>3. adj \in [Procs -> [w : Int, r : Int]] /\ \A q \in Procs : adj[q] = Zero
  BY DEF IInv, TypeOK, Adjusted, Held, Zero
<1>4. QED
  BY <1>2, <1>3

LEMMA InvStep ==
  ASSUME Simultaneous = FALSE, IInv, [Next]_vars
  PROVE  IInv'
<1>1. CASE UNCHANGED vars
  BY <1>1 DEF vars, IInv, TypeOK, Balanced, Exclusion, Adjusted, Held, Newborn,
              WritersIn, ReadersIn
<1>2. ASSUME NEW p \in Procs, Create(p)
      PROVE  IInv'
  <2>1. \A q \in Procs : pc[q] = "out"
    BY <1>2 DEF IInv, Newborn, Create
  <2>2. sem' = sem /\ adj' = adj
    BY <1>2, <2>1, Untouched DEF Create
  <2>3. Newborn'
    BY <1>2, <2>1 DEF Create, Goto, Newborn, IInv, TypeOK
  <2>4. QED
    BY <1>2, <2>1, <2>2, <2>3, OutsideStep DEF Create, Places
<1>3. ASSUME NEW p \in Procs, SetAll(p)
      PROVE  IInv'
  <2>1. \A q \in Procs : q # p => pc[q] = "out"
    BY <1>3 DEF IInv, Newborn, SetAll
  <2>2. sem' = sem /\ adj' = adj
    BY <1>3, <2>1, Untouched DEF SetAll
  <2>3. Newborn'
    BY <1>3, <2>1 DEF SetAll, Goto, Newborn, IInv, TypeOK
  <2>4. exists' \in BOOLEAN
    BY <1>3 DEF SetAll, IInv, TypeOK
  <2>5. QED
    BY <1>3, <2>2, <2>3, <2>4, OutsideStep DEF SetAll, Places
<1>4. ASSUME NEW p \in Procs, Attach(p)
      PROVE  IInv'
  <2>1. Newborn'
    BY <1>4 DEF Attach, Goto, Newborn, IInv, TypeOK
  <2>2. exists' \in BOOLEAN
    BY <1>4 DEF Attach, IInv, TypeOK
  <2>3. QED
    BY <1>4, <2>1, <2>2, OutsideStep DEF Attach, Places
<1>5. ASSUME NEW p \in Procs, WantR(p) \/ WantW(p)
      PROVE  IInv'
  <2>1. Newborn'
    BY <1>5 DEF WantR, WantW, Goto, Newborn, IInv, TypeOK
  <2>2. exists' \in BOOLEAN
    BY <1>5 DEF WantR, WantW, IInv, TypeOK
  <2>3. QED
    BY <1>5, <2>1, <2>2, OutsideStep DEF WantR, WantW, Places
<1>6. ASSUME NEW p \in Procs, Rlock(p) \/ TryRlock(p)
      PROVE  IInv'
  BY <1>6, SharedStep DEF Rlock, TryRlock
<1>7. ASSUME NEW p \in Procs, Wlock(p) \/ TryWlock(p)
      PROVE  IInv'
  BY <1>7, ExclusiveStep DEF Wlock, TryWlock
<1>8. ASSUME NEW p \in Procs, UnRlock(p) \/ UnWlock(p)
      PROVE  IInv'
  <2>1. /\ adj[p].w = (IF pc[p] = "writing" THEN -1 ELSE 0)
        /\ adj[p].r = (IF pc[p] = "reading" THEN -1 ELSE 0)
        /\ adj \in [Procs -> [w : Int, r : Int]]
    BY DEF IInv, TypeOK, Adjusted, Held
  <2>2. sem' = [w |-> sem.w + adj[p].w, r |-> sem.r + adj[p].r]
    BY <1>8, <2>1, Counters DEF UnRlock, UnWlock
  <2>3. adj' = [adj EXCEPT ![p] = Zero]
    <3>1. CASE UnRlock(p)
      <4>1. [adj[p] EXCEPT !.r = adj[p].r + 1] = Zero
        BY <2>1, <3>1 DEF UnRlock, Zero
      <4>2. adj' = [adj EXCEPT ![p] = [adj[p] EXCEPT !.r = adj[p].r + 1]]
        BY <3>1 DEF UnRlock
      <4>3. QED
        BY <4>1, <4>2
    <3>2. CASE UnWlock(p)
      <4>1. [adj[p] EXCEPT !.w = adj[p].w + 1] = Zero
        BY <2>1, <3>2 DEF UnWlock, Zero
      <4>2. adj' = [adj EXCEPT ![p] = [adj[p] EXCEPT !.w = adj[p].w + 1]]
        BY <3>2 DEF UnWlock
      <4>3. QED
        BY <4>1, <4>2
    <3>3. QED
      BY <1>8, <3>1, <3>2
  <2>4. QED
    BY <1>8, <2>2, <2>3, LeaveStep DEF UnRlock, UnWlock
<1>9. ASSUME NEW p \in Procs, Exit(p)
      PROVE  IInv'
  <2>2. sem.w + adj[p].w >= 0 /\ sem.r + adj[p].r >= 0
    BY Undoing, Counters, CountDown
  <2>3. sem' = [w |-> sem.w + adj[p].w, r |-> sem.r + adj[p].r]
    BY <1>9, <2>2, Undoing, Counters DEF Exit, AtLeast0
  <2>4. QED
    BY <1>9, <2>3, LeaveStep DEF Exit
<1>10. QED
  BY <1>1, <1>2, <1>3, <1>4, <1>5, <1>6, <1>7, <1>8, <1>9 DEF Next

-----------------------------------------------------------------------------
(* The theorems.                                                           *)

\* The inductive invariant holds in every behaviour in which the process
\* that creates the set is done before another one attaches.
THEOREM Invariance ==
  ASSUME Simultaneous = FALSE
  PROVE  Spec => []IInv
<1>1. Init => IInv
  BY InvInit
<1>2. IInv /\ [Next]_vars => IInv'
  BY InvStep
<1>3. QED
  BY <1>1, <1>2, PTL DEF Spec

\* A process that holds the lock exclusively holds it alone, however many
\* processes there are and wherever they die.
THEOREM MutualExclusion ==
  ASSUME Simultaneous = FALSE
  PROVE  Spec => []Exclusion
<1>1. IInv => Exclusion
  BY DEF IInv
<1>2. QED
  BY <1>1, Invariance, PTL

\* The counters always are the numbers of the processes that hold the lock,
\* so an unlock never blocks and a death leaves nothing behind.
THEOREM CountersBalanced ==
  ASSUME Simultaneous = FALSE
  PROVE  Spec => []Balanced
<1>1. IInv => Balanced
  BY DEF IInv
<1>2. QED
  BY <1>1, Invariance, PTL

-----------------------------------------------------------------------------
(* The semaphores implement the abstract lock.                             *)

held == [w |-> WritersIn, r |-> ReadersIn]

\* Every step of the semaphores is a step of the abstract lock, or changes
\* nothing of it.
LEMMA LockStep ==
  ASSUME Simultaneous = FALSE, IInv, [Next]_vars
  PROVE  [Lock!Next]_held
<1> USE DEF held
<1>1. TypeOK
  BY DEF IInv
<1>2. CASE UNCHANGED vars
  BY <1>2 DEF vars, WritersIn, ReadersIn
<1>3. ASSUME NEW p \in Procs,
             Create(p) \/ SetAll(p) \/ Attach(p) \/ WantR(p) \/ WantW(p)
      PROVE  UNCHANGED held
  <2>1. PICK l \in {"setall", "free", "wantR", "wantW"} :
          Goto(p, l) /\ pc[p] \notin {"reading", "writing"}
    BY <1>3 DEF Create, SetAll, Attach, WantR, WantW
  <2>2. /\ WritersIn' = WritersIn \ {p}
        /\ ReadersIn' = ReadersIn \ {p}
    BY <1>1, <2>1, HoldersMove DEF Places
  <2>3. QED
    BY <2>1, <2>2 DEF WritersIn, ReadersIn
<1>4. ASSUME NEW p \in Procs, Rlock(p) \/ TryRlock(p)
      PROVE  Lock!Rlock(p)
  <2>1. /\ sem.w = 0
        /\ pc[p] \notin {"reading", "writing"}
        /\ Goto(p, "reading")
    BY <1>4 DEF Rlock, TryRlock, AcquireR
  <2>2. WritersIn' = WritersIn \ {p} /\ ReadersIn' = ReadersIn \cup {p}
    BY <1>1, <2>1, HoldersMove DEF Places
  <2>3. WritersIn = {}
    BY <2>1, Counters
  <2>4. QED
    BY <2>2, <2>3 DEF Lock!Rlock
<1>5. ASSUME NEW p \in Procs, Wlock(p) \/ TryWlock(p)
      PROVE  Lock!Wlock(p)
  <2>1. /\ sem.w = 0 /\ sem.r = 0
        /\ pc[p] \notin {"reading", "writing"}
        /\ Goto(p, "writing")
    BY <1>5 DEF Wlock, TryWlock, AcquireW
  <2>2. WritersIn' = WritersIn \cup {p} /\ ReadersIn' = ReadersIn \ {p}
    BY <1>1, <2>1, HoldersMove DEF Places
  <2>3. WritersIn = {} /\ ReadersIn = {}
    BY <2>1, Counters
  <2>4. QED
    BY <2>2, <2>3 DEF Lock!Wlock
<1>6. ASSUME NEW p \in Procs, UnRlock(p)
      PROVE  Lock!UnRlock(p)
  <2>1. WritersIn' = WritersIn \ {p} /\ ReadersIn' = ReadersIn \ {p}
    BY <1>1, <1>6, HoldersMove DEF UnRlock, Places
  <2>2. p \in ReadersIn /\ p \notin WritersIn
    BY <1>6 DEF UnRlock, WritersIn, ReadersIn
  <2>3. QED
    BY <2>1, <2>2 DEF Lock!UnRlock
<1>7. ASSUME NEW p \in Procs, UnWlock(p)
      PROVE  Lock!UnWlock(p)
  <2>1. WritersIn' = WritersIn \ {p} /\ ReadersIn' = ReadersIn \ {p}
    BY <1>1, <1>7, HoldersMove DEF UnWlock, Places
  <2>2. p \in WritersIn /\ p \notin ReadersIn
    BY <1>7 DEF UnWlock, WritersIn, ReadersIn
  <2>3. QED
    BY <2>1, <2>2 DEF Lock!UnWlock
<1>8. ASSUME NEW p \in Procs, Exit(p)
      PROVE  Lock!Undo(p)
  <2>1. WritersIn' = WritersIn \ {p} /\ ReadersIn' = ReadersIn \ {p}
    BY <1>1, <1>8, HoldersMove DEF Exit, Places
  <2>2. QED
    BY <2>1 DEF Lock!Undo
<1>9. QED
  BY <1>2, <1>3, <1>4, <1>5, <1>6, <1>7, <1>8 DEF Next, Lock!Next

\* CShmRWlock is a readers-writer lock: as long as its set is created before
\* it is shared, whatever the processes do is what RWLock allows.
THEOREM LockRefinement ==
  ASSUME Simultaneous = FALSE
  PROVE  Spec => ImplementsRWLock
<1>1. Init => Lock!Init
  BY DEF Init, Lock!Init, Lock!Unlocked, WritersIn, ReadersIn
<1>2. IInv /\ [Next]_vars => [Lock!Next]_held
  BY LockStep
<1>3. QED
  BY <1>1, <1>2, Invariance, PTL DEF Spec, ImplementsRWLock, Lock!Spec, held
=============================================================================
