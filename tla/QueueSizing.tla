----------------------------- MODULE QueueSizing -----------------------------
(***************************************************************************)
(* How CreateInstance and GetInstance round the size they are given:       *)
(* IsPowerOfTwo, Fls and RoundupPowofTwo, with the int that Fls works in.  *)
(***************************************************************************)
EXTENDS MachineInt

\* The positions of the bits that are set in n.
Bits[n \in Nat] ==
  IF n = 0 THEN {}
  ELSE {k + 1 : k \in Bits[n \div 2]} \cup (IF n % 2 = 1 THEN {0} ELSE {})

\* size & (size - 1) is zero.
IsPowerOfTwo(size) ==
  /\ size >= 1
  /\ Bits[size] \cap Bits[size - 1] = {}

\* How often the loop of Fls halves i before it is 0.
Halvings[i \in Nat] == IF i = 0 THEN 0 ELSE Halvings[i \div 2] + 1

\* size >> 1 is kept in an int.  A negative int shifted right stays negative
\* and the loop goes on for ever.
Spins(size) == size # 0 /\ Signed(size \div 2) < 0

Fls_slip_floor(size) == IF size = 0 THEN 0 ELSE Halvings[Signed(size \div 2)]

\* The number of the highest bit, counted from 1.
Fls(size) == IF size = 0 THEN 0 ELSE Halvings[Signed(size \div 2)] + 1

RoundupPowofTwo(size) == Unsigned(2^Fls(size - 1))

\* The size CreateInstance and GetInstance go on with.
Rounded(n) == IF IsPowerOfTwo(n) THEN n ELSE RoundupPowofTwo(n)

\* Does rounding n end?
Rounds(n) == IsPowerOfTwo(n) \/ ~Spins(n - 1)
=============================================================================
