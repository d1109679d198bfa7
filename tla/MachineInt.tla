----------------------------- MODULE MachineInt -----------------------------
(***************************************************************************)
(* The two integer types the queue moves its byte counts through: size_t   *)
(* (unsigned, SizeMod values) and int (signed, IntMod values).  On the     *)
(* build the repository ships for they are 2^64 and 2^32; a model picks    *)
(* small powers of two.  Because every operation on a size_t is exact      *)
(* modulo SizeMod and IntMod divides SizeMod, a chain of additions and     *)
(* subtractions may be carried out on mathematical integers and converted  *)
(* once, where the program stores or compares the result.                  *)
(***************************************************************************)
EXTENDS Integers

CONSTANTS
  IntMod,   \* the number of values of an int
  SizeMod   \* the number of values of a size_t

ASSUME MachineAssumption ==
  /\ IntMod \in Nat \ {0}
  /\ SizeMod \in Nat \ {0}
  /\ IntMod % 2 = 0
  /\ SizeMod % IntMod = 0
  /\ IntMod < SizeMod

\* The value a size_t holds after the integer x was computed into it.
Unsigned(x) == x % SizeMod

\* The value an int holds after the integer x was computed into it.
Signed(x) ==
  LET u == x % IntMod
  IN  IF u < IntMod \div 2 THEN u ELSE u - IntMod
=============================================================================
