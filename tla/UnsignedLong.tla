---------------------------- MODULE UnsignedLong ----------------------------
(***************************************************************************)
(* The C type unsigned long of the benchmark counters and of the totals    *)
(* computed from them: 0 .. MaxWord with wrap-around, MaxWord = 2^32 - 1   *)
(* on the 32-bit targets of the suite.                                     *)
(***************************************************************************)
EXTENDS Integers

CONSTANT MaxWord

ASSUME MaxWordAssumption == MaxWord \in Nat /\ MaxWord >= 5

Word == 0 .. MaxWord

\* Mutant: the increment forgets that the word wraps.
IncWithoutWrap(x) == x + 1

Inc(x) == IF x = MaxWord THEN 0 ELSE x + 1

Plus(x, y) == IF x + y > MaxWord THEN x + y - MaxWord - 1 ELSE x + y

\* Mutant: the difference is negative when the word has wrapped.
MinusWithoutWrap(x, y) == x - y

Minus(x, y) == IF x < y THEN x - y + MaxWord + 1 ELSE x - y
=============================================================================
