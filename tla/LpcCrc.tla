------------------------------- MODULE LpcCrc -------------------------------
(***************************************************************************)
(* The checksum of a frame, UpdateCrc of Shared/src/LpcProtocol.cpp, and   *)
(* the polynomial division that it is a short way of doing.                *)
(***************************************************************************)
EXTENDS Naturals, Bitwise

\* One round of the loop: the register moves up one bit, in eight bits.
Shift(c) == IF c >= 128 THEN ((2 * c) % 256) ^^ 7 ELSE 2 * c

\* Mutant of Shifted: the loop ends one bit early.
ShiftedOnceLess(c) == Shift(Shift(Shift(Shift(Shift(Shift(Shift(c)))))))

\* The loop over the bits of a byte.
Shifted(c) == Shift(Shift(Shift(Shift(Shift(Shift(Shift(Shift(c))))))))

UpdateCrc(c, value) == Shifted(c ^^ value)

-----------------------------------------------------------------------------
\* The remainder of dividend by x^8 + x^2 + x + 1: the divisor is subtracted at
\* every bit, from the highest down, that is still set.
Subtract(n, bit) ==
  IF (n \div 2 ^ bit) % 2 = 1 THEN n ^^ (263 * 2 ^ (bit - 8)) ELSE n

Remainder(dividend) ==
  LET after[bit \in 8 .. 16] == IF bit = 16 THEN dividend ELSE Subtract(after[bit + 1], bit)
  IN after[8]

=============================================================================
