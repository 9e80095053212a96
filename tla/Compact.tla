------------------------------- MODULE Compact ------------------------------
(***************************************************************************)
(* The compact encoding of proof-of-work targets ("bits") and its inverse  *)
(* (bits_to_target and target_to_bits of src/block/block_header.cairo).    *)
(*                                                                         *)
(* In the program a digit is a byte and the greatest exponent is 0x1d.     *)
(* Both are parameters here, so that TLC can go through every target.      *)
(***************************************************************************)
EXTENDS Integers, FiniteSets, FiniteSetsExt

CONSTANTS
  Base,        \* 256: one more than the greatest digit
  MaxExponent  \* 0x1d

ASSUME CompactAssumption ==
  /\ Base \in Nat /\ Base >= 2 /\ Base % 2 = 0
  /\ MaxExponent \in Nat /\ MaxExponent >= 3

\* The laws of powers, of which the provers know nothing.
ASSUME PowersAssumption ==
  /\ Base^0 = 1
  /\ \A k \in 0 .. MaxExponent + 1 :
       /\ Base^k \in Nat \ {0} /\ Base^(k + 1) = Base * Base^k
       /\ \A j \in 0 .. k : Base^j <= Base^k

\* 0x1d00ffff and the target it encodes.
MAX_BITS == MaxExponent * Base^3 + Base^2 - 1
MAX_TARGET == (Base^2 - 1) * Base^(MaxExponent - 3)

Exponent(bits) == bits \div Base^3
Significand(bits) == bits % Base^3
Bits(exponent, significand) == exponent * Base^3 + significand

\* "Bits exceeded the max target."
BitsInRange(bits) == bits <= MAX_BITS

bits_to_target(bits) ==
  IF Exponent(bits) \in 0 .. 2
    THEN Significand(bits) \div Base^(3 - Exponent(bits))
    ELSE Significand(bits) * Base^(Exponent(bits) - 3)

\* The number of digits of a target: (target.bit_length() + 7) // 8.
Size(target) == Min({k \in 0 .. MaxExponent + 1 : target < Base^k})

\* Mutant: the size grows for the sign bit, but no digit moves.
CompactHintWithoutShift(target) ==
  LET t == Min({target, MAX_TARGET})
      size == Size(t)
      compact == IF size <= 3 THEN t * Base^(3 - size) ELSE t \div Base^(size - 3)
  IN IF t = 0 THEN 0
     ELSE IF compact >= (Base \div 2) * Base^2 THEN Bits(size + 1, compact)
     ELSE Bits(size, compact)

\* The hint's answer: the three highest digits, one less if the highest of them
\* has the bit set that Bitcoin reads as a sign.
CompactHint(target) ==
  LET t == Min({target, MAX_TARGET})
      size == Size(t)
      compact == IF size <= 3 THEN t * Base^(3 - size) ELSE t \div Base^(size - 3)
  IN IF t = 0 THEN 0
     ELSE IF compact >= (Base \div 2) * Base^2 THEN Bits(size + 1, compact \div Base)
     ELSE Bits(size, compact)

\* Mutant: the branch for short targets asserts nothing.
VerifyCompactIfLong(target, bits) ==
  /\ BitsInRange(bits)
  /\ Exponent(bits) >= 3 =>
       LET w == Base^(Exponent(bits) - 3)
       IN bits_to_target(bits) = ((target \div w) % Base^3) * w

\* What the Cairo program demands of the hint's answer.  It takes the exponent,
\* and with it which three digits of the target are compared, from the answer.
VerifyCompact(target, bits) ==
  /\ BitsInRange(bits)
  /\ LET e == Exponent(bits) IN
     IF e \in 0 .. 2
       THEN bits_to_target(bits) = target
       ELSE bits_to_target(bits) = ((target \div Base^(e - 3)) % Base^3) * Base^(e - 3)

\* The prover names the bits: what target_to_bits may return is every answer that
\* passes, of which the honest hint's is one.
target_to_bits(target) == {bits \in 0 .. MAX_BITS : VerifyCompact(target, bits)}
=============================================================================
