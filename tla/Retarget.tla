------------------------------ MODULE Retarget ------------------------------
(***************************************************************************)
(* The target of a chain from one adjustment to the next where every epoch *)
(* takes two weeks (adjust_difficulty of src/block/block_header.cairo): it *)
(* is kept as bits only, so that each epoch decodes and encodes it again,  *)
(* with whatever answer of the prover passes.                              *)
(***************************************************************************)
EXTENDS Compact

VARIABLES
  exact,   \* the target that was to be encoded
  encoded  \* what target_to_bits returned for it, state.current_target

retargetVars == <<exact, encoded>>

RetargetInit == exact \in 0 .. MAX_TARGET /\ encoded \in target_to_bits(exact)

SteadyEpoch ==
  /\ exact' = bits_to_target(encoded)
  /\ encoded' \in IF exact' <= MAX_TARGET THEN target_to_bits(exact') ELSE {MAX_BITS}

RetargetSpec == RetargetInit /\ [][SteadyEpoch]_retargetVars
-----------------------------------------------------------------------------
\* The mask check of target_to_bits, which goes by the exponent of the hint's
\* answer, accepts the honest answer for every target: with one, two, three or
\* more digits, and with or without a digit moved for the sign bit.
HonestHintAccepted == VerifyCompact(exact, CompactHint(exact))

\* What an answer that passes the check of target_to_bits may do, honest or not:
\* it never makes a block easier than the exact target, and it has no freedom but
\* in the exponent, for with the honest one the bits are the honest ones.  With
\* honest bits little is lost, at most two parts in Base^2, and the next epoch's
\* hint finds them again.
AnswerIsNeverEasier ==
  LET decoded == bits_to_target(encoded)
      honest == CompactHint(exact)
  IN  /\ decoded <= exact
      /\ Exponent(encoded) = Exponent(honest) /\ Exponent(honest) >= 3 => encoded = honest
      /\ encoded = honest => /\ CompactHint(decoded) = honest
                             /\ (exact - decoded) * Base^2 <= 2 * exact
=============================================================================
