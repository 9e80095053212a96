------------------------------ MODULE HashChain -----------------------------
(***************************************************************************)
(* The hash of an output, which is the leaf of the accumulator             *)
(* (hash_output and hash_chain of src/utxo_set/utxo_set.cairo).  The loop  *)
(* goes through an array backwards and tests for its end after a step.     *)
(***************************************************************************)
EXTENDS Naturals, Sequences, SequencesExt

CONSTANTS
  Word,      \* the values of an array's elements
  MaxLength  \* the longest array

ASSUME HashChainAssumption == MaxLength \in Nat

\* Terms in place of numbers: hash2 is injective and never returns a word that
\* somebody wrote into a script or a txid.
Data(w) == <<"word", w>>
hash2(x, y) == <<"hash", x, y>>

Arrays == SeqOf({Data(w) : w \in Word}, MaxLength)

VARIABLES
  hash_step,
  data,      \* the array at data_ptr, a segment of its own
  offset,    \* of curr_frame.data_ptr from data_ptr
  cur_hash

hashVars == <<hash_step, data, offset, cur_hash>>

NoHash == << >>

HashInit == hash_step = "idle" /\ data = << >> /\ offset = 0 /\ cur_hash = NoHash

\* The first frame: it holds the last element.
Call(array) ==
  /\ hash_step = "idle" /\ array # << >>
  /\ hash_step' = "hash_loop" /\ data' = array
  /\ offset' = Len(array) - 1
  /\ cur_hash' = Last(array)

\* There is no last element: the frame holds what is before the array.
CallEmpty ==
  /\ hash_step = "idle"
  /\ hash_step' = "aborted" /\ data' = << >>
  /\ UNCHANGED <<offset, cur_hash>>

\* Mutant: x and y are confused.
HashLoopSwapped ==
  /\ hash_step = "hash_loop" /\ offset > 0
  /\ cur_hash' = hash2(cur_hash, data[offset])
  /\ offset' = offset - 1
  /\ hash_step' = IF offset - 1 # 0 THEN "hash_loop" ELSE "returned"
  /\ UNCHANGED data

\* Mutant: the first of three or more elements is left out.
HashLoopStopsEarly ==
  /\ hash_step = "hash_loop" /\ offset > 0
  /\ cur_hash' = hash2(data[offset], cur_hash)
  /\ offset' = offset - 1
  /\ hash_step' = IF offset - 1 > 1 THEN "hash_loop" ELSE "returned"
  /\ UNCHANGED data

\* new_data = [curr_frame.data_ptr - 1], and the jump if more is to come.
HashLoop ==
  /\ hash_step = "hash_loop" /\ offset > 0
  /\ cur_hash' = hash2(data[offset], cur_hash)
  /\ offset' = offset - 1
  /\ hash_step' = IF offset - 1 # 0 THEN "hash_loop" ELSE "returned"
  /\ UNCHANGED data

\* A read in front of the segment, which no memory cell answers.
ReadBeforeArray ==
  /\ hash_step = "hash_loop" /\ offset = 0
  /\ hash_step' = "aborted"
  /\ UNCHANGED <<data, offset, cur_hash>>

\* The caller goes on, with the next script or txid.
Proceed ==
  /\ hash_step \in {"returned", "aborted"}
  /\ hash_step' = "idle" /\ data' = << >> /\ offset' = 0 /\ cur_hash' = NoHash

HashNext == (\E array \in Arrays : Call(array)) \/ CallEmpty
            \/ HashLoop \/ ReadBeforeArray \/ Proceed

HashSpec == HashInit /\ [][HashNext]_hashVars

-----------------------------------------------------------------------------
\* h(x, h(y, z)) for <<x, y, z>>.
Chained(array) == FoldRight(hash2, Front(array), Last(array))

\* The loop that runs backwards over raw pointers hashes each element once, in
\* the order of the array, and without the length that utxo_set.cairo:83 names.
\* It has no result for arrays of no or one element, such as a script of up to
\* four bytes, and for no others.
ReturnsTheChain ==
  /\ hash_step = "returned" => Len(data) > 1 /\ cur_hash = Chained(data)
  /\ hash_step = "aborted" => Len(data) <= 1

\* No two arrays have the same hash, of whatever lengths, although the length is
\* not hashed as in the function this one was made from: so a leaf of the
\* accumulator stands for one script and one txid.
NoTwoArraysCollide ==
  hash_step = "returned" =>
    \A other \in Arrays : Len(other) > 1 /\ Chained(other) = cur_hash => other = data
=============================================================================
