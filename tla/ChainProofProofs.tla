--------------------------- MODULE ChainProofProofs -------------------------
(***************************************************************************)
(* Theorems about the driver of the chain proof: for any number of blocks, *)
(* directories, programs and faults, what the files it leaves vouch for.   *)
(***************************************************************************)
EXTENDS ChainProof, SequenceTheorems, TLAPS

\* What a proof of height j says of the blocks up to its own.
Claim(p, j) ==
  /\ p.state \in Seq(Choice) /\ Len(p.state) = j + 1
  /\ p.program_hash = GenesisHash
  /\ p.verified = [k \in 1 .. j |-> [state |-> SubSeq(p.state, 1, k), program |-> GenesisHash]]

Variables ==
  /\ best \in Seq(Choice) /\ Len(best) = NumBlocks
  /\ output_dir \in AllDirs /\ i \in 0 .. NumBlocks
  /\ chain_state = [d \in AllDirs |-> chain_state[d]]
  /\ proofs = [d \in AllDirs |-> [j \in Heights |-> proofs[d][j]]]

\* The state file of every directory, also of one the driver does not use.
States ==
  \A d \in AllDirs : chain_state[d].file =>
    chain_state[d].state \in Seq(Choice) /\ chain_state[d].program_hash = GenesisHash

Claims == \A d \in AllDirs, j \in Heights : proofs[d][j].file => Claim(proofs[d][j], j)

\* The proof is named by the loop variable and the block follows from the state:
\* they stay together.  The run that is about to write has verified the parent.
Loop ==
  /\ pc = "run" => Prev.file /\ Len(Prev.state) = i
  /\ pc = "write" =>
       /\ i < NumBlocks /\ Prev.file /\ Len(Prev.state) = i
       /\ Claim(trace, i) /\ Front(trace.state) = Prev.state
       /\ i > 0 => proofs[RecurseDir][i - 1].file /\ proofs[RecurseDir][i - 1].state = Prev.state
  /\ pc = "prove" =>
       i < NumBlocks /\ Prev.file /\ Len(Prev.state) = i + 1 /\ Claim(trace, i)

IInv == Variables /\ States /\ Claims /\ Loop /\ StateIsProvenButForLast

-----------------------------------------------------------------------------
LEMMA SubSeqType ==
  ASSUME NEW S, NEW s \in Seq(S), NEW n \in 0 .. Len(s)
  PROVE  SubSeq(s, 1, n) \in Seq(S) /\ Len(SubSeq(s, 1, n)) = n
<1>1. \A m \in 1 .. n : s[m] \in S
  BY ElementOfSeq, LenProperties
<1> QED
  BY <1>1, SubSeqProperties, LenProperties

\* A prefix of all but the last is a prefix.
LEMMA PrefixOfFront ==
  ASSUME NEW S, NEW s \in Seq(S), NEW n \in Nat, n < Len(s)
  PROVE  SubSeq(Front(s), 1, n) = SubSeq(s, 1, n)
<1>1. Len(s) \in Nat
  BY LenProperties
<1>2. SubSeq(SubSeq(s, 1, Len(s) - 1), 1, n) = SubSeq(s, 1, n)
  BY <1>1, SubSeqOfSubSeq
<1> QED
  BY <1>2 DEF Front

\* A valid run whose parent proof keeps its claim makes the claim of its own height.
LEMMA RunClaims ==
  ASSUME Variables, States, Claims, Loop, CairoRun
  PROVE  Claim(trace', i)
<1>1. /\ i \in Nat /\ i < NumBlocks /\ NumBlocks \in Nat
      /\ Prev.file /\ Height = i
      /\ Prev.state \in Seq(Choice) /\ Prev.program_hash = GenesisHash
  BY ChainProofAssumption DEF Variables, States, Loop, CairoRun, Prev, Height
<1>2. /\ trace'.state = SubSeq(best, 1, i + 1)
      /\ trace'.program_hash = GenesisHash /\ trace'.verified = Vouched
      /\ Front(trace'.state) = Prev.state
  BY <1>1 DEF CairoRun, BlockAt, ExtendsState
<1>3. trace'.state \in Seq(Choice) /\ Len(trace'.state) = i + 1
  BY <1>1, <1>2, SubSeqType DEF Variables
<1>4. Vouched = [k \in 1 .. i |-> [state |-> SubSeq(trace'.state, 1, k), program |-> GenesisHash]]
  <2>1. CASE i = 0
    BY <2>1, <1>1 DEF Vouched
  <2>2. CASE i > 0
    <3>1. /\ ParentProof.file /\ ParentProof.state = Prev.state
          /\ ParentProof.program = GenesisHash
      BY <2>2, <1>1 DEF CairoRun, VerifiesParent
    <3>2. Claim(ParentProof, i - 1)
      <4>1. RecurseDir \in AllDirs /\ i - 1 \in Heights
        BY <2>2, <1>1 DEF AllDirs, Heights
      <4> QED
        BY <4>1, <3>1, <1>1 DEF Claims, ParentProof
    <3> DEFINE last == [state |-> Prev.state, program |-> GenesisHash]
    <3>3. ParentProof.verified =
            [k \in 1 .. i - 1 |-> [state |-> SubSeq(Prev.state, 1, k), program |-> GenesisHash]]
      BY <3>1, <3>2 DEF Claim
    <3>4. Vouched = Append(ParentProof.verified, last)
      BY <2>2, <3>1, <1>1 DEF Vouched
    <3>5. \A k \in 1 .. i - 1 : SubSeq(Prev.state, 1, k) = SubSeq(trace'.state, 1, k)
      <4> TAKE k \in 1 .. i - 1
      <4>1. SubSeq(Front(trace'.state), 1, k) = SubSeq(trace'.state, 1, k)
        BY <1>1, <1>3, PrefixOfFront
      <4> QED
        BY <4>1, <1>2
    <3>6. Prev.state = SubSeq(trace'.state, 1, i)
      BY <1>1, <1>2, <1>3 DEF Front
    <3> HIDE DEF last
    <3>7. Append(ParentProof.verified, last) =
            [k \in 1 .. i |-> IF k = i THEN last ELSE ParentProof.verified[k]]
      BY <2>2, <3>3, <1>1
    <3>8. \A k \in 1 .. i : (IF k = i THEN last ELSE ParentProof.verified[k]) =
                              [state |-> SubSeq(trace'.state, 1, k), program |-> GenesisHash]
      <4> TAKE k \in 1 .. i
      <4>1. CASE k = i
        BY <4>1, <3>6 DEF last
      <4>2. CASE k # i
        <5>1. k \in 1 .. i - 1
          BY <4>2, <1>1
        <5>2. ParentProof.verified[k] = [state |-> SubSeq(Prev.state, 1, k), program |-> GenesisHash]
          BY <5>1, <3>3
        <5> QED
          BY <4>2, <5>1, <5>2, <3>5
      <4> QED
        BY <4>1, <4>2
    <3> QED
      BY <3>4, <3>7, <3>8
  <2> QED
    BY <2>1, <2>2, <1>1
<1> QED
  BY <1>2, <1>3, <1>4 DEF Claim

-----------------------------------------------------------------------------
LEMMA InitInv == Init => IInv
<1> SUFFICES ASSUME Init PROVE IInv
  OBVIOUS
<1>1. best \in Seq(Choice) /\ Len(best) = NumBlocks
  BY ChainProofAssumption DEF Init
<1>2. Variables
  BY <1>1, ChainProofAssumption DEF Init, Variables, AllDirs
<1> QED
  BY <1>2 DEF Init, IInv, States, Claims, Loop, StateIsProvenButForLast, NoFile, Prev

\* Steps that leave the files and the loop alone.
LEMMA UnchangedInv ==
  ASSUME IInv, UNCHANGED <<chain_state, proofs, i>>,
         best' \in Seq(Choice) /\ Len(best') = NumBlocks, output_dir' \in AllDirs,
         \/ UNCHANGED <<pc, output_dir, trace>>
         \/ pc' \notin {"run", "write", "prove"}
  PROVE  IInv'
<1>1. Variables' /\ States' /\ Claims'
  BY DEF IInv, Variables, States, Claims, Claim
<1>2. Loop' /\ StateIsProvenButForLast'
  BY DEF IInv, Loop, StateIsProvenButForLast, Claim, Prev
<1> QED
  BY <1>1, <1>2 DEF IInv

LEMMA WriteGenesisInv ==
  ASSUME IInv, WriteGenesis
  PROVE  IInv'
<1>1. CASE output_dir \notin made
  BY <1>1, UnchangedInv DEF WriteGenesis, IInv, Variables
<1>2. CASE output_dir \in made
  <2>1. /\ chain_state' = [chain_state EXCEPT ![output_dir] =
             [file |-> TRUE, state |-> << >>, program_hash |-> GenesisHash]]
        /\ pc' = "run" /\ i' = 0 /\ UNCHANGED <<best, proofs, output_dir>>
    BY <1>2 DEF WriteGenesis
  <2>2. Prev' = [file |-> TRUE, state |-> << >>, program_hash |-> GenesisHash]
    BY <2>1 DEF Prev, IInv, Variables
  <2>3. Variables'
    <3>1. chain_state' = [d \in AllDirs |-> chain_state'[d]]
      BY <2>1 DEF IInv, Variables
    <3>2. 0 \in 0 .. NumBlocks
      BY ChainProofAssumption
    <3> QED
      BY <2>1, <3>1, <3>2 DEF IInv, Variables
  <2>4. States' /\ Claims'
    BY <2>1, EmptySeq DEF IInv, Variables, States, Claims, Claim
  <2>5. Loop' /\ StateIsProvenButForLast'
    BY <2>1, <2>2 DEF Loop, StateIsProvenButForLast
  <2> QED
    BY <2>3, <2>4, <2>5 DEF IInv
<1> QED
  BY <1>1, <1>2

LEMMA CairoRunInv ==
  ASSUME IInv, CairoRun
  PROVE  IInv'
<1>1. Claim(trace', i)
  BY RunClaims DEF IInv
<1>2. /\ pc = "run" /\ i < NumBlocks /\ pc' = "write" /\ UNCHANGED <<best, files, output_dir, i>>
      /\ trace'.state = BlockAt(Height) /\ Front(BlockAt(Height)) = Prev.state
  BY DEF CairoRun, ExtendsState, files
<1>3. /\ Prev.file /\ Height = i /\ Len(Prev.state) = i
  BY <1>2 DEF IInv, Loop, Height
<1>4. i > 0 => proofs[RecurseDir][i - 1].file /\ proofs[RecurseDir][i - 1].state = Prev.state
  BY <1>3 DEF CairoRun, VerifiesParent, ParentProof
<1>5. Variables' /\ States' /\ Claims'
  BY <1>2 DEF IInv, files, Variables, States, Claims, Claim
<1>6. Loop'
  BY <1>1, <1>2, <1>3, <1>4 DEF Loop, files, Prev, Claim
<1>7. StateIsProvenButForLast'
  BY <1>2 DEF IInv, StateIsProvenButForLast, files, Prev
<1> QED
  BY <1>5, <1>6, <1>7 DEF IInv

LEMMA WriteStateInv ==
  ASSUME IInv, WriteState
  PROVE  IInv'
<1>1. /\ pc = "write" /\ pc' = "prove" /\ UNCHANGED <<best, proofs, output_dir, i, trace>>
      /\ chain_state' = [chain_state EXCEPT ![output_dir] =
           [file |-> TRUE, state |-> trace.state, program_hash |-> trace.program_hash]]
  BY DEF WriteState
<1>2. /\ i < NumBlocks /\ Claim(trace, i) /\ Front(trace.state) = Prev.state
      /\ i > 0 => proofs[RecurseDir][i - 1].file /\ proofs[RecurseDir][i - 1].state = Prev.state
  BY <1>1 DEF IInv, Loop
<1>3. Prev' = [file |-> TRUE, state |-> trace.state, program_hash |-> trace.program_hash]
  BY <1>1 DEF IInv, Variables, Prev
<1>4. trace.state \in Seq(Choice) /\ Len(trace.state) = i + 1 /\ trace.program_hash = GenesisHash
  BY <1>2 DEF Claim
<1>5. Variables'
  BY <1>1 DEF IInv, Variables
<1>6. States' /\ Claims'
  BY <1>1, <1>4 DEF IInv, Variables, States, Claims, Claim
<1>7. Loop'
  BY <1>1, <1>2, <1>3, <1>4 DEF Loop, Claim
<1>8. StateIsProvenButForLast'
  <2>1. i \in Nat
    BY DEF IInv, Variables
  <2>2. i + 1 > 1 => i > 0 /\ (i + 1) - 2 = i - 1
    BY <2>1
  <2> QED
    BY <1>1, <1>2, <1>3, <1>4, <2>2 DEF StateIsProvenButForLast
<1> QED
  BY <1>5, <1>6, <1>7, <1>8 DEF IInv

\* The end of a round, with or without a proof: only the round's own file changes,
\* and the state rests on the one before.
LEMMA RoundInv ==
  ASSUME IInv, pc = "prove", pc' = "run", i' = i + 1,
         UNCHANGED <<best, chain_state, output_dir>>,
         NEW file, file = NoFile \/ file = trace \/ file = proofs[output_dir][i],
         proofs' = [proofs EXCEPT ![output_dir][i] = file]
  PROVE  IInv'
<1>1. /\ i \in Nat /\ i < NumBlocks /\ NumBlocks \in Nat /\ output_dir \in AllDirs
      /\ Prev.file /\ Len(Prev.state) = i + 1 /\ Claim(trace, i)
  BY ChainProofAssumption DEF IInv, Variables, Loop
<1>2. i \in Heights /\ i + 1 \in 0 .. NumBlocks
  BY <1>1 DEF Heights
<1>3. \A d \in AllDirs, j \in Heights :
        proofs'[d][j] = IF d = output_dir /\ j = i THEN file ELSE proofs[d][j]
  BY <1>1, <1>2 DEF IInv, Variables
<1>4. proofs' = [d \in AllDirs |-> [j \in Heights |-> proofs'[d][j]]]
  BY <1>1, <1>2 DEF IInv, Variables
<1>5. Variables' /\ States'
  BY <1>2, <1>4 DEF IInv, Variables, States
<1>6. Claims'
  <2> SUFFICES ASSUME NEW d \in AllDirs, NEW j \in Heights, proofs'[d][j].file
               PROVE  Claim(proofs'[d][j], j)
    BY DEF Claims, Claim
  <2>1. CASE d = output_dir /\ j = i /\ file # proofs[output_dir][i]
    BY <2>1, <1>1, <1>3 DEF NoFile
  <2>2. CASE proofs'[d][j] = proofs[d][j]
    BY <2>2 DEF IInv, Claims
  <2> QED
    BY <2>1, <2>2, <1>3
<1>7. Loop'
  BY <1>1 DEF Loop, Prev
<1>8. StateIsProvenButForLast'
  <2>1. CASE i = 0
    BY <2>1, <1>1 DEF StateIsProvenButForLast, Prev
  <2>2. CASE i > 0
    <3>1. RecurseDir \in AllDirs /\ i - 1 \in Heights /\ i - 1 # i /\ (i + 1) - 2 = i - 1
      BY <2>2, <1>1 DEF AllDirs, Heights
    <3>2. proofs'[RecurseDir][i - 1] = proofs[RecurseDir][i - 1]
      BY <3>1, <1>3
    <3>3. /\ proofs[RecurseDir][i - 1].file
          /\ proofs[RecurseDir][i - 1].state = Front(Prev.state)
      BY <2>2, <3>1, <1>1 DEF IInv, StateIsProvenButForLast
    <3> QED
      BY <3>1, <3>2, <3>3, <1>1 DEF StateIsProvenButForLast, Prev
  <2> QED
    BY <2>1, <2>2, <1>1
<1> QED
  BY <1>5, <1>6, <1>7, <1>8 DEF IInv

LEMMA NextInv == IInv /\ [Next]_vars => IInv'
<1> SUFFICES ASSUME IInv, [Next]_vars PROVE IInv'
  OBVIOUS
<1>0. best \in Seq(Choice) /\ Len(best) = NumBlocks /\ output_dir \in AllDirs
  BY DEF IInv, Variables
<1>1. ASSUME NEW dir \in Dirs, Start(dir) PROVE IInv'
  BY <1>0, <1>1, UnchangedInv DEF Start, files, AllDirs
<1>2. CASE Mkdir
  BY <1>0, <1>2, UnchangedInv DEF Mkdir
<1>3. CASE ResetBridge
  BY <1>0, <1>3, UnchangedInv DEF ResetBridge, files
<1>4. CASE WriteGenesis
  BY <1>4, WriteGenesisInv
<1>5. CASE CairoRun
  BY <1>5, CairoRunInv
<1>6. CASE CairoRunFails
  BY <1>0, <1>6, UnchangedInv DEF CairoRunFails, files
<1>7. CASE WriteState
  BY <1>7, WriteStateInv
<1>8. CASE Prove
  BY <1>8, RoundInv DEF Prove
<1>9. CASE ProveFails
  <2>1. CASE UNCHANGED proofs
    <3>1. proofs' = [proofs EXCEPT ![output_dir][i] = proofs[output_dir][i]]
      BY <2>1 DEF IInv, Variables
    <3> QED
      BY <1>9, <3>1, RoundInv DEF ProveFails
  <2>2. CASE proofs' = [proofs EXCEPT ![output_dir][i] = NoFile]
    BY <1>9, <2>2, RoundInv DEF ProveFails
  <2> QED
    BY <1>9, <2>1, <2>2 DEF ProveFails
<1>10. CASE Finish
  BY <1>0, <1>10, UnchangedInv DEF Finish, files
<1>11. CASE Kill
  BY <1>0, <1>11, UnchangedInv DEF Kill, files
<1>12. CASE Reorganise
  <2>1. best' \in Seq(Choice) /\ Len(best') = NumBlocks
    BY <1>12, ChainProofAssumption DEF Reorganise
  <2> QED
    BY <1>0, <1>12, <2>1, UnchangedInv DEF Reorganise, files
<1>13. CASE Recompile
  BY <1>0, <1>13, UnchangedInv DEF Recompile, files
<1>14. CASE CalmDown
  BY <1>0, <1>14, UnchangedInv DEF CalmDown, files
<1>15. CASE UNCHANGED vars
  BY <1>0, <1>15, UnchangedInv DEF vars, files
<1> QED
  BY <1>1, <1>2, <1>3, <1>4, <1>5, <1>6, <1>7, <1>8, <1>9, <1>10, <1>11, <1>12, <1>13, <1>14,
     <1>15 DEF Next, DriverStep

-----------------------------------------------------------------------------
\* Between any two steps of the driver, its runs and the faults around them, the
\* files and the loop fit together.
THEOREM DriverInvariant == Spec => []IInv
<1> QED
  BY InitInv, NextInv, PTL DEF Spec

\* Every proof file vouches for its blocks back to the genesis block, whatever files
\* earlier runs, failed proofs, other programs and dead branches have left.
THEOREM ProofsVouch == Spec => []ProofsVouchForChains
<1>1. IInv => ProofsVouchForChains
  BY DEF IInv, Claims, Claim, ProofsVouchForChains
<1> QED
  BY <1>1, DriverInvariant, PTL

\* A state without a proof never has another such state below it.
THEOREM StateIsProven == Spec => []StateIsProvenButForLast
<1>1. IInv => StateIsProvenButForLast
  BY DEF IInv
<1> QED
  BY <1>1, DriverInvariant, PTL
=============================================================================
