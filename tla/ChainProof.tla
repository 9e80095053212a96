------------------------------ MODULE ChainProof ----------------------------
(***************************************************************************)
(* The driver of the chain proof (src/chain_proof/main.py) with the Cairo  *)
(* program it runs for every block (main.cairo, recurse.cairo): a run      *)
(* validates one block and verifies the proof of the run before, which the *)
(* driver left in a file.                                                  *)
(*                                                                         *)
(* What a block does to the state is left to other modules.  Here a state  *)
(* is the sequence of the choices by which its blocks came about, a block  *)
(* is named by the state it leads to, and its parent is all but its last.  *)
(***************************************************************************)
EXTENDS Naturals, Sequences, SequencesExt

CONSTANTS
  Choice,      \* what tells the blocks of one height and parent apart
  NumBlocks,   \* end_block_height, 100
  Dirs,        \* the output directories the driver may be told to use
  Programs,    \* hashes of the programs that may be in build/
  GenesisHash, \* program_hash of state_0.json
  Faults       \* whether a part of the system may fail at first

ASSUME ChainProofAssumption ==
  /\ NumBlocks \in Nat \ {0}
  /\ GenesisHash \in Programs
  /\ Faults \in BOOLEAN

NoFile == [file |-> FALSE]
Heights == 0 .. NumBlocks - 1

\* Mutant: a directory the driver does not write to.
OtherRecurseDir == "proofs"

\* The directory whose proofs recurse.cairo reads.
RecurseDir == "tmp"

VARIABLES
  best,        \* the chain of the node behind BTC_API
  program,     \* the hash of build/chain_proof_compiled.json
  made,        \* the directories there are
  chain_state, \* of each directory: its chain_state.json
  proofs,      \* chain_proof-{i}.bin
  pc, output_dir, i,  \* the driver
  trace,       \* trace.bin and memory.bin, until they are proven: nobody reads them later
  calm         \* nothing fails any more

files == <<made, chain_state, proofs>>
vars == <<best, program, files, pc, output_dir, i, trace, calm>>

Stopped == {"off", "died", "done"}

AllDirs == Dirs \union {RecurseDir}

Init ==
  /\ best \in [1 .. NumBlocks -> Choice]
  /\ program = GenesisHash
  /\ made \in {{}, AllDirs}
  /\ chain_state = [d \in AllDirs |-> NoFile]
  /\ proofs = [d \in AllDirs |-> [j \in Heights |-> NoFile]]
  /\ pc = "off" /\ output_dir \in Dirs /\ i = 0 /\ trace = NoFile
  /\ calm = ~Faults

BlockAt(height) == SubSeq(best, 1, height + 1)

-----------------------------------------------------------------------------
(* main.py *)

Start(dir) ==
  /\ pc \in Stopped
  /\ output_dir' = dir
  /\ pc' = "mkdir"
  /\ UNCHANGED <<best, program, files, trace, i, calm>>

\* os.popen does not wait: mkdir runs on its own, and may be late.
Mkdir ==
  /\ pc \in {"mkdir", "genesis"}
  /\ output_dir \notin made
  /\ made' = made \union {output_dir}
  /\ UNCHANGED <<best, program, chain_state, trace, proofs, pc, output_dir, i, calm>>

ResetBridge ==
  /\ pc = "mkdir"
  /\ pc' = "genesis"
  /\ UNCHANGED <<best, program, files, trace, output_dir, i, calm>>

WriteGenesis ==
  /\ pc = "genesis"
  /\ IF output_dir \in made
       THEN /\ chain_state' = [chain_state EXCEPT ![output_dir] =
                 [file |-> TRUE, state |-> << >>, program_hash |-> GenesisHash]]
            /\ pc' = "run" /\ i' = 0
       ELSE pc' = "died" /\ UNCHANGED <<chain_state, i>>
  /\ UNCHANGED <<best, program, made, trace, proofs, output_dir, calm>>

-----------------------------------------------------------------------------
(* The Cairo program, from chain_state.json. *)

Prev == chain_state[output_dir]
Height == Len(Prev.state)

ParentProof == proofs[RecurseDir][Height - 1]

\* validate_and_apply_block: the block must extend the state.
ExtendsState(block) == Front(block) = Prev.state

\* Mutant: verify_prev_state is not called.
VerifiesParentOfAnyState ==
  Height > 0 =>
    /\ ParentProof.file
    /\ Prev.program_hash = ParentProof.program
    /\ ParentProof.program = ParentProof.program_hash

\* recurse: the parent proof is valid, of the program that is expected, for the
\* state this run started from, and it expected the same program.
VerifiesParent ==
  Height > 0 =>
    /\ ParentProof.file
    /\ Prev.program_hash = ParentProof.program
    /\ Prev.state = ParentProof.state
    /\ ParentProof.program = ParentProof.program_hash

\* A parent proof vouches for itself and for all it verified.
Vouched ==
  IF Height = 0 THEN << >>
  ELSE Append(ParentProof.verified, [state |-> ParentProof.state, program |-> ParentProof.program])

CairoRun ==
  /\ pc = "run" /\ i < NumBlocks
  /\ ExtendsState(BlockAt(Height)) /\ VerifiesParent
  /\ trace' = [file |-> TRUE, state |-> BlockAt(Height), program |-> program,
                program_hash |-> Prev.program_hash, verified |-> Vouched]
  /\ pc' = "write"
  /\ UNCHANGED <<best, program, made, chain_state, proofs, output_dir, i, calm>>

\* No "Program output:" to parse: the driver ends with a ValueError.
CairoRunFails ==
  /\ pc = "run" /\ i < NumBlocks
  /\ ~(ExtendsState(BlockAt(Height)) /\ VerifiesParent)
  /\ pc' = "died"
  /\ UNCHANGED <<best, program, files, trace, output_dir, i, calm>>

\* The program's output, of which the trace is the long form.
WriteState ==
  /\ pc = "write"
  /\ chain_state' = [chain_state EXCEPT ![output_dir] =
       [file |-> TRUE, state |-> trace.state,
        program_hash |-> trace.program_hash]]
  /\ pc' = "prove"
  /\ UNCHANGED <<best, program, made, trace, proofs, output_dir, i, calm>>

Prove ==
  /\ pc = "prove"
  /\ proofs' = [proofs EXCEPT ![output_dir][i] = trace]
  /\ i' = i + 1 /\ pc' = "run"
  /\ trace' = NoFile
  /\ UNCHANGED <<best, program, made, chain_state, output_dir, calm>>

\* "Proving failed": the driver goes on with the next block all the same.
ProveFails ==
  /\ ~calm /\ pc = "prove"
  /\ \/ UNCHANGED proofs
     \/ proofs' = [proofs EXCEPT ![output_dir][i] = NoFile]
  /\ i' = i + 1 /\ pc' = "run"
  /\ trace' = NoFile
  /\ UNCHANGED <<best, program, made, chain_state, output_dir, calm>>

Finish ==
  /\ pc = "run" /\ i = NumBlocks
  /\ pc' = "done"
  /\ UNCHANGED <<best, program, files, trace, output_dir, i, calm>>

DriverStep ==
  \/ Mkdir \/ ResetBridge \/ WriteGenesis
  \/ CairoRun \/ CairoRunFails \/ WriteState \/ Prove \/ Finish

-----------------------------------------------------------------------------
(* Around the driver. *)

\* Killed, out of memory, or nobody answers on port 2121 or behind BTC_API.
Kill ==
  /\ ~calm /\ pc \notin Stopped
  /\ pc' = "off" /\ trace' = NoFile
  /\ UNCHANGED <<best, program, files, output_dir, i, calm>>

\* The best chain changes from some height on.
Reorganise ==
  /\ ~calm
  /\ \E chain \in [1 .. NumBlocks -> Choice] : chain # best /\ best' = chain
  /\ UNCHANGED <<program, files, trace, pc, output_dir, i, calm>>

\* make compile_chain_proof, between two runs of the driver.
Recompile ==
  /\ ~calm /\ pc \in Stopped
  /\ \E hash \in Programs \ {program} : program' = hash
  /\ UNCHANGED <<best, files, trace, pc, output_dir, i, calm>>

\* From here on the node's chain is stable and the machine runs.
CalmDown ==
  /\ ~calm /\ calm' = TRUE
  /\ UNCHANGED <<best, program, files, trace, pc, output_dir, i>>

Next ==
  \/ \E dir \in Dirs : Start(dir)
  \/ DriverStep \/ ProveFails
  \/ Kill \/ Reorganise \/ Recompile \/ CalmDown

\* A driver that was started is scheduled; nobody has to start one.
Spec == Init /\ [][Next]_vars /\ WF_vars(DriverStep)

-----------------------------------------------------------------------------
\* Whatever files were left by earlier runs, by failed proofs, by other programs
\* and by blocks that are no longer on the best chain: a proof vouches for the
\* blocks below its own one by one from the genesis block, each of them the
\* parent of the next, each run by the program the genesis state names.
ProofsVouchForChains ==
  \A d \in AllDirs, j \in Heights :
    LET p == proofs[d][j] IN
    p.file =>
      /\ Len(p.state) = j + 1
      /\ p.program_hash = GenesisHash
      /\ p.verified = [k \in 1 .. j |->
           [state |-> SubSeq(p.state, 1, k), program |-> GenesisHash]]

\* chain_state.json is written before the proof and is the start of the next
\* run even if there is no proof.  Still it is never ahead of the proofs by more
\* than the last block: the rest of it was proven, in the files as they are now.
StateIsProvenButForLast ==
  pc \in {"run", "write", "prove"} /\ Prev.file /\ Len(Prev.state) > 1 =>
    LET p == proofs[RecurseDir][Len(Prev.state) - 2] IN
    p.file /\ p.state = Front(Prev.state)

\* Whatever went wrong before, and whatever files it left: once nothing fails any
\* more, a driver that is started with the program of the genesis state proves
\* every block of the best chain, if the output directory is there already (else
\* mkdir may come too late).
AllBlocksProven ==
  calm /\ program = GenesisHash /\ made = AllDirs /\ pc = "mkdir" ~>
    /\ pc = "done"
    /\ \A j \in Heights : proofs[output_dir][j].file /\ proofs[output_dir][j].state = BlockAt(j)
=============================================================================
