-------------------------- MODULE HeadersChainProof -------------------------
(***************************************************************************)
(* The driver of the headers chain proof (src/headers_chain_proof/main.py) *)
(* with the Cairo program it runs for every batch of headers (main.cairo,  *)
(* recurse.cairo, merkle_mountain_range.cairo).  Unlike the driver of      *)
(* ChainProof it goes on from the state an earlier run has left, names a   *)
(* proof by its loop variable while recurse looks for it by the state's    *)
(* height, and proves a batch even if its state could not be written.      *)
(*                                                                         *)
(* As in ChainProof a state is the chain that led to it; output_dir is the *)
(* directory recurse reads, and there is one compiled program.             *)
(***************************************************************************)
EXTENDS Naturals, Sequences, SequencesExt

CONSTANTS
  Chains,        \* the chains the node behind BTC_API may be on
  Parameters,    \* what batches and batch_size may be set to
  MMR_ROOTS_LEN  \* 27

Blocks == UNION {Range(chain) : chain \in Chains}

ASSUME HeadersChainProofAssumption ==
  /\ Chains \subseteq Seq(Blocks)
  /\ \A p \in Parameters : p.batches \in Nat /\ p.batch_size \in Nat \ {0}
  /\ MMR_ROOTS_LEN \in Nat /\ \A chain \in Chains : Len(chain) < 2^MMR_ROOTS_LEN

VARIABLES
  best,              \* the chain of that node
  made,              \* whether output_dir is there
  headers_chain_state, \* the file: NoFile, Empty, or a state
  proofs,            \* headers_chain_proof-{name}.bin
  pc, parameters, i, \* the driver
  state,             \* what it is about to write to the file it has opened
  trace,             \* trace.bin and memory.bin
  calm               \* from now on nothing fails

files == <<made, headers_chain_state, proofs>>
vars == <<best, files, pc, parameters, i, state, trace, calm>>

NoFile == [file |-> "none"]
Empty == [file |-> "empty"]   \* opened for writing, and not written

NullRoot == <<"0">>
Leaf(chain) == <<"header", chain>>
hash2(x, y) == <<"node", x, y>>

NoRoots == [h \in 1 .. MMR_ROOTS_LEN |-> NullRoot]
GenesisState == [file |-> "state", chain |-> << >>, mmr_roots |-> NoRoots]

Stopped == {"off", "died", "done"}
batch_size == parameters.batch_size
Names == UNION {0 .. (p.batches + 1) * p.batch_size : p \in Parameters}

Init ==
  /\ best \in Chains
  /\ made \in BOOLEAN
  /\ headers_chain_state = NoFile
  /\ proofs = [name \in Names |-> NoFile]
  /\ pc = "off" /\ parameters \in Parameters /\ i = 0
  /\ state = GenesisState /\ trace = NoFile
  /\ calm = FALSE

\* The driver's memory goes with it.
Ends(how) == pc' = how /\ i' = 0 /\ state' = GenesisState /\ trace' = NoFile

-----------------------------------------------------------------------------
(* Before the loop. *)

\* os.popen does not wait for mkdir.
Start(p) ==
  /\ pc \in Stopped
  /\ parameters' = p /\ pc' = "start"
  /\ UNCHANGED <<best, files, i, state, trace, calm>>

Mkdir ==
  /\ pc \in {"start", "died"} /\ ~made
  /\ made' = TRUE
  /\ UNCHANGED <<best, headers_chain_state, proofs, pc, parameters, i, state, trace, calm>>

\* Mutant: start_block_height stays what it is configured to be.
ResumeHeight == 0

\* start_block_height = state['block_height'] + 1
StartHeight == Len(headers_chain_state.chain)

\* The file is read, and opened again for the new batch_size.
Resume ==
  /\ pc = "start" /\ headers_chain_state.file = "state"
  /\ i' = StartHeight
  /\ state' = headers_chain_state
  /\ headers_chain_state' = Empty /\ pc' = "rewrite"
  /\ UNCHANGED <<best, made, proofs, parameters, trace, calm>>

\* json.load of an empty file.
ResumeFails ==
  /\ pc = "start" /\ headers_chain_state = Empty
  /\ Ends("died")
  /\ UNCHANGED <<best, files, parameters, calm>>

Genesis ==
  /\ pc = "start" /\ headers_chain_state = NoFile /\ made
  /\ i' = 0 /\ state' = GenesisState
  /\ headers_chain_state' = Empty /\ pc' = "rewrite"
  /\ UNCHANGED <<best, made, proofs, parameters, trace, calm>>

\* open() finds no directory if mkdir is not done.
GenesisFails ==
  /\ pc = "start" /\ headers_chain_state = NoFile /\ ~made
  /\ Ends("died")
  /\ UNCHANGED <<best, files, parameters, calm>>

Rewrite ==
  /\ pc = "rewrite"
  /\ headers_chain_state' = state /\ state' = GenesisState /\ pc' = "loop"
  /\ UNCHANGED <<best, made, proofs, parameters, i, trace, calm>>

-----------------------------------------------------------------------------
(* The Cairo program. *)

Height == Len(headers_chain_state.chain)

ParentProof == proofs[Height - 1]

Extended == SubSeq(best, 1, Height + batch_size)

\* Mutant: verify_prev_chain_state is not called.
VerifiesAnyParent == Height > 0 => ParentProof.file = "proof"

\* recurse: the proof of the state's height is of this state, roots included.
VerifiesParent ==
  Height > 0 =>
    /\ ParentProof.file = "proof"
    /\ ParentProof.chain = headers_chain_state.chain
    /\ ParentProof.mmr_roots = headers_chain_state.mmr_roots

\* The first empty place, and what the roots in front of it are hashed to.
FirstNull(roots) ==
  CHOOSE h \in DOMAIN roots : roots[h] = NullRoot /\ \A j \in 1 .. h - 1 : roots[j] # NullRoot
Carry(roots, leaf) == FoldLeft(LAMBDA n, r : hash2(r, n), leaf, roots)

\* Mutant: the loop leaves the old roots it passes.
mmr_add_keeps_roots(roots, leaf) ==
  LET h == FirstNull(roots) IN [roots EXCEPT ![h] = Carry(SubSeq(roots, 1, h - 1), leaf)]

\* _mmr_add_loop: the roots below the first empty place are carried into it.
mmr_add(roots, leaf) ==
  LET h == FirstNull(roots)
  IN  [k \in DOMAIN roots |->
        IF k < h THEN NullRoot
        ELSE IF k = h THEN Carry(SubSeq(roots, 1, h - 1), leaf)
        ELSE roots[k]]

mmr_add_leaves(roots, leaves) == FoldLeft(mmr_add, roots, leaves)

\* validate_block_headers: there is a header for every height, and it extends the
\* state.
BatchIsValid ==
  /\ Len(best) >= Height + batch_size
  /\ headers_chain_state.chain = SubSeq(best, 1, Height)

CairoRuns ==
  headers_chain_state.file = "state" /\ BatchIsValid /\ VerifiesParent

CairoRun ==
  /\ pc = "run" /\ CairoRuns
  /\ trace' = [file |-> "proof", chain |-> Extended,
               mmr_roots |-> mmr_add_leaves(headers_chain_state.mmr_roots,
                 [k \in 1 .. batch_size |-> Leaf(SubSeq(best, 1, Height + k))]),
               verified |-> IF Height = 0 THEN << >>
                            ELSE Append(ParentProof.verified, ParentProof.chain)]
  /\ pc' = "open"
  /\ UNCHANGED <<best, files, parameters, i, state, calm>>

\* No "Program output:" to parse.
CairoRunFails ==
  /\ pc = "run" /\ ~CairoRuns
  /\ Ends("died")
  /\ UNCHANGED <<best, files, parameters, calm>>

-----------------------------------------------------------------------------
(* The loop. *)

\* /reset/ and /create/{i} of the headers bridge node.
CreateBridge ==
  /\ pc = "loop" /\ i < parameters.batches * batch_size
  /\ pc' = "run"
  /\ UNCHANGED <<best, files, parameters, i, state, trace, calm>>

\* The answer is empty, or there is none.
CreateBridgeFails ==
  /\ ~calm
  /\ pc = "loop" /\ i < parameters.batches * batch_size
  /\ Ends("died")
  /\ UNCHANGED <<best, files, parameters, calm>>

OpenState ==
  /\ pc = "open"
  /\ headers_chain_state' = Empty
  /\ state' = [file |-> "state", chain |-> trace.chain, mmr_roots |-> trace.mmr_roots]
  /\ pc' = "write"
  /\ UNCHANGED <<best, made, proofs, parameters, i, trace, calm>>

WriteState ==
  /\ pc = "write"
  /\ headers_chain_state' = state /\ state' = GenesisState /\ pc' = "prove"
  /\ UNCHANGED <<best, made, proofs, parameters, i, trace, calm>>

\* "except BaseException: print": with the old state or without one, it goes on.
WriteStateFails ==
  /\ ~calm /\ pc \in {"open", "write"}
  /\ pc' = "prove" /\ state' = GenesisState
  /\ UNCHANGED <<best, files, parameters, i, trace, calm>>

NextBatch == i' = i + batch_size /\ pc' = "loop" /\ trace' = NoFile

Prove ==
  /\ pc = "prove"
  /\ proofs' = [proofs EXCEPT ![i + batch_size - 1] = trace]
  /\ NextBatch
  /\ UNCHANGED <<best, made, headers_chain_state, parameters, state, calm>>

\* "Proving failed", and on with the next batch.
ProveFails ==
  /\ ~calm /\ pc = "prove"
  /\ proofs' \in {proofs, [proofs EXCEPT ![i + batch_size - 1] = NoFile]}
  /\ NextBatch
  /\ UNCHANGED <<best, made, headers_chain_state, parameters, state, calm>>

Finish ==
  /\ pc = "loop" /\ i >= parameters.batches * batch_size
  /\ Ends("done")
  /\ UNCHANGED <<best, files, parameters, calm>>

DriverStep ==
  \/ Mkdir \/ Resume \/ ResumeFails \/ Genesis \/ GenesisFails \/ Rewrite
  \/ CreateBridge \/ CairoRun \/ CairoRunFails
  \/ OpenState \/ WriteState \/ Prove \/ Finish

-----------------------------------------------------------------------------
(* Around the driver. *)

Kill ==
  /\ ~calm /\ pc \notin Stopped
  /\ Ends("off")
  /\ UNCHANGED <<best, files, parameters, calm>>

Reorganise ==
  /\ ~calm
  /\ \E chain \in Chains \ {best} : best' = chain
  /\ UNCHANGED <<files, pc, parameters, i, state, trace, calm>>

CalmDown ==
  /\ ~calm /\ calm' = TRUE
  /\ UNCHANGED <<best, files, pc, parameters, i, state, trace>>

Next ==
  \/ \E p \in Parameters : Start(p)
  \/ DriverStep
  \/ CreateBridgeFails \/ WriteStateFails \/ ProveFails
  \/ Kill \/ Reorganise \/ CalmDown

\* A driver that was started is scheduled; nobody has to start one.
Spec == Init /\ [][Next]_vars /\ WF_vars(DriverStep)

-----------------------------------------------------------------------------
\* The roots of the mountain range over a chain: a perfect tree for each bit of its
\* length, the largest over the first headers.
Perfect(chain, from, h) ==
  LET row[k \in 0 .. h] ==
        [n \in 0 .. Len(chain) - 2^k |->
          IF k = 0 THEN Leaf(SubSeq(chain, 1, n + 1))
          ELSE hash2(row[k - 1][n], row[k - 1][n + 2^(k - 1)])]
  IN  row[h][from]

MountainRange(chain) ==
  [h \in 1 .. MMR_ROOTS_LEN |->
    LET width == 2^(h - 1) IN
    IF (Len(chain) \div width) % 2 = 0 THEN NullRoot
    ELSE Perfect(chain, Len(chain) - (Len(chain) % width) - width, h - 1)]

States == UNION {Prefixes(chain) : chain \in Chains}

TypeOK ==
  /\ best \in Chains /\ made \in BOOLEAN /\ calm \in BOOLEAN
  /\ headers_chain_state.file \in {"none", "empty", "state"}
  /\ state.file = "state" /\ state.chain \in States
  /\ \A name \in Names : proofs[name].file = "proof" =>
       proofs[name].chain \in States /\ Len(proofs[name].chain) <= name + 1
  /\ trace.file = "proof" <=> pc \in {"open", "write", "prove"}
  /\ parameters \in Parameters /\ i \in Names

\* The batches of a proof follow one another from the genesis block on, and its
\* mountain range is the one over all of them.
Vouches(p) ==
  LET steps == Append(p.verified, p.chain) IN
  /\ \A k \in 2 .. Len(steps) :
       Len(steps[k - 1]) < Len(steps[k]) /\ IsPrefix(steps[k - 1], steps[k])
  /\ \A k \in 2 .. Len(steps) :
       Len(steps[k]) - Len(steps[k - 1]) \in {q.batch_size : q \in Parameters}
  /\ Len(steps[1]) \in {q.batch_size : q \in Parameters}
  /\ p.mmr_roots = MountainRange(p.chain)

\* Whatever was killed, not written, not proven or reorganised away before: a proof
\* vouches for every header from the genesis block on, batch after batch, each
\* batch on top of the one before, and its mountain range is the one over all of
\* them.
ProofsVouchForHeaders ==
  \A name \in Names : proofs[name].file = "proof" => Vouches(proofs[name])

Proven(chain) ==
  chain = << >> \/ LET p == proofs[Len(chain) - 1] IN p.file = "proof" /\ p.chain = chain

\* The state in the file runs ahead of the proofs by one batch at most, although it
\* is written before its proof, the loop goes on after a failed one, and another run
\* may have had batches of another size.
StateIsProvenButForLastBatch ==
  headers_chain_state.file = "state" =>
    \E n \in {0} \union {q.batch_size : q \in Parameters} :
      LET chain == headers_chain_state.chain IN
      n <= Len(chain) /\ Proven(SubSeq(chain, 1, Len(chain) - n))

\* Nothing will ever be proven in this directory again: the state was truncated, or
\* it is the state of a batch without a proof.
Stuck ==
  \/ headers_chain_state = Empty /\ pc \notin {"rewrite", "write"}
  \/ headers_chain_state.file = "state" /\ pc \notin {"open", "prove"} /\ ~Proven(headers_chain_state.chain)
  \/ pc = "rewrite" /\ ~Proven(state.chain)

\* A driver cannot recover from a proof that failed, or from having been killed
\* between a state and its proof, by being started again: it resumes behind the
\* batch without a proof.
FailedProofIsFinal == [][Stuck => Stuck']_vars

\* If what an earlier run left is not stuck and is on the best chain, and nothing
\* fails any more, a driver that is started proves all batches, whatever
\* batch_size the earlier run had (and if mkdir is not too late).
AllBatchesProven ==
  /\ calm /\ pc = "start" /\ ~Stuck
  /\ IF headers_chain_state = NoFile THEN made
     ELSE IsPrefix(headers_chain_state.chain, best)
  ~>
  /\ pc = "done" /\ headers_chain_state.file = "state"
  /\ LET chain == headers_chain_state.chain IN
     IsPrefix(chain, best) /\ Proven(chain) /\ Len(chain) >= parameters.batches * batch_size
=============================================================================
