----------------------- MODULE HeadersChainProofProofs ----------------------
(***************************************************************************)
(* Theorems about the driver of the headers chain proof: for any chains,   *)
(* any sizes and numbers of batches, and any faults, how far its state     *)
(* runs ahead of its proofs, that a state without proof stays one, and     *)
(* what a proof vouches for: a chain from the genesis block on, and its    *)
(* mountain range, which the Cairo program extends header by header.       *)
(***************************************************************************)
EXTENDS HeadersChainProof, DataLemmas

Sizes == {0} \union {q.batch_size : q \in Parameters}

\* All but the last n blocks of chain are proven.
Rests(chain, n) == n \in 0 .. Len(chain) /\ Proven(SubSeq(chain, 1, Len(chain) - n))

Variables ==
  /\ best \in Chains /\ parameters \in Parameters /\ i \in Nat
  /\ proofs = [name \in Names |-> proofs[name]]
  /\ state.file = "state" /\ state.chain \in Seq(Blocks)
  /\ headers_chain_state.file = "state" => headers_chain_state.chain \in Seq(Blocks)

\* The driver's place in the loop, and the file it has open.
Places ==
  /\ pc \in {"rewrite", "write"} => headers_chain_state = Empty
  /\ pc = "open" => headers_chain_state.file = "state"
  /\ pc \in {"run", "open", "write", "prove"} => i < parameters.batches * batch_size
  /\ pc \in {"loop", "run", "open"} /\ headers_chain_state.file = "state" =>
       Len(headers_chain_state.chain) <= i

\* What is in memory and not in a file: the state before the loop, and the batch.
Pending ==
  /\ pc = "rewrite" => Len(state.chain) <= i /\ \E n \in Sizes : Rests(state.chain, n)
  /\ pc \in {"open", "write", "prove"} =>
       /\ trace.chain \in Seq(Blocks) /\ Len(trace.chain) <= i + batch_size
       /\ Rests(trace.chain, batch_size)
  /\ pc = "write" => state.chain = trace.chain

\* The proof that is about to be written is none of those the state rests on.
Rest ==
  /\ headers_chain_state.file = "state" => \E n \in Sizes : Rests(headers_chain_state.chain, n)
  /\ pc = "prove" /\ headers_chain_state.file = "state" =>
       /\ Len(headers_chain_state.chain) <= i + batch_size
       /\ \E n \in Sizes : Rests(headers_chain_state.chain, n) /\ Len(headers_chain_state.chain) - n <= i

IInv == Variables /\ Places /\ Pending /\ Rest

-----------------------------------------------------------------------------
LEMMA Parameter ==
  ASSUME IInv
  PROVE  /\ batch_size \in Nat \ {0} /\ parameters.batches \in Nat /\ i \in Nat
         /\ batch_size \in Sizes
BY HeadersChainProofAssumption DEF IInv, Variables, batch_size, Sizes

LEMMA PrefixType ==
  ASSUME NEW S, NEW s \in Seq(S), NEW n \in 0 .. Len(s)
  PROVE  SubSeq(s, 1, n) \in Seq(S) /\ Len(SubSeq(s, 1, n)) = n
<1>1. \A m \in 1 .. n : s[m] \in S
  BY ElementOfSeq, LenProperties
<1> QED
  BY <1>1, SubSeqProperties, LenProperties

\* A prefix of a prefix is a prefix.
LEMMA PrefixOfPrefix ==
  ASSUME NEW S, NEW s \in Seq(S), NEW n \in 0 .. Len(s), NEW m \in 0 .. n
  PROVE  SubSeq(SubSeq(s, 1, n), 1, m) = SubSeq(s, 1, m)
<1>1. Len(s) \in Nat
  BY LenProperties
<1>2. CASE m = 0
  BY <1>2, SubSeqEmpty
<1>3. CASE m > 0
  BY <1>1, <1>3, SubSeqOfSubSeq
<1> QED
  BY <1>2, <1>3, <1>1

\* The file of a proof the driver rests on is one it knows the name of, and not the
\* one of the batch at hand.
LEMMA NamesApart ==
  ASSUME IInv, pc = "prove", NEW m \in Nat, 0 < m, m <= i
  PROVE  m - 1 \in Names /\ m - 1 # i + batch_size - 1
<1>1. /\ batch_size \in Nat \ {0} /\ parameters.batches \in Nat /\ i \in Nat
      /\ parameters \in Parameters /\ i < parameters.batches * batch_size
  BY Parameter DEF IInv, Variables, Places
<1> DEFINE all == parameters.batches * batch_size
<1>2. all \in Nat /\ (parameters.batches + 1) * batch_size = all + batch_size
  BY <1>1
<1>3. m - 1 \in 0 .. (parameters.batches + 1) * parameters.batch_size
  <2> HIDE DEF all
  <2> QED
    BY <1>1, <1>2 DEF all, batch_size
<1>4. m - 1 \in Names
  BY <1>1, <1>3 DEF Names
<1> QED
  BY <1>1, <1>4

\* What a state rests on is in the files, and stays there as long as they do.
LEMMA RestsStays ==
  ASSUME NEW chain, NEW n, UNCHANGED proofs, Rests(chain, n)
  PROVE  Rests(chain, n)'
BY DEF Rests, Proven

-----------------------------------------------------------------------------
LEMMA InitInv == Init => IInv
<1> SUFFICES ASSUME Init PROVE IInv
  OBVIOUS
<1>1. Variables
  BY EmptySeq DEF Init, Variables, GenesisState, NoFile
<1> QED
  BY <1>1 DEF Init, IInv, Places, Pending, Rest, NoFile

\* Steps that leave the driver alone.
LEMMA SameInv ==
  ASSUME IInv, UNCHANGED <<headers_chain_state, proofs, pc, parameters, i, state, trace>>,
         best' \in Chains
  PROVE  IInv'
<1>1. \A chain, n : Rests(chain, n)' <=> Rests(chain, n)
  BY DEF Rests, Proven
<1>2. Variables' /\ Places'
  BY DEF IInv, Variables, Places, batch_size
<1>3. Pending' /\ Rest'
  BY <1>1 DEF IInv, Pending, Rest, batch_size, Sizes
<1> QED
  BY <1>2, <1>3 DEF IInv

\* Steps that end or begin before the loop.
LEMMA OutsideInv ==
  ASSUME IInv, UNCHANGED <<headers_chain_state, proofs>>,
         best' = best, parameters' \in Parameters, i' \in Nat,
         state'.file = "state", state'.chain \in Seq(Blocks),
         pc' \notin {"rewrite", "loop", "run", "open", "write", "prove"}
  PROVE  IInv'
<1>1. \A chain, n : Rests(chain, n)' <=> Rests(chain, n)
  BY DEF Rests, Proven
<1>2. Variables' /\ Places' /\ Pending'
  BY DEF IInv, Variables, Places, Pending
<1>3. Rest'
  BY <1>1 DEF IInv, Rest, Sizes
<1> QED
  BY <1>2, <1>3 DEF IInv

LEMMA EndsInv ==
  ASSUME IInv, NEW how \in Stopped, Ends(how), UNCHANGED <<best, files, parameters>>
  PROVE  IInv'
<1>1. state'.file = "state" /\ state'.chain \in Seq(Blocks)
  BY EmptySeq DEF Ends, GenesisState
<1> QED
  BY <1>1, OutsideInv DEF Ends, files, IInv, Variables, Stopped

LEMMA ResumeInv ==
  ASSUME IInv, Resume
  PROVE  IInv'
<1>1. /\ pc' = "rewrite" /\ headers_chain_state.file = "state"
      /\ state' = headers_chain_state /\ headers_chain_state' = Empty
      /\ i' = Len(headers_chain_state.chain) /\ UNCHANGED <<best, proofs, parameters, trace>>
  BY DEF Resume, StartHeight
<1>2. headers_chain_state.chain \in Seq(Blocks) /\ i' \in Nat
  BY <1>1, LenProperties DEF IInv, Variables
<1>3. Variables' /\ Places' /\ Rest'
  BY <1>1, <1>2 DEF IInv, Variables, Places, Rest, Empty
<1>4. \E n \in Sizes : Rests(headers_chain_state.chain, n)
  BY <1>1 DEF IInv, Rest
<1>5. \A chain, n : Rests(chain, n)' <=> Rests(chain, n)
  BY <1>1 DEF Rests, Proven
<1>6. Pending'
  BY <1>1, <1>2, <1>4, <1>5 DEF Pending, Sizes
<1> QED
  BY <1>3, <1>6 DEF IInv

LEMMA GenesisInv ==
  ASSUME IInv, Genesis
  PROVE  IInv'
<1>1. /\ pc' = "rewrite" /\ i' = 0 /\ state' = GenesisState /\ headers_chain_state' = Empty
      /\ UNCHANGED <<best, proofs, parameters, trace>>
  BY DEF Genesis
<1>2. state'.file = "state" /\ state'.chain = << >> /\ << >> \in Seq(Blocks)
  BY <1>1, EmptySeq DEF GenesisState
<1>3. Variables' /\ Places' /\ Rest'
  BY <1>1, <1>2 DEF IInv, Variables, Places, Rest, Empty
<1>4. Rests(<< >>, 0)'
  BY SubSeqEmpty DEF Rests, Proven
<1>5. Pending'
  BY <1>1, <1>2, <1>4 DEF Pending, Sizes
<1> QED
  BY <1>3, <1>5 DEF IInv

LEMMA RewriteInv ==
  ASSUME IInv, Rewrite
  PROVE  IInv'
<1>1. /\ pc = "rewrite" /\ pc' = "loop"
      /\ headers_chain_state' = state /\ state' = GenesisState
      /\ UNCHANGED <<best, proofs, parameters, i, trace>>
  BY DEF Rewrite
<1>2. /\ state.file = "state" /\ state.chain \in Seq(Blocks)
      /\ Len(state.chain) <= i /\ \E n \in Sizes : Rests(state.chain, n)
  BY <1>1 DEF IInv, Variables, Pending
<1>3. Variables'
  BY <1>1, <1>2, EmptySeq DEF IInv, Variables, GenesisState
<1>4. Places' /\ Pending'
  BY <1>1, <1>2 DEF Places, Pending
<1>5. \A chain, n : Rests(chain, n)' <=> Rests(chain, n)
  BY <1>1 DEF Rests, Proven
<1>6. Rest'
  BY <1>1, <1>2, <1>5 DEF Rest, Sizes
<1> QED
  BY <1>3, <1>4, <1>6 DEF IInv

LEMMA CreateBridgeInv ==
  ASSUME IInv, CreateBridge
  PROVE  IInv'
<1>1. /\ pc = "loop" /\ pc' = "run" /\ i < parameters.batches * batch_size
      /\ UNCHANGED <<best, headers_chain_state, proofs, parameters, i, state, trace>>
  BY DEF CreateBridge, files
<1>2. \A chain, n : Rests(chain, n)' <=> Rests(chain, n)
  BY <1>1 DEF Rests, Proven
<1>3. Variables' /\ Places' /\ Pending'
  BY <1>1 DEF IInv, Variables, Places, Pending, batch_size
<1>4. Rest'
  BY <1>1, <1>2 DEF IInv, Rest, Sizes
<1> QED
  BY <1>3, <1>4 DEF IInv

\* A valid batch rests on the proof of the state it started from.
LEMMA BatchRests ==
  ASSUME IInv, CairoRun
  PROVE  /\ trace'.chain \in Seq(Blocks) /\ Len(trace'.chain) <= i + batch_size
         /\ Rests(trace'.chain, batch_size)
<1> DEFINE chain == headers_chain_state.chain
<1>1. /\ pc = "run" /\ headers_chain_state.file = "state"
      /\ Len(best) >= Height + batch_size
      /\ chain = SubSeq(best, 1, Height) /\ VerifiesParent
      /\ trace'.chain = SubSeq(best, 1, Height + batch_size)
  BY DEF CairoRun, CairoRuns, BatchIsValid, Extended
<1>2. /\ best \in Seq(Blocks) /\ batch_size \in Nat \ {0} /\ i \in Nat
      /\ Height \in Nat /\ Height <= i /\ Len(best) \in Nat
  BY <1>1, Parameter, HeadersChainProofAssumption, LenProperties
     DEF IInv, Variables, Places, Height
<1>3. trace'.chain \in Seq(Blocks) /\ Len(trace'.chain) = Height + batch_size
  BY <1>1, <1>2, PrefixType
<1>4. SubSeq(trace'.chain, 1, Height) = chain
  BY <1>1, <1>2, PrefixOfPrefix
<1>5. Len(chain) = Height
  BY DEF Height
<1>6. Proven(chain)
  <2>1. CASE Height = 0
    BY <2>1, <1>1, SubSeqEmpty DEF Proven
  <2>2. CASE Height > 0
    BY <2>2, <1>1 DEF VerifiesParent, ParentProof, Proven, Height
  <2> QED
    BY <2>1, <2>2, <1>2
<1>7. batch_size \in 0 .. Len(trace'.chain) /\ Len(trace'.chain) - batch_size = Height
  BY <1>2, <1>3
<1>8. Proven(SubSeq(trace'.chain, 1, Len(trace'.chain) - batch_size))
  BY <1>4, <1>6, <1>7
<1>9. Rests(trace'.chain, batch_size)
  BY <1>7, <1>8, Zenon DEF Rests
<1>10. Len(trace'.chain) <= i + batch_size
  BY <1>2, <1>3
<1> QED
  BY <1>3, <1>9, <1>10

LEMMA CairoRunInv ==
  ASSUME IInv, CairoRun
  PROVE  IInv'
<1>1. /\ pc = "run" /\ pc' = "open" /\ headers_chain_state.file = "state"
      /\ UNCHANGED <<best, headers_chain_state, proofs, parameters, i, state>>
  BY DEF CairoRun, CairoRuns, files
<1>2. /\ trace'.chain \in Seq(Blocks) /\ Len(trace'.chain) <= i + batch_size
      /\ Rests(trace'.chain, batch_size)
  BY BatchRests
<1>3. \A chain, n : Rests(chain, n)' <=> Rests(chain, n)
  BY <1>1 DEF Rests, Proven
<1>4. batch_size' = batch_size
  BY <1>1 DEF batch_size
<1>5. PICK chain : chain = trace'.chain
  OBVIOUS
<1>6. Rests(chain, batch_size)'
  BY <1>2, <1>3, <1>4, <1>5
<1>7. Variables' /\ Places'
  BY <1>1, <1>4 DEF IInv, Variables, Places
<1>8. Pending'
  BY <1>1, <1>2, <1>4, <1>5, <1>6 DEF Pending
<1>9. Rest'
  BY <1>1, <1>3 DEF IInv, Rest, Sizes
<1> QED
  BY <1>7, <1>8, <1>9 DEF IInv

LEMMA OpenStateInv ==
  ASSUME IInv, OpenState
  PROVE  IInv'
<1>1. /\ pc = "open" /\ pc' = "write" /\ headers_chain_state' = Empty
      /\ state'.file = "state" /\ state'.chain = trace.chain
      /\ UNCHANGED <<best, proofs, parameters, i, trace>>
  BY DEF OpenState
<1>2. /\ trace.chain \in Seq(Blocks) /\ Len(trace.chain) <= i + batch_size
      /\ Rests(trace.chain, batch_size)
  BY <1>1 DEF IInv, Pending
<1>3. \A chain, n : Rests(chain, n)' <=> Rests(chain, n)
  BY <1>1 DEF Rests, Proven
<1>4. batch_size' = batch_size
  BY <1>1 DEF batch_size
<1>5. Variables' /\ Places' /\ Rest'
  BY <1>1, <1>2, <1>4 DEF IInv, Variables, Places, Rest, Empty
<1>6. Pending'
  BY <1>1, <1>2, <1>3, <1>4 DEF Pending
<1> QED
  BY <1>5, <1>6 DEF IInv

LEMMA WriteStateInv ==
  ASSUME IInv, WriteState
  PROVE  IInv'
<1>1. /\ pc = "write" /\ pc' = "prove"
      /\ headers_chain_state' = state /\ state' = GenesisState
      /\ UNCHANGED <<best, proofs, parameters, i, trace>>
  BY DEF WriteState
<1>2. /\ state.file = "state" /\ state.chain = trace.chain
      /\ trace.chain \in Seq(Blocks) /\ Len(trace.chain) <= i + batch_size
      /\ Rests(trace.chain, batch_size)
  BY <1>1 DEF IInv, Variables, Pending
<1>3. \A chain, n : Rests(chain, n)' <=> Rests(chain, n)
  BY <1>1 DEF Rests, Proven
<1>4. batch_size' = batch_size
  BY <1>1 DEF batch_size
<1>5. Variables' /\ Places'
  BY <1>1, <1>2, <1>4, EmptySeq DEF IInv, Variables, Places, GenesisState
<1>6. Pending'
  BY <1>1, <1>2, <1>3, <1>4 DEF Pending
<1>7. Rest'
  <2>1. batch_size \in Nat /\ i \in Nat /\ batch_size \in Sizes /\ Len(trace.chain) \in Nat
    BY <1>2, Parameter, LenProperties
  <2>2. Len(trace.chain) - batch_size <= i
    BY <1>2, <2>1
  <2> QED
    BY <1>1, <1>2, <1>3, <1>4, <2>1, <2>2 DEF Rest, Sizes
<1> QED
  BY <1>5, <1>6, <1>7 DEF IInv

LEMMA WriteStateFailsInv ==
  ASSUME IInv, WriteStateFails
  PROVE  IInv'
<1>1. /\ pc \in {"open", "write"} /\ pc' = "prove" /\ state' = GenesisState
      /\ UNCHANGED <<best, headers_chain_state, proofs, parameters, i, trace>>
  BY DEF WriteStateFails, files
<1>2. \A chain, n : Rests(chain, n)' <=> Rests(chain, n)
  BY <1>1 DEF Rests, Proven
<1>3. batch_size' = batch_size
  BY <1>1 DEF batch_size
<1>4. Variables' /\ Places'
  BY <1>1, <1>3, EmptySeq DEF IInv, Variables, Places, GenesisState
<1>5. Pending'
  BY <1>1, <1>2, <1>3 DEF IInv, Pending
<1>6. Rest'
  <2>1. CASE pc = "write"
    BY <1>1, <2>1 DEF IInv, Places, Rest, Empty
  <2>2. CASE pc = "open"
    <3>1. /\ headers_chain_state.file = "state" /\ Len(headers_chain_state.chain) <= i
          /\ \E n \in Sizes : Rests(headers_chain_state.chain, n)
      BY <2>2 DEF IInv, Places, Rest
    <3>2. Len(headers_chain_state.chain) \in Nat /\ i \in Nat /\ batch_size \in Nat
      BY <3>1, Parameter, LenProperties DEF IInv, Variables
    <3>3. PICK n \in Sizes : Rests(headers_chain_state.chain, n)
      BY <3>1
    <3>4. n \in Nat
      BY <3>2, <3>3 DEF Rests
    <3>5. /\ Len(headers_chain_state.chain) - n <= i
          /\ Len(headers_chain_state.chain) <= i + batch_size
      BY <3>1, <3>2, <3>4
    <3> QED
      BY <1>1, <1>2, <1>3, <3>3, <3>5 DEF Rest, Sizes
  <2> QED
    BY <1>1, <2>1, <2>2
<1> QED
  BY <1>4, <1>5, <1>6 DEF IInv

\* The end of a batch, with or without its proof.
LEMMA BatchInv ==
  ASSUME IInv, pc = "prove", NextBatch, NEW file,
         proofs' = proofs \/ proofs' = [proofs EXCEPT ![i + batch_size - 1] = file],
         UNCHANGED <<best, headers_chain_state, parameters, state>>
  PROVE  IInv'
<1>1. /\ batch_size \in Nat \ {0} /\ i \in Nat /\ i' = i + batch_size /\ pc' = "loop"
  BY Parameter DEF NextBatch
<1>2. Variables' /\ Pending'
  BY <1>1 DEF IInv, Variables, Pending
<1>3. Places'
  BY <1>1 DEF IInv, Rest, Places, batch_size
<1>4. Rest'
  <2> SUFFICES ASSUME headers_chain_state.file = "state"
               PROVE  \E n \in Sizes : Rests(headers_chain_state.chain, n)'
    BY <1>1 DEF Rest, Sizes
  <2> DEFINE chain == headers_chain_state.chain
  <2>1. PICK n \in Sizes : Rests(chain, n) /\ Len(chain) - n <= i
    BY DEF IInv, Rest
  <2> DEFINE proven == SubSeq(chain, 1, Len(chain) - n)
  <2>2. chain \in Seq(Blocks) /\ Len(chain) \in Nat /\ n \in 0 .. Len(chain)
    BY <2>1, LenProperties DEF IInv, Variables, Rests
  <2>3. Len(proven) = Len(chain) - n /\ Len(proven) \in Nat
    BY <2>2, PrefixType
  <2>4. CASE proven = << >>
    BY <2>1, <2>4 DEF Rests, Proven
  <2>5. CASE proven # << >>
    <3>1. proofs[Len(proven) - 1].file = "proof" /\ proofs[Len(proven) - 1].chain = proven
      BY <2>1, <2>5 DEF Rests, Proven
    <3>2. Len(proven) > 0
      BY <2>2, <2>3, <2>5, SubSeqEmpty
    <3>3. Len(proven) - 1 \in Names /\ Len(proven) - 1 # i + batch_size - 1
      BY <2>1, <2>3, <3>2, NamesApart
    <3>4. proofs'[Len(proven) - 1] = proofs[Len(proven) - 1]
      BY <3>3 DEF IInv, Variables
    <3>5. Proven(proven)'
      BY <3>1, <3>4 DEF Proven
    <3> QED
      BY <2>1, <3>5 DEF Rests
  <2> QED
    BY <2>4, <2>5
<1> QED
  BY <1>2, <1>3, <1>4 DEF IInv

LEMMA NextInv == IInv /\ [Next]_vars => IInv'
<1> SUFFICES ASSUME IInv, [Next]_vars PROVE IInv'
  OBVIOUS
<1>0. best \in Chains /\ parameters \in Parameters /\ i \in Nat
      /\ state.file = "state" /\ state.chain \in Seq(Blocks)
  BY DEF IInv, Variables
<1>1. ASSUME NEW p \in Parameters, Start(p) PROVE IInv'
  BY <1>0, <1>1, OutsideInv DEF Start, files
<1>2. CASE Mkdir \/ CalmDown \/ Reorganise \/ UNCHANGED vars
  BY <1>0, <1>2, SameInv DEF Mkdir, CalmDown, Reorganise, vars, files
<1>3. CASE Resume
  BY <1>3, ResumeInv
<1>4. CASE Genesis
  BY <1>4, GenesisInv
<1>5. CASE Rewrite
  BY <1>5, RewriteInv
<1>6. CASE ResumeFails \/ GenesisFails \/ CairoRunFails \/ CreateBridgeFails \/ Finish \/ Kill
  BY <1>6, EndsInv
     DEF ResumeFails, GenesisFails, CairoRunFails, CreateBridgeFails, Finish, Kill, Stopped
<1>7. CASE CreateBridge
  BY <1>7, CreateBridgeInv
<1>8. CASE CairoRun
  BY <1>8, CairoRunInv
<1>9. CASE OpenState
  BY <1>9, OpenStateInv
<1>10. CASE WriteState
  BY <1>10, WriteStateInv
<1>11. CASE WriteStateFails
  BY <1>11, WriteStateFailsInv
<1>12. CASE Prove
  BY <1>12, BatchInv DEF Prove
<1>13. CASE ProveFails
  BY <1>13, BatchInv DEF ProveFails
<1> QED
  BY <1>1, <1>2, <1>3, <1>4, <1>5, <1>6, <1>7, <1>8, <1>9, <1>10, <1>11, <1>12, <1>13
     DEF Next, DriverStep

-----------------------------------------------------------------------------
\* A run needs the proof of the state it starts from: with a state that has none
\* nothing is proven, and another start only reads the same state.
LEMMA StuckStays == IInv /\ [Next]_vars => (Stuck => Stuck')
<1> SUFFICES ASSUME IInv, [Next]_vars, Stuck PROVE Stuck'
  OBVIOUS
<1> DEFINE chain == headers_chain_state.chain
<1>0. /\ pc \in {"rewrite", "write"} => headers_chain_state = Empty
      /\ pc = "open" => headers_chain_state.file = "state"
      /\ state.file = "state" /\ Empty.file # "state" /\ NoFile # Empty /\ NoFile.file # "state"
  BY DEF IInv, Places, Variables, Empty, NoFile
<1>1. CASE headers_chain_state = Empty /\ pc \notin {"rewrite", "write"}
  <2>1. headers_chain_state' = Empty /\ pc' \notin {"rewrite", "write"}
    BY <1>0, <1>1 DEF Next, DriverStep, Start, Mkdir, Resume, ResumeFails, Genesis, GenesisFails,
       Rewrite, CreateBridge, CreateBridgeFails, CairoRun, CairoRuns, CairoRunFails, OpenState,
       WriteState, WriteStateFails, Prove, ProveFails, NextBatch, Finish, Kill, Reorganise,
       CalmDown, Ends, files, vars
  <2> QED
    BY <2>1 DEF Stuck
<1>2. CASE headers_chain_state.file = "state" /\ pc \notin {"open", "prove"} /\ ~Proven(chain)
  <2>1. UNCHANGED proofs
    BY <1>0, <1>2 DEF Next, DriverStep, Start, Mkdir, Resume, ResumeFails, Genesis, GenesisFails,
       Rewrite, CreateBridge, CreateBridgeFails, CairoRun, CairoRunFails, OpenState,
       WriteState, WriteStateFails, Prove, ProveFails, Finish, Kill, Reorganise,
       CalmDown, files, vars
  <2>2. \A c : Proven(c)' <=> Proven(c)
    BY <2>1 DEF Proven
  <2>3. ~CairoRun
    <3>1. SUFFICES ASSUME CairoRun PROVE Proven(chain)
      BY <1>2
    <3>2. chain \in Seq(Blocks) /\ Height = Len(chain) /\ VerifiesParent
      BY <1>2, <3>1 DEF IInv, Variables, Height, CairoRun, CairoRuns
    <3>3. CASE Height = 0
      BY <3>2, <3>3, EmptySeq DEF Proven
    <3>4. CASE Height > 0
      BY <3>2, <3>4 DEF VerifiesParent, ParentProof, Proven
    <3> QED
      BY <3>2, <3>3, <3>4, LenProperties
  <2>4. CASE Resume
    <3>1. pc' = "rewrite" /\ state' = headers_chain_state
      BY <2>4 DEF Resume
    <3> QED
      BY <1>2, <2>2, <3>1 DEF Stuck
  <2>5. CASE ~Resume
    <3>1. UNCHANGED headers_chain_state /\ pc' \notin {"open", "prove"}
      BY <1>0, <1>2, <2>3, <2>5 DEF Next, DriverStep, Start, Mkdir, ResumeFails, Genesis,
         GenesisFails, Rewrite, CreateBridge, CreateBridgeFails, CairoRunFails, OpenState,
         WriteState, WriteStateFails, Prove, ProveFails, Finish, Kill, Reorganise,
         CalmDown, Ends, files, vars
    <3> QED
      BY <1>2, <2>2, <3>1 DEF Stuck
  <2> QED
    BY <2>4, <2>5
<1>3. CASE pc = "rewrite" /\ ~Proven(state.chain)
  <2>1. UNCHANGED proofs
    BY <1>3 DEF Next, DriverStep, Start, Mkdir, Resume, ResumeFails, Genesis, GenesisFails,
       Rewrite, CreateBridge, CreateBridgeFails, CairoRun, CairoRunFails, OpenState,
       WriteState, WriteStateFails, Prove, ProveFails, Finish, Kill, Reorganise,
       CalmDown, files, vars
  <2>2. \A c : Proven(c)' <=> Proven(c)
    BY <2>1 DEF Proven
  <2>3. CASE Rewrite
    <3>1. headers_chain_state' = state /\ pc' = "loop"
      BY <2>3 DEF Rewrite
    <3> QED
      BY <1>0, <1>3, <2>2, <3>1 DEF Stuck
  <2>4. CASE Kill
    <3>1. headers_chain_state' = Empty /\ pc' = "off"
      BY <1>0, <1>3, <2>4 DEF Kill, Ends, files
    <3> QED
      BY <3>1 DEF Stuck
  <2>5. CASE ~Rewrite /\ ~Kill
    <3>1. UNCHANGED <<pc, state>>
      BY <1>3, <2>5 DEF Next, DriverStep, Start, Stopped, Mkdir, Resume, ResumeFails, Genesis,
         GenesisFails, CreateBridge, CreateBridgeFails, CairoRun, CairoRunFails, OpenState,
         WriteState, WriteStateFails, Prove, ProveFails, Finish, Reorganise, CalmDown, vars
    <3> QED
      BY <1>3, <2>2, <3>1 DEF Stuck
  <2> QED
    BY <2>3, <2>4, <2>5
<1> QED
  BY <1>1, <1>2, <1>3 DEF Stuck

\* Between any two steps of the driver, of a killed one and of the next, the
\* state, the batch at hand and the proofs fit together.
THEOREM HeadersInvariant == Spec => []IInv
<1> QED
  BY InitInv, NextInv, PTL DEF Spec

\* A state is ahead of the proofs by one batch at most, whatever batch sizes the
\* driver was started with and wherever it was stopped.
THEOREM StateRestsOnProofs == Spec => []StateIsProvenButForLastBatch
<1>1. IInv => StateIsProvenButForLastBatch
  <2> SUFFICES ASSUME IInv, headers_chain_state.file = "state"
               PROVE  StateIsProvenButForLastBatch
    BY DEF StateIsProvenButForLastBatch
  <2> DEFINE chain == headers_chain_state.chain
  <2>1. PICK n \in Sizes : Rests(chain, n)
    BY DEF IInv, Rest
  <2>2. chain \in Seq(Blocks)
    BY DEF IInv, Variables
  <2>3. n <= Len(chain) /\ Proven(SubSeq(chain, 1, Len(chain) - n))
    BY <2>1, <2>2, LenProperties DEF Rests
  <2> QED
    BY <2>3 DEF StateIsProvenButForLastBatch, Sizes
<1> QED
  BY <1>1, HeadersInvariant, PTL

\* No step of the driver, and no other start of it, leads out of a state whose
\* proof is missing, or out of a file that was cut off.
THEOREM StuckForever == Spec => FailedProofIsFinal
<1>1. IInv /\ [Next]_vars => [Stuck => Stuck']_vars
  BY StuckStays
<1> QED
  BY <1>1, HeadersInvariant, PTL DEF Spec, FailedProofIsFinal

-----------------------------------------------------------------------------
(* Folds *)

\* A set of numbers up to n has a greatest one.
LEMMA MaxOfSet ==
  ASSUME NEW n \in Nat, NEW s \in SUBSET (1 .. n), s # {}
  PROVE  Max(s) \in s /\ \A y \in s : Max(s) >= y
<1> DEFINE T == {k \in Nat : \A y \in s : y <= k}
<1>1. n \in T /\ T \in SUBSET Nat
  OBVIOUS
<1>2. PICK k \in T : \A y \in T : k <= y
  <2> HIDE DEF T
  <2> QED
    BY <1>1, LeastNumber
<1>3. k \in s
  <2> SUFFICES ASSUME k \notin s PROVE FALSE
    OBVIOUS
  <2>1. PICK y \in s : TRUE
    OBVIOUS
  <2>2. y <= k /\ y >= 1 /\ y \in Nat /\ k \in Nat
    BY <1>2
  <2>3. k - 1 \in Nat /\ \A z \in s : z <= k - 1
    BY <1>2, <2>2
  <2>4. k <= k - 1
    BY <1>2, <2>3
  <2> QED
    BY <2>2, <2>4
<1>4. \A y \in s : k >= y
  BY <1>2
<1> QED
  BY <1>3, <1>4 DEF Max

\* The greatest of an interval is its end.
LEMMA MaxOfInterval ==
  ASSUME NEW k \in Nat \ {0}
  PROVE  Max(1 .. k) = k /\ (1 .. k) \ {k} = 1 .. k - 1
<1>1. k \in Nat /\ (1 .. k) # {} /\ 1 .. k \in SUBSET (1 .. k) /\ k \in 1 .. k
  OBVIOUS
<1> DEFINE m == Max(1 .. k)
<1>2. m \in 1 .. k /\ m >= k
  BY <1>1, MaxOfSet
<1> HIDE DEF m
<1>3. m = k
  BY <1>2
<1> QED
  BY <1>3 DEF m

\* Without its greatest number a set is smaller.
LEMMA WithoutMax ==
  ASSUME NEW n \in Nat, NEW s \in SUBSET (1 .. n), s # {}, NEW k \in Nat,
         Cardinality(s) <= k + 1
  PROVE  s \ {Max(s)} \in SUBSET (1 .. n) /\ Cardinality(s \ {Max(s)}) <= k
<1> DEFINE m == Max(s)
<1>1. m \in s
  BY MaxOfSet
<1>2. IsFiniteSet(1 .. n)
  BY FS_Interval
<1>3. IsFiniteSet(s) /\ Cardinality(s) \in Nat
  BY <1>2, FS_Subset, FS_CardinalityType
<1>4. Cardinality(s \ {m}) = Cardinality(s) - 1
  BY <1>1, <1>3, FS_RemoveElement
<1> HIDE DEF m
<1>5. s \ {m} \in SUBSET (1 .. n)
  OBVIOUS
<1>6. Cardinality(s \ {m}) <= k
  BY <1>3, <1>4
<1> QED
  BY <1>5, <1>6 DEF m

\* The steps of the two folds: hashing with a root, and adding a leaf.
Combine(fold, x, y) == IF fold = "carry" THEN hash2(x, y) ELSE mmr_add(y, x)
FoldStep(f, fold, base, seq, s) ==
  IF s = {} THEN base ELSE Combine(fold, seq[Max(s)], f[s \ {Max(s)}])
FoldUpto(f, fold, base, seq, n, k) ==
  \A s \in SUBSET (1 .. n) : Cardinality(s) <= k => f[s] = FoldStep(f, fold, base, seq, s)

\* The recursive function in the definition of a fold exists, because it asks
\* only for the value of a smaller set.
LEMMA FoldExists ==
  ASSUME NEW n \in Nat, NEW fold, NEW base, NEW seq
  PROVE  \E f : f = [s \in SUBSET (1 .. n) |-> FoldStep(f, fold, base, seq, s)]
<1> DEFINE T == {k \in Nat : \E f : FoldUpto(f, fold, base, seq, n, k)}
<1>0. IsFiniteSet(1 .. n) /\ Cardinality(1 .. n) = n
  BY FS_Interval
<1>1. 0 \in T
  <2> DEFINE f == [s \in SUBSET (1 .. n) |-> base]
  <2>1. ASSUME NEW s \in SUBSET (1 .. n), Cardinality(s) <= 0 PROVE s = {}
    <3>1. IsFiniteSet(s) /\ Cardinality(s) \in Nat
      BY <1>0, FS_Subset, FS_CardinalityType
    <3>2. Cardinality(s) = 0
      BY <2>1, <3>1
    <3> QED
      BY <3>1, <3>2, FS_EmptySet
  <2>2. FoldUpto(f, fold, base, seq, n, 0)
    BY <2>1 DEF FoldUpto, FoldStep
  <2> HIDE DEF f
  <2> QED
    BY <2>2
<1>2. ASSUME NEW k \in Nat, k \in T PROVE k + 1 \in T
  <2>1. PICK f : FoldUpto(f, fold, base, seq, n, k)
    BY <1>2
  <2> DEFINE g == [s \in SUBSET (1 .. n) |-> FoldStep(f, fold, base, seq, s)]
  <2>2. ASSUME NEW s \in SUBSET (1 .. n), Cardinality(s) <= k + 1
        PROVE  g[s] = FoldStep(g, fold, base, seq, s)
    <3>1. CASE s = {}
      BY <3>1 DEF FoldStep
    <3>2. CASE s # {}
      <4> DEFINE t == s \ {Max(s)}
      <4>1. t \in SUBSET (1 .. n) /\ Cardinality(t) <= k
        BY <2>2, <3>2, WithoutMax
      <4>2. f[t] = g[t]
        <5> HIDE DEF t
        <5> QED
          BY <2>1, <4>1 DEF FoldUpto
      <4>3. g[s] = Combine(fold, seq[Max(s)], f[t])
        BY <3>2 DEF FoldStep
      <4>4. FoldStep(g, fold, base, seq, s) = Combine(fold, seq[Max(s)], g[t])
        <5> HIDE DEF g
        <5> QED
          BY <3>2 DEF FoldStep
      <4> QED
        BY <4>2, <4>3, <4>4
    <3> QED
      BY <3>1, <3>2
  <2> HIDE DEF g
  <2>3. FoldUpto(g, fold, base, seq, n, k + 1)
    BY <2>2 DEF FoldUpto
  <2> QED
    BY <2>3
<1>3. n \in T
  <2> HIDE DEF T
  <2>1. Nat \subseteq T
    BY <1>1, <1>2, SetInduction
  <2> QED
    BY <2>1
<1>4. PICK f : FoldUpto(f, fold, base, seq, n, n)
  BY <1>3
<1> DEFINE g == [s \in SUBSET (1 .. n) |-> FoldStep(f, fold, base, seq, s)]
<1>5. ASSUME NEW s \in SUBSET (1 .. n) PROVE f[s] = FoldStep(f, fold, base, seq, s)
  <2>1. Cardinality(s) <= n
    BY <1>0, FS_Subset
  <2> QED
    BY <1>4, <2>1 DEF FoldUpto
<1>6. ASSUME NEW s \in SUBSET (1 .. n) PROVE g[s] = FoldStep(g, fold, base, seq, s)
  <2>1. CASE s = {}
    BY <2>1 DEF FoldStep
  <2>2. CASE s # {}
    <3> DEFINE t == s \ {Max(s)}
    <3>1. t \in SUBSET (1 .. n)
      OBVIOUS
    <3>2. f[t] = g[t]
      <4> HIDE DEF t
      <4> QED
        BY <1>5, <3>1
    <3>3. g[s] = Combine(fold, seq[Max(s)], f[t])
      BY <2>2 DEF FoldStep
    <3>4. FoldStep(g, fold, base, seq, s) = Combine(fold, seq[Max(s)], g[t])
      <4> HIDE DEF g
      <4> QED
        BY <2>2 DEF FoldStep
    <3> QED
      BY <3>2, <3>3, <3>4
  <2> QED
    BY <2>1, <2>2
<1>7. g = [s \in SUBSET (1 .. n) |-> g[s]]
  OBVIOUS
<1> HIDE DEF g
<1>8. g = [s \in SUBSET (1 .. n) |-> FoldStep(g, fold, base, seq, s)]
  BY <1>6, <1>7
<1> QED
  BY <1>8

\* The function that the definition of a fold chooses.
FoldIter(fold, base, seq, n) == CHOOSE f : f = [s \in SUBSET (1 .. n) |-> FoldStep(f, fold, base, seq, s)]

\* The values of it after 0 .. n elements.
Passes(v, fold, base, seq, n) ==
  v[0] = base /\ \A k \in 1 .. n : v[k] = Combine(fold, seq[k], v[k - 1])

\* It goes through the elements in their order.
LEMMA FoldInOrder ==
  ASSUME NEW n \in Nat, NEW fold, NEW base, NEW seq, NEW v, Passes(v, fold, base, seq, n)
  PROVE  FoldIter(fold, base, seq, n)[1 .. n] = v[n]
<1> DEFINE iter == FoldIter(fold, base, seq, n)
<1>2. iter = [s \in SUBSET (1 .. n) |-> FoldStep(iter, fold, base, seq, s)]
  BY FoldExists DEF FoldIter
<1> HIDE DEF iter
<1> DEFINE T == {k \in 0 .. n : iter[1 .. k] = v[k]}
<1>3. 0 \in T
  <2>1. 1 .. 0 = {} /\ {} \in SUBSET (1 .. n)
    OBVIOUS
  <2>2. iter[{}] = base
    BY <1>2, <2>1 DEF FoldStep
  <2> QED
    BY <2>1, <2>2 DEF Passes
<1>4. ASSUME NEW k \in 0 .. n - 1, k \in T PROVE k + 1 \in T
  <2>1. /\ k \in Nat /\ k + 1 \in Nat \ {0} /\ k + 1 \in 1 .. n
        /\ (k + 1) - 1 = k /\ k + 1 \in 0 .. n
    OBVIOUS
  <2>4. \A y \in 1 .. k + 1 : y \in 1 .. n
    OBVIOUS
  <2>6. 1 .. k + 1 # {}
    <3>1. k + 1 \in 1 .. k + 1
      BY <2>1
    <3> QED
      BY <3>1, Zenon
  <2>5. 1 .. k + 1 \in SUBSET (1 .. n) /\ 1 .. k + 1 # {}
    BY <2>4, <2>6, Zenon
  <2>2. Max(1 .. k + 1) = k + 1 /\ (1 .. k + 1) \ {k + 1} = 1 .. k
    BY <2>1, MaxOfInterval
  <2>3. iter[1 .. k + 1] = Combine(fold, seq[k + 1], iter[1 .. k])
    BY <1>2, <2>1, <2>2, <2>5 DEF FoldStep
  <2> QED
    BY <1>4, <2>1, <2>3 DEF Passes
<1>5. 0 .. n \subseteq T
  <2> HIDE DEF T
  <2> QED
    BY <1>3, <1>4, IntervalInduction
<1>6. iter[1 .. n] = v[n]
  BY <1>5
<1> QED
  BY <1>6 DEF iter

\* What the loop of mmr_add carries into the first empty place.
LEMMA Carried ==
  ASSUME NEW n \in Nat, NEW leaf, NEW seq, DOMAIN seq = 1 .. n,
         NEW v, v[0] = leaf, \A k \in 1 .. n : v[k] = hash2(seq[k], v[k - 1])
  PROVE  Carry(seq, leaf) = v[n]
<1>1. Carry(seq, leaf) = FoldIter("carry", leaf, seq, n)[1 .. n]
  BY DEF Carry, FoldLeft, MapThenFoldSet, FoldIter, FoldStep, Combine
<1>2. Passes(v, "carry", leaf, seq, n)
  BY DEF Passes, Combine
<1>3. FoldIter("carry", leaf, seq, n)[1 .. n] = v[n]
  BY <1>2, FoldInOrder
<1> QED
  BY <1>1, <1>3

\* What the loop of mmr_add_leaves ends with.
LEMMA AllAdded ==
  ASSUME NEW n \in Nat, NEW roots, NEW seq, DOMAIN seq = 1 .. n,
         NEW v, v[0] = roots, \A k \in 1 .. n : v[k] = mmr_add(v[k - 1], seq[k])
  PROVE  mmr_add_leaves(roots, seq) = v[n]
<1>1. mmr_add_leaves(roots, seq) = FoldIter("add", roots, seq, n)[1 .. n]
  BY DEF mmr_add_leaves, FoldLeft, MapThenFoldSet, FoldIter, FoldStep, Combine
<1>2. Passes(v, "add", roots, seq, n)
  BY DEF Passes, Combine
<1>3. FoldIter("add", roots, seq, n)[1 .. n] = v[n]
  BY <1>2, FoldInOrder
<1> QED
  BY <1>1, <1>3

\* A sequence is its own prefix.
LEMMA WholePrefix ==
  ASSUME NEW S, NEW s \in Seq(S)
  PROVE  SubSeq(s, 1, Len(s)) = s
<1>1. Len(s) \in Nat /\ \A m \in 1 .. Len(s) : s[m] \in S
  BY ElementOfSeq, LenProperties
<1>2. /\ SubSeq(s, 1, Len(s)) \in Seq(S) /\ Len(SubSeq(s, 1, Len(s))) = Len(s)
  BY <1>1, PrefixType
<1>3. \A m \in 1 .. Len(s) : SubSeq(s, 1, Len(s))[m] = s[m]
  BY <1>1, SubSeqProperties
<1> QED
  BY <1>2, <1>3, SeqEqual

-----------------------------------------------------------------------------
(* Perfect trees *)

\* Row k of the recursive function, from the one below it in f.
PerfectRow(f, chain, k) ==
  [n \in 0 .. Len(chain) - 2^k |->
    IF k = 0 THEN Leaf(SubSeq(chain, 1, n + 1))
    ELSE hash2(f[k - 1][n], f[k - 1][n + 2^(k - 1)])]
PerfectRows(chain, h) == CHOOSE f : f = [k \in 0 .. h |-> PerfectRow(f, chain, k)]

\* The recursive function of Perfect exists.
LEMMA PerfectRowsExist ==
  ASSUME NEW chain, NEW h \in Nat
  PROVE  PerfectRows(chain, h) = [k \in 0 .. h |-> PerfectRow(PerfectRows(chain, h), chain, k)]
<1> DEFINE Rows(f, m) == f = [k \in 0 .. m |-> PerfectRow(f, chain, k)]
           T == {m \in 0 .. h : \E f : Rows(f, m)}
<1>1. 0 \in T
  <2> DEFINE f == [k \in 0 .. 0 |-> PerfectRow(<< >>, chain, 0)]
  <2>1. \A g : PerfectRow(g, chain, 0) = PerfectRow(<< >>, chain, 0)
    BY DEF PerfectRow
  <2>2. Rows(f, 0)
    <3>1. \A k \in 0 .. 0 : PerfectRow(f, chain, k) = PerfectRow(<< >>, chain, 0)
      BY <2>1
    <3> QED
      BY <3>1
  <2> HIDE DEF Rows
  <2> QED
    BY <2>2
<1>2. ASSUME NEW m \in 0 .. h - 1, m \in T PROVE m + 1 \in T
  <2>1. PICK f : Rows(f, m)
    BY <1>2
  <2> DEFINE g == [k \in 0 .. m + 1 |-> PerfectRow(f, chain, k)]
  <2>2. ASSUME NEW k \in 0 .. m + 1 PROVE g[k] = PerfectRow(g, chain, k)
    <3>1. CASE k = 0
      BY <3>1 DEF PerfectRow
    <3>2. CASE k # 0
      <4>1. k - 1 \in 0 .. m
        BY <3>2
      <4>2. f[k - 1] = g[k - 1]
        BY <2>1, <4>1
      <4> HIDE DEF g
      <4>3. PerfectRow(f, chain, k) = PerfectRow(g, chain, k)
        BY <4>2 DEF PerfectRow
      <4> QED
        BY <4>3 DEF g
    <3> QED
      BY <3>1, <3>2
  <2>3. g = [k \in 0 .. m + 1 |-> g[k]]
    OBVIOUS
  <2> HIDE DEF g
  <2>4. Rows(g, m + 1)
    BY <2>2, <2>3
  <2>5. m + 1 \in 0 .. h
    OBVIOUS
  <2> HIDE DEF Rows
  <2> QED
    BY <2>4, <2>5
<1>3. 0 .. h \subseteq T
  <2> HIDE DEF T
  <2> QED
    BY <1>1, <1>2, IntervalInduction
<1>4. \E f : Rows(f, h)
  <2>1. h \in 0 .. h
    OBVIOUS
  <2> QED
    BY <1>3, <2>1
<1>5. PerfectRows(chain, h) = CHOOSE f : Rows(f, h)
  BY DEF PerfectRows
<1>6. Rows(PerfectRows(chain, h), h)
  <2> HIDE DEF Rows
  <2> QED
    BY <1>4, <1>5
<1> QED
  BY <1>6

\* The tree is the node of its last row.
LEMMA PerfectIs ==
  ASSUME NEW chain, NEW h \in Nat, NEW from
  PROVE  Perfect(chain, from, h) = PerfectRows(chain, h)[h][from]
BY DEF Perfect, PerfectRows, PerfectRow

\* A node of a row within the chain.
LEMMA RowAt ==
  ASSUME NEW chain, Len(chain) \in Nat, NEW h \in Nat, NEW k \in 0 .. h,
         NEW n \in Nat, n + 2^k <= Len(chain)
  PROVE  PerfectRows(chain, h)[k][n] =
           IF k = 0 THEN Leaf(SubSeq(chain, 1, n + 1))
           ELSE hash2(PerfectRows(chain, h)[k - 1][n], PerfectRows(chain, h)[k - 1][n + 2^(k - 1)])
<1> DEFINE f == PerfectRows(chain, h)
<1>1. f[k] = PerfectRow(f, chain, k)
  <2>1. f = [m \in 0 .. h |-> PerfectRow(f, chain, m)]
    BY PerfectRowsExist
  <2> HIDE DEF f
  <2> QED
    BY <2>1
<1>2. n \in 0 .. Len(chain) - 2^k
  <2>1. 2^k \in Nat
    BY PowersOfTwo
  <2> QED
    BY <2>1
<1> HIDE DEF f
<1> QED
  BY <1>1, <1>2 DEF PerfectRow, f

\* The headers that a tree is over, and those before them, make its nodes.
LEMMA PerfectAgrees ==
  ASSUME NEW B, NEW c \in Seq(B), NEW d \in Seq(B), NEW N \in Nat,
         N <= Len(c), N <= Len(d), SubSeq(c, 1, N) = SubSeq(d, 1, N),
         NEW a \in Nat, NEW b \in Nat, NEW k \in Nat, k <= a, k <= b,
         NEW n \in Nat, n + 2^k <= N
  PROVE  PerfectRows(c, a)[k][n] = PerfectRows(d, b)[k][n]
<1> DEFINE C == PerfectRows(c, a)
           D == PerfectRows(d, b)
           T == {m \in 0 .. k : \A x \in Nat : x + 2^m <= N => C[m][x] = D[m][x]}
<1>1. Len(c) \in Nat /\ Len(d) \in Nat
  BY LenProperties
<1>2. 0 \in T
  <2> SUFFICES ASSUME NEW x \in Nat, x + 2^0 <= N PROVE C[0][x] = D[0][x]
    OBVIOUS
  <2>1. x + 1 \in 1 .. N /\ x + 2^0 <= Len(c) /\ x + 2^0 <= Len(d) /\ 0 \in 0 .. a /\ 0 \in 0 .. b
    BY <1>1, PowersOfTwo
  <2>2. C[0][x] = Leaf(SubSeq(c, 1, x + 1)) /\ D[0][x] = Leaf(SubSeq(d, 1, x + 1))
    BY <1>1, <2>1, RowAt
  <2>3. SubSeq(c, 1, x + 1) = SubSeq(d, 1, x + 1)
    <3>1. x + 1 \in 0 .. N /\ N \in 0 .. Len(c) /\ N \in 0 .. Len(d)
      BY <1>1, <2>1
    <3> QED
      BY <3>1, PrefixOfPrefix
  <2> QED
    BY <2>2, <2>3
<1>3. ASSUME NEW m \in 0 .. k - 1, m \in T PROVE m + 1 \in T
  <2> SUFFICES ASSUME NEW x \in Nat, x + 2^(m + 1) <= N PROVE C[m + 1][x] = D[m + 1][x]
    BY SMTT(30)
  <2>1. m \in Nat /\ m + 1 \in 0 .. a /\ m + 1 \in 0 .. b /\ m + 1 # 0 /\ (m + 1) - 1 = m
        /\ m + 1 \in 0 .. k
    OBVIOUS
  <2>2. 2^(m + 1) = 2 * 2^m /\ 2^m \in Nat
    BY <2>1, PowersOfTwo
  <2>3. x + 2^m \in Nat /\ x + 2^m <= N /\ (x + 2^m) + 2^m <= N
        /\ x + 2^(m + 1) <= Len(c) /\ x + 2^(m + 1) <= Len(d)
    BY <1>1, <2>2
  <2>4. C[m + 1][x] = hash2(C[m][x], C[m][x + 2^m])
    <3> HIDE DEF C
    <3>1. C[m + 1][x] = hash2(C[(m + 1) - 1][x], C[(m + 1) - 1][x + 2^((m + 1) - 1)])
      BY <1>1, <2>1, <2>3, RowAt DEF C
    <3> QED
      BY <2>1, <3>1
  <2>5. D[m + 1][x] = hash2(D[m][x], D[m][x + 2^m])
    <3> HIDE DEF D
    <3>1. D[m + 1][x] = hash2(D[(m + 1) - 1][x], D[(m + 1) - 1][x + 2^((m + 1) - 1)])
      BY <1>1, <2>1, <2>3, RowAt DEF D
    <3> QED
      BY <2>1, <3>1
  <2>6. C[m][x] = D[m][x] /\ C[m][x + 2^m] = D[m][x + 2^m]
    <3> HIDE DEF C, D
    <3> QED
      BY <1>3, <2>3
  <2> HIDE DEF C, D
  <2> QED
    BY <2>4, <2>5, <2>6
<1>4. 0 .. k \subseteq T
  <2> HIDE DEF T
  <2> QED
    BY <1>2, <1>3, IntervalInduction
<1> QED
  BY <1>4

\* A tree is hashed from the two of half its size.
LEMMA PerfectUp ==
  ASSUME NEW B, NEW c \in Seq(B), NEW h \in Nat, NEW from \in Nat, from + 2^(h + 1) <= Len(c)
  PROVE  Perfect(c, from, h + 1) = hash2(Perfect(c, from, h), Perfect(c, from + 2^h, h))
<1>1. Len(c) \in Nat
  BY LenProperties
<1>2. /\ h + 1 \in Nat /\ h + 1 \in 0 .. h + 1 /\ h + 1 # 0 /\ (h + 1) - 1 = h
  OBVIOUS
<1>3. 2^(h + 1) = 2 * 2^h /\ 2^h \in Nat
  BY PowersOfTwo
<1>4. from + 2^h \in Nat /\ from + 2^h <= Len(c) /\ (from + 2^h) + 2^h <= Len(c)
  BY <1>1, <1>3
<1> DEFINE C == PerfectRows(c, h + 1)
<1>5. C[h + 1][from] = hash2(C[h][from], C[h][from + 2^h])
  <2> HIDE DEF C
  <2>1. C[h + 1][from] = hash2(C[(h + 1) - 1][from], C[(h + 1) - 1][from + 2^((h + 1) - 1)])
    BY <1>1, <1>2, RowAt DEF C
  <2> QED
    BY <1>2, <2>1
<1>6. C[h][from] = PerfectRows(c, h)[h][from] /\ C[h][from + 2^h] = PerfectRows(c, h)[h][from + 2^h]
  BY <1>1, <1>2, <1>4, PerfectAgrees
<1> HIDE DEF C
<1>7. /\ Perfect(c, from, h + 1) = C[h + 1][from]
      /\ Perfect(c, from, h) = PerfectRows(c, h)[h][from]
      /\ Perfect(c, from + 2^h, h) = PerfectRows(c, h)[h][from + 2^h]
  BY <1>2, PerfectIs DEF C
<1> QED
  BY <1>5, <1>6, <1>7

\* The smallest tree is a leaf.
LEMMA PerfectLeaf ==
  ASSUME NEW B, NEW c \in Seq(B), NEW from \in Nat, from + 1 <= Len(c)
  PROVE  Perfect(c, from, 0) = Leaf(SubSeq(c, 1, from + 1))
<1>1. Len(c) \in Nat /\ from + 2^0 <= Len(c) /\ 0 \in 0 .. 0
  BY LenProperties, PowersOfTwo
<1>2. PerfectRows(c, 0)[0][from] = Leaf(SubSeq(c, 1, from + 1))
  BY <1>1, RowAt
<1> QED
  BY <1>2, PerfectIs

\* Headers that come later do not change a tree.
LEMMA PerfectOfPrefix ==
  ASSUME NEW B, NEW c \in Seq(B), NEW d \in Seq(B), Len(c) <= Len(d), SubSeq(d, 1, Len(c)) = c,
         NEW h \in Nat, NEW from \in Nat, from + 2^h <= Len(c)
  PROVE  Perfect(c, from, h) = Perfect(d, from, h)
<1>1. Len(c) \in Nat /\ SubSeq(c, 1, Len(c)) = SubSeq(d, 1, Len(c))
  <2>1. SubSeq(c, 1, Len(c)) = c
    BY WholePrefix
  <2> QED
    BY <2>1, LenProperties
<1>2. PerfectRows(c, h)[h][from] = PerfectRows(d, h)[h][from]
  <2> DEFINE N == Len(c)
  <2>1. N \in Nat /\ N <= Len(c) /\ N <= Len(d) /\ SubSeq(c, 1, N) = SubSeq(d, 1, N)
        /\ from + 2^h <= N /\ h <= h
    BY <1>1
  <2> HIDE DEF N
  <2> QED
    BY <2>1, PerfectAgrees
<1> QED
  BY <1>2, PerfectIs

\* A tree is not the mark of an empty place.
LEMMA PerfectIsNoNull ==
  ASSUME NEW B, NEW c \in Seq(B), NEW h \in Nat, NEW from \in Nat, from + 2^h <= Len(c)
  PROVE  Perfect(c, from, h) # NullRoot
<1>1. \A x, y : hash2(x, y) # NullRoot /\ Leaf(x) # NullRoot
  BY DEF hash2, Leaf, NullRoot
<1>2. CASE h = 0
  <2>1. from + 1 <= Len(c)
    BY <1>2, PowersOfTwo
  <2> QED
    BY <1>1, <1>2, <2>1, PerfectLeaf
<1>3. CASE h # 0
  <2>1. h - 1 \in Nat /\ (h - 1) + 1 = h
    BY <1>3
  <2>2. Perfect(c, from, (h - 1) + 1)
          = hash2(Perfect(c, from, h - 1), Perfect(c, from + 2^(h - 1), h - 1))
    <3>1. from + 2^((h - 1) + 1) <= Len(c)
      BY <2>1
    <3> QED
      BY <2>1, <3>1, PerfectUp
  <2> QED
    BY <1>1, <2>1, <2>2
<1> QED
  BY <1>2, <1>3

-----------------------------------------------------------------------------
(* Counting *)

\* Whether the binary digits of n below j are all one.
AllOnes(n, j) == n % 2^j = 2^j - 1

\* One digit more.
LEMMA OnesBelow ==
  ASSUME NEW n \in Nat, NEW j \in Nat
  PROVE  AllOnes(n, j + 1) <=> AllOnes(n, j) /\ (n \div 2^j) % 2 = 1
<1> DEFINE b == 2^j
           d == (n \div b) % 2
           r == n % b
<1>1. b \in Nat \ {0} /\ 2^(j + 1) = 2 * b
  BY PowersOfTwo
<1>2. n % (2 * b) = (b * d) + r
  <2> HIDE DEF b
  <2> QED
    BY <1>1, RemainderOfDouble DEF d, r
<1>3. r \in 0 .. b - 1 /\ n \div b \in Nat
  <2> HIDE DEF b
  <2> QED
    BY <1>1, Remainder DEF r
<1>4. d \in {0, 1}
  <2> HIDE DEF b
  <2> QED
    BY <1>3
<1>5. AllOnes(n, j + 1) <=> (b * d) + r = (2 * b) - 1
  BY <1>1, <1>2 DEF AllOnes
<1>6. AllOnes(n, j) <=> r = b - 1
  BY DEF AllOnes
<1> HIDE DEF b, d, r
<1>7. (b * d) + r = (2 * b) - 1 <=> r = b - 1 /\ d = 1
  <2>1. CASE d = 0
    BY <1>1, <1>3, <2>1
  <2>2. CASE d = 1
    BY <1>1, <1>3, <2>2
  <2> QED
    BY <1>4, <2>1, <2>2
<1> QED
  BY <1>5, <1>6, <1>7 DEF d, b

\* One more: a carry, ...
LEMMA CarryOver ==
  ASSUME NEW n \in Nat, NEW j \in Nat, AllOnes(n, j)
  PROVE  (n + 1) \div 2^j = (n \div 2^j) + 1 /\ (n + 1) % 2^j = 0 /\ n \div 2^j \in Nat
<1> DEFINE b == 2^j
           q == n \div b
<1>1. b \in Nat \ {0}
  BY PowersOfTwo
<1>2. q \in Nat /\ n = (b * q) + (n % b) /\ n % b = b - 1
  <2>1. n % b = b - 1
    BY DEF AllOnes
  <2> HIDE DEF b
  <2> QED
    BY <1>1, <2>1, Remainder
<1> HIDE DEF b, q
<1>3. n + 1 = (b * (q + 1)) + 0 /\ q + 1 \in Nat /\ 0 \in 0 .. b - 1
  <2>1. b * (q + 1) = (b * q) + b /\ b * q \in Nat
    BY <1>1, <1>2
  <2> QED
    BY <1>1, <1>2, <2>1
<1>4. n + 1 \in Nat
  OBVIOUS
<1>5. (n + 1) \div b = q + 1 /\ (n + 1) % b = 0
  BY <1>1, <1>3, <1>4, DivisionIs
<1> QED
  BY <1>2, <1>5 DEF b, q

\* ... or none.
LEMMA NoCarry ==
  ASSUME NEW n \in Nat, NEW j \in Nat, ~AllOnes(n, j)
  PROVE  (n + 1) \div 2^j = n \div 2^j /\ (n + 1) % 2^j = (n % 2^j) + 1 /\ n \div 2^j \in Nat
<1> DEFINE b == 2^j
           q == n \div b
           r == n % b
<1>1. b \in Nat \ {0}
  BY PowersOfTwo
<1>2. q \in Nat /\ r \in 0 .. b - 1 /\ n = (b * q) + r /\ r # b - 1
  <2>1. r # b - 1
    BY DEF AllOnes
  <2> HIDE DEF b
  <2> QED
    BY <1>1, <2>1, Remainder
<1> HIDE DEF b, q, r
<1>3. n + 1 = (b * q) + (r + 1) /\ r + 1 \in 0 .. b - 1
  BY <1>1, <1>2
<1>4. n + 1 \in Nat
  OBVIOUS
<1>5. (n + 1) \div b = q /\ (n + 1) % b = r + 1
  BY <1>1, <1>2, <1>3, <1>4, DivisionIs
<1> QED
  BY <1>2, <1>5 DEF b, q, r

\* Where the first zero of n is, if n + 1 has no more than N digits.
LEMMA FirstZero ==
  ASSUME NEW n \in Nat, NEW N \in Nat, n + 1 < 2^N
  PROVE  \E m \in 0 .. N - 1 : /\ \A j \in 0 .. m : AllOnes(n, j)
                              /\ \A j \in Nat : j > m => ~AllOnes(n, j)
<1> DEFINE T == {j \in Nat : ~AllOnes(n, j)}
<1>1. N \in T
  <2> DEFINE b == 2^N
  <2>1. b \in Nat \ {0}
    BY PowersOfTwo
  <2>2. n % b = n
    <3> HIDE DEF b
    <3>1. n = (b * 0) + n /\ n \in 0 .. b - 1
      BY <2>1 DEF b
    <3> QED
      BY <2>1, <3>1, DivisionIs
  <2> QED
    BY <2>1, <2>2 DEF AllOnes
<1>2. 0 \notin T
  <2>1. 2^0 = 1 /\ n % 1 \in 0 .. 1 - 1
    BY PowersOfTwo, Remainder
  <2> QED
    BY <2>1 DEF AllOnes
<1>3. PICK k \in T : \A j \in T : k <= j
  <2>1. T \in SUBSET Nat /\ T # {}
    BY <1>1
  <2> HIDE DEF T
  <2> QED
    BY <2>1, LeastNumber
<1>4. k \in Nat /\ k # 0 /\ k <= N
  BY <1>1, <1>2, <1>3
<1> DEFINE m == k - 1
<1>5. m \in 0 .. N - 1
  BY <1>4
<1>6. \A j \in 0 .. m : AllOnes(n, j)
  BY <1>3, <1>4
<1>7. ASSUME NEW j \in Nat, j > m PROVE ~AllOnes(n, j)
  <2> DEFINE U == {d \in Nat : ~AllOnes(n, k + d)}
  <2>1. 0 \in U
    BY <1>3
  <2>2. ASSUME NEW d \in Nat, d \in U PROVE d + 1 \in U
    <3>1. k + d \in Nat /\ k + (d + 1) = (k + d) + 1
      BY <1>4
    <3>2. ~AllOnes(n, (k + d) + 1)
      BY <2>2, <3>1, OnesBelow
    <3> QED
      BY <3>1, <3>2
  <2>3. Nat \subseteq U
    <3> HIDE DEF U
    <3> QED
      BY <2>1, <2>2, SetInduction
  <2>4. j - k \in Nat /\ k + (j - k) = j
    BY <1>4, <1>7
  <2> QED
    BY <2>3, <2>4
<1> QED
  BY <1>5, <1>6, <1>7

-----------------------------------------------------------------------------
(* The mountain range *)

\* Where the tree of height k is, if there is one.
From(n, k) == n - (n % 2^k) - 2^k

\* There is room for the tree of a digit that is one.
LEMMA FromFits ==
  ASSUME NEW n \in Nat, NEW k \in Nat, (n \div 2^k) % 2 = 1
  PROVE  From(n, k) \in Nat /\ From(n, k) + 2^k <= n
<1> DEFINE b == 2^k
           q == n \div b
           r == n % b
<1>1. b \in Nat \ {0}
  BY PowersOfTwo
<1>2. q \in Nat /\ r \in 0 .. b - 1 /\ n = (b * q) + r
  <2> HIDE DEF b
  <2> QED
    BY <1>1, Remainder
<1>3. q # 0
  <2>1. q % 2 = 1
    OBVIOUS
  <2> HIDE DEF q
  <2> QED
    BY <2>1
<1>4. From(n, k) = n - r - b
  BY DEF From
<1> HIDE DEF b, q, r
<1>5. b * q >= b
  BY <1>1, <1>2, <1>3
<1>6. b * q \in Nat
  BY <1>1, <1>2
<1> QED
  BY <1>1, <1>2, <1>4, <1>5, <1>6 DEF b

\* The roots by their height.
LEMMA RangeAt ==
  ASSUME NEW c, Len(c) \in Nat, NEW k \in Nat, k < MMR_ROOTS_LEN
  PROVE  MountainRange(c)[k + 1] =
           IF (Len(c) \div 2^k) % 2 = 0 THEN NullRoot ELSE Perfect(c, From(Len(c), k), k)
<1>1. MMR_ROOTS_LEN \in Nat
  BY HeadersChainProofAssumption
<1>2. k + 1 \in 1 .. MMR_ROOTS_LEN /\ (k + 1) - 1 = k
  BY <1>1
<1> QED
  BY <1>2 DEF MountainRange, From

\* A digit that is one has its tree.
LEMMA RangeHasTree ==
  ASSUME NEW c, Len(c) \in Nat, NEW k \in Nat, k < MMR_ROOTS_LEN, (Len(c) \div 2^k) % 2 = 1
  PROVE  MountainRange(c)[k + 1] = Perfect(c, From(Len(c), k), k)
<1> DEFINE bit == (Len(c) \div 2^k) % 2
<1>1. MountainRange(c)[k + 1] = IF bit = 0 THEN NullRoot ELSE Perfect(c, From(Len(c), k), k)
  BY RangeAt
<1>2. bit = 1
  OBVIOUS
<1> HIDE DEF bit
<1> QED
  BY <1>1, <1>2

\* A binary digit is zero or one.
LEMMA DigitIs ==
  ASSUME NEW n \in Nat, NEW k \in Nat
  PROVE  (n \div 2^k) % 2 \in {0, 1} /\ n \div 2^k \in Nat
<1> DEFINE b == 2^k
           q == n \div b
<1>1. b \in Nat \ {0}
  BY PowersOfTwo
<1> HIDE DEF b
<1>2. q \in Nat
  BY <1>1, Remainder
<1> HIDE DEF q
<1>3. q % 2 \in {0, 1}
  BY <1>2
<1> QED
  BY <1>2, <1>3 DEF b, q

\* The carry is the tree over the last headers and the new one.
LEMMA CarryIsPerfect ==
  ASSUME NEW B, NEW c \in Seq(B), NEW d \in Seq(B), Len(d) = Len(c) + 1, SubSeq(d, 1, Len(c)) = c,
         NEW m \in Nat, m < MMR_ROOTS_LEN, \A j \in 0 .. m : AllOnes(Len(c), j)
  PROVE  /\ Len(d) - 2^m \in Nat
         /\ Carry(SubSeq(MountainRange(c), 1, m), Leaf(d)) = Perfect(d, Len(d) - 2^m, m)
<1> DEFINE L == Len(c)
           R == MountainRange(c)
           v == [k \in 0 .. m |-> Perfect(d, Len(d) - 2^k, k)]
<1>1. L \in Nat /\ MMR_ROOTS_LEN \in Nat /\ Len(d) = L + 1
  BY LenProperties, HeadersChainProofAssumption
<1>2. ASSUME NEW k \in 0 .. m PROVE 2^k \in Nat \ {0} /\ Len(d) - 2^k \in Nat
  <2>1. 2^k \in Nat \ {0}
    BY PowersOfTwo
  <2>2. L % 2^k \in 0 .. L /\ L % 2^k = 2^k - 1
    BY <1>1, <2>1, RemainderAtMost DEF AllOnes
  <2> QED
    BY <1>1, <2>1, <2>2
<1>3. v[0] = Leaf(d)
  <2>1. L + 1 <= Len(d) /\ Len(d) - 2^0 = L
    BY <1>1, PowersOfTwo
  <2>2. Perfect(d, L, 0) = Leaf(SubSeq(d, 1, L + 1))
    BY <1>1, <2>1, PerfectLeaf
  <2>3. SubSeq(d, 1, Len(d)) = d
    BY WholePrefix
  <2>4. Len(d) = L + 1 /\ 0 \in 0 .. m
    BY <1>1
  <2> HIDE DEF L
  <2> QED
    BY <2>1, <2>2, <2>3, <2>4
<1>4. ASSUME NEW k \in 1 .. m PROVE v[k] = hash2(R[k], v[k - 1])
  <2> DEFINE j == k - 1
             b == 2^j
             from == Len(d) - 2^k
  <2>1. j \in Nat /\ j < MMR_ROOTS_LEN /\ k = j + 1 /\ j \in 0 .. m /\ k \in 0 .. m
    BY <1>1
  <2>2. 2^k = 2 * b /\ b \in Nat \ {0}
    BY <2>1, PowersOfTwo
  <2>3. from \in Nat
    BY <1>2, <2>1
  <2>4. from + b = Len(d) - b /\ from + b <= L /\ from + 2^(j + 1) <= Len(d)
    <3> HIDE DEF b
    <3> QED
      BY <1>1, <2>1, <2>2, <2>3
  <2>5. (L \div 2^j) % 2 = 1
    <3>1. AllOnes(L, j + 1)
      BY <2>1
    <3> QED
      BY <1>1, <2>1, <3>1, OnesBelow
  <2>6. From(L, j) = from
    <3>1. L % b = b - 1
      BY <2>1 DEF AllOnes
    <3>2. From(L, j) = L - (L % b) - b
      BY DEF From
    <3> HIDE DEF b
    <3> QED
      BY <1>1, <2>2, <3>1, <3>2
  <2>7. R[k] = Perfect(c, from, j)
    <3> HIDE DEF from, j
    <3>1. MountainRange(c)[j + 1] = Perfect(c, From(Len(c), j), j)
      BY <1>1, <2>1, <2>5, RangeHasTree
    <3> QED
      BY <2>1, <2>6, <3>1
  <2>8. Perfect(c, from, j) = Perfect(d, from, j)
    <3>1. Len(c) <= Len(d)
      BY <1>1
    <3> HIDE DEF from, j
    <3> QED
      BY <2>1, <2>3, <2>4, <3>1, PerfectOfPrefix
  <2>9. Perfect(d, from, j + 1) = hash2(Perfect(d, from, j), Perfect(d, from + b, j))
    <3> HIDE DEF from, j
    <3> QED
      BY <2>1, <2>3, <2>4, PerfectUp
  <2>10. v[k] = Perfect(d, from, j + 1) /\ v[k - 1] = Perfect(d, from + b, j)
    BY <2>1, <2>4
  <2> HIDE DEF v, j, from, b
  <2> QED
    BY <2>7, <2>8, <2>9, <2>10
<1>5. DOMAIN SubSeq(R, 1, m) = 1 .. m /\ \A k \in 1 .. m : SubSeq(R, 1, m)[k] = R[k]
  <2>1. R = [k \in 1 .. MMR_ROOTS_LEN |-> R[k]]
    BY DEF MountainRange
  <2> HIDE DEF R
  <2> DEFINE S == {R[k] : k \in 1 .. MMR_ROOTS_LEN}
  <2>2. R \in Seq(S) /\ Len(R) = MMR_ROOTS_LEN
    BY <1>1, <2>1, ListOf
  <2> HIDE DEF S
  <2>3. m \in 0 .. Len(R)
    BY <1>1, <2>2
  <2>4. SubSeq(R, 1, m) \in Seq(S) /\ Len(SubSeq(R, 1, m)) = m
    BY <2>2, <2>3, PrefixType
  <2>5. ASSUME NEW k \in 1 .. m PROVE SubSeq(R, 1, m)[k] = R[k]
    <3>1. \A l \in 1 .. m : R[l] \in S
      BY <2>2, <2>3, ElementOfSeq, LenProperties
    <3> QED
      BY <3>1, SubSeqProperties
  <2> QED
    BY <2>4, <2>5, LenProperties
<1>6. Carry(SubSeq(R, 1, m), Leaf(d)) = v[m]
  <2>1. \A k \in 1 .. m : v[k] = hash2(SubSeq(R, 1, m)[k], v[k - 1])
    <3> HIDE DEF v, R
    <3> QED
      BY <1>4, <1>5
  <2> DEFINE seq == SubSeq(R, 1, m)
  <2>2. DOMAIN seq = 1 .. m /\ \A k \in 1 .. m : v[k] = hash2(seq[k], v[k - 1])
    <3> HIDE DEF v, R
    <3> QED
      BY <1>5, <2>1
  <2> HIDE DEF v, seq
  <2>3. Carry(seq, Leaf(d)) = v[m]
    BY <1>3, <2>2, Carried
  <2> QED
    BY <2>3 DEF seq
<1>7. m \in 0 .. m
  OBVIOUS
<1> QED
  BY <1>2, <1>6, <1>7

\* mmr_add makes the mountain range of the chain with one header more.
LEMMA OneHeaderMore ==
  ASSUME NEW B, NEW c \in Seq(B), NEW d \in Seq(B), Len(d) = Len(c) + 1, SubSeq(d, 1, Len(c)) = c,
         Len(d) < 2^MMR_ROOTS_LEN
  PROVE  mmr_add(MountainRange(c), Leaf(d)) = MountainRange(d)
<1> DEFINE L == Len(c)
           R == MountainRange(c)
           N == MMR_ROOTS_LEN
<1>1. L \in Nat /\ N \in Nat /\ Len(d) = L + 1
  BY LenProperties, HeadersChainProofAssumption
<1>2. PICK m \in 0 .. N - 1 : /\ \A j \in 0 .. m : AllOnes(L, j)
                              /\ \A j \in Nat : j > m => ~AllOnes(L, j)
  BY <1>1, FirstZero
<1>3. m \in Nat /\ m + 1 \in 1 .. N /\ m < N
  BY <1>1
<1>4. R[m + 1] = NullRoot
  <2>1. ~AllOnes(L, m + 1) /\ AllOnes(L, m)
    BY <1>2, <1>3
  <2>2. (L \div 2^m) % 2 = 0
    BY <1>1, <1>3, <2>1, OnesBelow, DigitIs
  <2> QED
    BY <1>1, <1>3, <2>2, RangeAt
<1>5. ASSUME NEW k \in 1 .. m PROVE R[k] # NullRoot
  <2> DEFINE j == k - 1
  <2>1. j \in Nat /\ k = j + 1 /\ j < N /\ k \in 0 .. m
    BY <1>1
  <2>2. (L \div 2^j) % 2 = 1
    BY <1>1, <1>2, <2>1, OnesBelow
  <2>3. R[k] = Perfect(c, From(L, j), j)
    <3> HIDE DEF j
    <3>1. MountainRange(c)[j + 1] = Perfect(c, From(Len(c), j), j)
      BY <1>1, <2>1, <2>2, RangeHasTree
    <3> QED
      BY <2>1, <3>1
  <2>4. From(L, j) \in Nat /\ From(L, j) + 2^j <= Len(c)
    <3> HIDE DEF j
    <3> QED
      BY <1>1, <2>1, <2>2, FromFits
  <2> HIDE DEF j
  <2> QED
    BY <2>1, <2>3, <2>4, PerfectIsNoNull
<1>6. DOMAIN R = 1 .. N
  BY DEF MountainRange
<1>7. FirstNull(R) = m + 1
  <2> DEFINE P(h) == h \in DOMAIN R /\ R[h] = NullRoot /\ \A j \in 1 .. h - 1 : R[j] # NullRoot
  <2>1. P(m + 1)
    BY <1>3, <1>4, <1>5, <1>6
  <2>2. ASSUME NEW h, P(h) PROVE h = m + 1
    <3>1. h \in 1 .. N /\ m + 1 \in 1 .. N
      BY <1>3, <1>6, <2>2
    <3>2. ~(h < m + 1)
      BY <1>5, <2>2, <3>1
    <3>3. ~(m + 1 < h)
      BY <1>4, <2>2, <3>1
    <3> QED
      BY <3>1, <3>2, <3>3
  <2>3. FirstNull(R) = CHOOSE h : P(h)
    BY DEF FirstNull
  <2> HIDE DEF P
  <2> QED
    BY <2>1, <2>2, <2>3
<1> DEFINE carried == Carry(SubSeq(R, 1, m), Leaf(d))
<1>8. mmr_add(R, Leaf(d)) = [k \in 1 .. N |-> IF k < m + 1 THEN NullRoot
                                             ELSE IF k = m + 1 THEN carried ELSE R[k]]
  <2>1. (m + 1) - 1 = m
    BY <1>3
  <2> HIDE DEF R
  <2> QED
    BY <1>6, <1>7, <2>1 DEF mmr_add
<1>9. carried = Perfect(d, Len(d) - 2^m, m) /\ Len(d) - 2^m \in Nat
  BY <1>2, <1>3, CarryIsPerfect
<1> HIDE DEF carried
<1>10. ASSUME NEW k \in 1 .. N
       PROVE  MountainRange(d)[k] = IF k < m + 1 THEN NullRoot
                                    ELSE IF k = m + 1 THEN carried ELSE R[k]
  <2> DEFINE j == k - 1
  <2>1. j \in Nat /\ k = j + 1 /\ j < N
    BY <1>1
  <2>2. MountainRange(d)[k] = IF (Len(d) \div 2^j) % 2 = 0 THEN NullRoot
                              ELSE Perfect(d, From(Len(d), j), j)
    <3> HIDE DEF j
    <3> QED
      BY <1>1, <2>1, RangeAt
  <2>3. CASE k < m + 1
    <3>1. AllOnes(L, j) /\ AllOnes(L, j + 1)
      BY <1>2, <2>1, <2>3
    <3> HIDE DEF j
    <3>2. Len(d) \div 2^j = (L \div 2^j) + 1 /\ (L \div 2^j) % 2 = 1 /\ L \div 2^j \in Nat
      BY <1>1, <2>1, <3>1, OnesBelow, CarryOver
    <3> DEFINE q == L \div 2^j
    <3> HIDE DEF q
    <3>3. (q + 1) % 2 = 0
      BY <3>2 DEF q
    <3> QED
      BY <2>2, <2>3, <3>2, <3>3 DEF q
  <2>4. CASE k = m + 1
    <3>1. AllOnes(L, j) /\ ~AllOnes(L, j + 1) /\ j = m
      BY <1>2, <1>3, <2>1, <2>4
    <3> HIDE DEF j
    <3>2. /\ Len(d) \div 2^j = (L \div 2^j) + 1 /\ Len(d) % 2^j = 0
          /\ (L \div 2^j) % 2 = 0 /\ L \div 2^j \in Nat
      <4> HIDE DEF L
      <4>1. (L \div 2^j) % 2 # 1
        BY <1>1, <2>1, <3>1, OnesBelow
      <4>2. (L \div 2^j) % 2 = 0
        BY <1>1, <2>1, <4>1, DigitIs
      <4> QED
        BY <1>1, <2>1, <3>1, <4>2, CarryOver
    <3> DEFINE q == L \div 2^j
    <3> HIDE DEF q
    <3>3. (q + 1) % 2 = 1
      BY <3>2 DEF q
    <3>4. From(Len(d), j) = Len(d) - 2^m
      <4>1. 2^m \in Nat
        BY <1>3, PowersOfTwo
      <4>2. From(Len(d), j) = Len(d) - 0 - 2^m
        BY <3>1, <3>2 DEF From
      <4> QED
        BY <1>1, <4>1, <4>2
    <3> QED
      <4>1. (Len(d) \div 2^j) % 2 = 1
        BY <3>2, <3>3 DEF q
      <4>2. MountainRange(d)[k] = Perfect(d, Len(d) - 2^m, m)
        BY <2>2, <3>1, <3>4, <4>1
      <4>3. ~(k < m + 1)
        BY <1>3, <2>4
      <4> QED
        BY <1>9, <2>4, <4>2, <4>3
  <2>5. CASE k > m + 1
    <3>1. ~AllOnes(L, j)
      BY <1>2, <1>3, <2>1, <2>5
    <3> HIDE DEF j
    <3>2. /\ Len(d) \div 2^j = L \div 2^j /\ Len(d) % 2^j = (L % 2^j) + 1
      BY <1>1, <2>1, <3>1, NoCarry
    <3>3. From(Len(d), j) = From(L, j)
      <4> DEFINE r == L % 2^j
                 b == 2^j
      <4>1. b \in Nat \ {0} /\ r \in 0 .. b - 1
        BY <1>1, <2>1, PowersOfTwo, Remainder
      <4>2. From(Len(d), j) = Len(d) - (r + 1) - b /\ From(L, j) = L - r - b
        BY <3>2 DEF From
      <4> HIDE DEF r, b
      <4> QED
        BY <1>1, <4>1, <4>2
    <3>4. R[k] = IF (L \div 2^j) % 2 = 0 THEN NullRoot ELSE Perfect(c, From(L, j), j)
      BY <1>1, <2>1, RangeAt
    <3>5. (L \div 2^j) % 2 # 0 => Perfect(c, From(L, j), j) = Perfect(d, From(L, j), j)
      <4> SUFFICES ASSUME (L \div 2^j) % 2 # 0
                   PROVE  Perfect(c, From(L, j), j) = Perfect(d, From(L, j), j)
        OBVIOUS
      <4>1. (L \div 2^j) % 2 = 1
        BY <1>1, <2>1, DigitIs
      <4>2. From(L, j) \in Nat /\ From(L, j) + 2^j <= Len(c) /\ Len(c) <= Len(d)
        BY <1>1, <2>1, <4>1, FromFits
      <4> QED
        BY <2>1, <4>2, PerfectOfPrefix
    <3> HIDE DEF R
    <3> QED
      BY <2>2, <2>5, <3>2, <3>3, <3>4, <3>5
  <2>6. k < m + 1 \/ k = m + 1 \/ k > m + 1
    BY <1>3
  <2> QED
    BY <2>3, <2>4, <2>5, <2>6
<1>11. MountainRange(d) = [k \in 1 .. N |-> MountainRange(d)[k]]
  BY DEF MountainRange
<1> HIDE DEF R, N
<1> QED
  BY <1>8, <1>10, <1>11 DEF R

\* The batch that the program adds to the range of the state makes that of the
\* extended chain.
LEMMA BatchRange ==
  ASSUME NEW B, NEW chain \in Seq(B), NEW h \in Nat, NEW b \in Nat,
         h + b <= Len(chain), Len(chain) < 2^MMR_ROOTS_LEN
  PROVE  mmr_add_leaves(MountainRange(SubSeq(chain, 1, h)), [k \in 1 .. b |-> Leaf(SubSeq(chain, 1, h + k))])
           = MountainRange(SubSeq(chain, 1, h + b))
<1> DEFINE v == [k \in 0 .. b |-> MountainRange(SubSeq(chain, 1, h + k))]
           seq == [k \in 1 .. b |-> Leaf(SubSeq(chain, 1, h + k))]
<1>1. Len(chain) \in Nat /\ MMR_ROOTS_LEN \in Nat /\ 2^MMR_ROOTS_LEN \in Nat
  BY LenProperties, HeadersChainProofAssumption, PowersOfTwo
<1>2. v[0] = MountainRange(SubSeq(chain, 1, h)) /\ v[b] = MountainRange(SubSeq(chain, 1, h + b))
  <2>1. 0 \in 0 .. b /\ b \in 0 .. b /\ h + 0 = h
    OBVIOUS
  <2> QED
    BY <2>1
<1>3. ASSUME NEW k \in 1 .. b PROVE v[k] = mmr_add(v[k - 1], seq[k])
  <2> DEFINE c == SubSeq(chain, 1, h + (k - 1))
             d == SubSeq(chain, 1, h + k)
  <2>1. /\ h + (k - 1) \in 0 .. Len(chain) /\ h + k \in 0 .. Len(chain)
        /\ k - 1 \in 0 .. b /\ k \in 0 .. b /\ h + (k - 1) \in 0 .. h + k
    BY <1>1
  <2>2. c \in Seq(B) /\ Len(c) = h + (k - 1) /\ d \in Seq(B) /\ Len(d) = h + k
    BY <2>1, PrefixType
  <2>3. SubSeq(d, 1, Len(c)) = c
    <3>1. SubSeq(SubSeq(chain, 1, h + k), 1, h + (k - 1)) = SubSeq(chain, 1, h + (k - 1))
      BY <2>1, PrefixOfPrefix
    <3> QED
      BY <2>2, <3>1
  <2>4. Len(d) = Len(c) + 1 /\ Len(d) < 2^MMR_ROOTS_LEN
    BY <1>1, <2>1, <2>2
  <2>5. v[k] = MountainRange(d) /\ v[k - 1] = MountainRange(c) /\ seq[k] = Leaf(d)
    BY <2>1
  <2> HIDE DEF c, d, v, seq
  <2> QED
    BY <2>2, <2>3, <2>4, <2>5, OneHeaderMore
<1>4. DOMAIN seq = 1 .. b
  OBVIOUS
<1>5. mmr_add_leaves(v[0], seq) = v[b]
  <2> HIDE DEF v, seq
  <2> QED
    BY <1>3, <1>4, AllAdded
<1> QED
  BY <1>2, <1>5

-----------------------------------------------------------------------------
(* What a proof vouches for *)

\* A state is of a chain, and has its mountain range.
Summed(s) == s.chain \in States /\ Len(s.chain) \in Names /\ s.mmr_roots = MountainRange(s.chain)

Vouched(p) ==
  /\ p.chain \in States /\ Len(p.chain) \in Names
  /\ p.verified \in Seq(Seq(Blocks)) /\ Vouches(p)

Vouching ==
  /\ made \in BOOLEAN /\ calm \in BOOLEAN /\ i \in Names
  /\ headers_chain_state.file \in {"none", "empty", "state"}
  /\ trace.file = "proof" <=> pc \in {"open", "write", "prove"}
  /\ headers_chain_state.file = "state" => Summed(headers_chain_state)
  /\ Summed(state)
  /\ trace.file = "proof" => Vouched(trace)
  /\ \A name \in Names :
       proofs[name].file = "proof" => Vouched(proofs[name]) /\ Len(proofs[name].chain) <= name + 1

\* A state is a sequence of blocks.
LEMMA StatesAreSequences ==
  ASSUME NEW c \in States
  PROVE  c \in Seq(Blocks) /\ Len(c) \in Nat
<1>1. PICK chain \in Chains : \E n \in 0 .. Len(chain) : c = SubSeq(chain, 1, n)
  BY DEF States, Prefixes
<1>2. chain \in Seq(Blocks)
  BY HeadersChainProofAssumption
<1> QED
  BY <1>1, <1>2, PrefixType, LenProperties

\* What is less than a name is a name.
LEMMA SmallerNames ==
  ASSUME NEW n \in Names, NEW m \in Nat, m <= n
  PROVE  m \in Names /\ n \in Nat
<1>1. PICK p \in Parameters : n \in 0 .. (p.batches + 1) * p.batch_size
  BY DEF Names
<1>2. p.batches \in Nat /\ p.batch_size \in Nat
  BY HeadersChainProofAssumption
<1> DEFINE all == (p.batches + 1) * p.batch_size
<1>3. all \in Nat /\ n \in 0 .. all
  BY <1>1, <1>2
<1>4. m \in 0 .. all
  <2> HIDE DEF all
  <2> QED
    BY <1>3
<1> QED
  BY <1>3, <1>4 DEF Names

\* Every batch of the loop ends at a name.
LEMMA EndIsName ==
  ASSUME IInv, pc \in {"run", "open", "write", "prove"}, NEW n \in Nat, n <= i + batch_size
  PROVE  n \in Names
<1>1. /\ batch_size \in Nat \ {0} /\ parameters.batches \in Nat /\ i \in Nat
      /\ parameters \in Parameters /\ i < parameters.batches * batch_size
  BY Parameter DEF IInv, Variables, Places
<1> DEFINE all == parameters.batches * batch_size
<1>2. all \in Nat /\ (parameters.batches + 1) * batch_size = all + batch_size
  BY <1>1
<1>3. n \in 0 .. (parameters.batches + 1) * parameters.batch_size
  <2> HIDE DEF all
  <2> QED
    BY <1>1, <1>2 DEF all, batch_size
<1> QED
  BY <1>1, <1>3 DEF Names

\* The first proof has a name.
LEMMA ZeroIsName ==
  ASSUME NEW p \in Parameters
  PROVE  0 \in Names
<1>1. p.batches \in Nat /\ p.batch_size \in Nat
  BY HeadersChainProofAssumption
<1> DEFINE all == (p.batches + 1) * p.batch_size
<1>2. all \in Nat
  BY <1>1
<1>3. 0 \in 0 .. all
  <2> HIDE DEF all
  <2> QED
    BY <1>2
<1> QED
  BY <1>3 DEF Names

\* The genesis state is of the empty chain.
LEMMA GenesisIsSummed ==
  ASSUME NEW p \in Parameters, NEW chain \in Chains
  PROVE  Summed(GenesisState)
<1>1. << >> \in States
  <2>1. chain \in Seq(Blocks) /\ SubSeq(chain, 1, 0) = << >> /\ 0 \in 0 .. Len(chain)
    BY HeadersChainProofAssumption, SubSeqEmpty, LenProperties
  <2> QED
    BY <2>1 DEF States, Prefixes
<1>2. Len(<< >>) = 0
  BY EmptySeq
<1>3. NoRoots = MountainRange(<< >>)
  <2>1. ASSUME NEW h \in 1 .. MMR_ROOTS_LEN PROVE MountainRange(<< >>)[h] = NullRoot
    <3> DEFINE k == h - 1
    <3>1. k \in Nat /\ k < MMR_ROOTS_LEN /\ h = k + 1
      BY HeadersChainProofAssumption
    <3> HIDE DEF k
    <3>2. 2^k \in Nat \ {0}
      BY <3>1, PowersOfTwo
    <3>3. 0 \div 2^k = 0 /\ 0 % 2 = 0
      <4> DEFINE b == 2^k
      <4>1. b \in Nat \ {0} /\ 0 = (b * 0) + 0 /\ 0 \in 0 .. b - 1
        BY <3>2
      <4> HIDE DEF b
      <4>2. 0 \div b = 0
        BY <4>1, DivisionIs
      <4> QED
        BY <4>2 DEF b
    <3>4. (Len(<< >>) \div 2^k) % 2 = 0
      BY <1>2, <3>3
    <3> QED
      BY <1>2, <3>1, <3>4, RangeAt
  <2> QED
    BY <2>1 DEF NoRoots, MountainRange
<1> QED
  BY <1>1, <1>2, <1>3, ZeroIsName DEF Summed, GenesisState

-----------------------------------------------------------------------------
\* A run of the program adds its batch to what the parent proof vouches for.
LEMMA RunVouches ==
  ASSUME IInv, Vouching, CairoRun
  PROVE  Vouched(trace')
<1> DEFINE H == Height
           c == headers_chain_state.chain
           d == SubSeq(best, 1, H + batch_size)
<1>1. /\ pc = "run" /\ headers_chain_state.file = "state"
      /\ Len(best) >= H + batch_size /\ c = SubSeq(best, 1, H) /\ VerifiesParent
  BY DEF CairoRun, CairoRuns, BatchIsValid
<1>2. /\ trace'.chain = d
      /\ trace'.mmr_roots = mmr_add_leaves(headers_chain_state.mmr_roots,
                              [k \in 1 .. batch_size |-> Leaf(SubSeq(best, 1, H + k))])
      /\ trace'.verified = IF H = 0 THEN << >> ELSE Append(ParentProof.verified, ParentProof.chain)
  BY DEF CairoRun, Extended
<1>3. /\ batch_size \in Nat \ {0} /\ batch_size \in {q.batch_size : q \in Parameters}
      /\ best \in Chains /\ best \in Seq(Blocks) /\ Len(best) \in Nat /\ Len(best) < 2^MMR_ROOTS_LEN
  BY Parameter, HeadersChainProofAssumption, LenProperties DEF IInv, Variables, batch_size
<1>4. /\ c \in States /\ c \in Seq(Blocks) /\ H = Len(c) /\ H \in Nat /\ H \in Names
      /\ headers_chain_state.mmr_roots = MountainRange(c)
  BY <1>1, StatesAreSequences DEF Vouching, Summed, Height
<1>5. d \in Seq(Blocks) /\ Len(d) = H + batch_size /\ d \in States
  <2> HIDE DEF H
  <2>1. H + batch_size \in 0 .. Len(best)
    <3>1. Len(best) >= H + batch_size
      BY <1>1 DEF H
    <3>2. batch_size \in Nat /\ Len(best) \in Nat /\ H \in Nat
      BY <1>3, <1>4
    <3> HIDE DEF batch_size
    <3> QED
      BY <3>1, <3>2
  <2> QED
    BY <1>3, <2>1, PrefixType DEF States, Prefixes
<1>6. Len(d) \in Names
  <2>1. H <= i
    BY <1>1 DEF IInv, Places, Height
  <2>2. H + batch_size \in Nat /\ H + batch_size <= i + batch_size
    BY <1>3, <1>4, <2>1, Parameter
  <2> QED
    BY <1>1, <1>5, <2>2, EndIsName
<1>7. trace'.mmr_roots = MountainRange(d)
  <2> HIDE DEF H
  <2>1. mmr_add_leaves(MountainRange(SubSeq(best, 1, H)),
                       [k \in 1 .. batch_size |-> Leaf(SubSeq(best, 1, H + k))])
          = MountainRange(SubSeq(best, 1, H + batch_size))
    BY <1>1, <1>3, <1>4, BatchRange
  <2> QED
    BY <1>1, <1>2, <1>4, <2>1
<1>8. c = SubSeq(d, 1, Len(c)) /\ Len(c) <= Len(d)
  <2>1. H + batch_size \in 0 .. Len(best) /\ H \in 0 .. H + batch_size
    BY <1>1, <1>3, <1>4
  <2> HIDE DEF H
  <2>2. SubSeq(SubSeq(best, 1, H + batch_size), 1, H) = SubSeq(best, 1, H)
    BY <1>3, <2>1, PrefixOfPrefix
  <2> QED
    BY <1>1, <1>3, <1>4, <1>5, <2>2
<1>9. IsPrefix(c, d)
  <2>1. SubSeq(c, 1, Len(c)) = c
    BY <1>4, WholePrefix
  <2> QED
    BY <1>8, <2>1 DEF IsPrefix
<1> DEFINE v == trace'.verified
           steps == Append(v, d)
           sizes == {q.batch_size : q \in Parameters}
<1>10. CASE H = 0
  <2>1. v = << >> /\ v \in Seq(Seq(Blocks))
    BY <1>2, <1>10, EmptySeq
  <2>2. Len(steps) = 1 /\ steps[1] = d
    <3>1. Append(<< >>, d) = <<d>>
      <4> HIDE DEF d
      <4> QED
        OBVIOUS
    <3>2. steps = <<d>>
      BY <2>1, <3>1
    <3> HIDE DEF steps, d
    <3> QED
      BY <3>2
  <2>3. Len(steps[1]) \in sizes
    BY <1>3, <1>5, <1>10, <2>2
  <2>4. trace'.chain = d /\ trace'.mmr_roots = MountainRange(d) /\ trace'.verified = v
    BY <1>2, <1>7
  <2>5. steps = Append(v, d) /\ 2 .. Len(steps) = {}
    BY <2>2
  <2> HIDE DEF steps, v, d
  <2>6. Vouches(trace')
    BY <2>3, <2>4, <2>5 DEF Vouches
  <2> QED
    BY <1>5, <1>6, <2>1, <2>4, <2>6 DEF Vouched
<1>11. CASE H # 0
  <2> DEFINE P == ParentProof
             old == Append(P.verified, P.chain)
  <2>1. P.file = "proof" /\ P.chain = c
    <3>1. Height > 0
      BY <1>4, <1>11
    <3> QED
      BY <1>1, <3>1 DEF VerifiesParent
  <2>2. H - 1 \in Names
    <3>1. H - 1 \in Nat /\ H - 1 <= H
      BY <1>4, <1>11
    <3> QED
      BY <1>4, <3>1, SmallerNames
  <2>3. Vouched(P)
    BY <2>1, <2>2 DEF Vouching, ParentProof
  <2>4. P.verified \in Seq(Seq(Blocks)) /\ Vouches(P)
    BY <2>3 DEF Vouched
  <2> DEFINE n == Len(P.verified)
  <2>5. /\ n \in Nat /\ v = old /\ v \in Seq(Seq(Blocks)) /\ Len(v) = n + 1 /\ v[n + 1] = c
    <3>1. v = old
      BY <1>2, <1>11
    <3> HIDE DEF v, P
    <3> QED
      BY <1>4, <2>1, <2>4, <3>1, AppendProperties, LenProperties
  <2> HIDE DEF n
  <2>6. /\ steps \in Seq(Seq(Blocks)) /\ Len(steps) = n + 2 /\ steps[n + 2] = d
        /\ \A k \in 1 .. n + 1 : steps[k] = v[k]
    <3> HIDE DEF v, d
    <3>1. v \in Seq(Seq(Blocks)) /\ d \in Seq(Blocks) /\ Len(v) = n + 1 /\ n \in Nat
      BY <1>5, <2>5
    <3>2. /\ Append(v, d) \in Seq(Seq(Blocks)) /\ Len(Append(v, d)) = Len(v) + 1
          /\ \A k \in 1 .. Len(v) : Append(v, d)[k] = v[k]
          /\ Append(v, d)[Len(v) + 1] = d
      BY <3>1, AppendProperties
    <3> QED
      BY <3>1, <3>2
  <2>7. /\ \A k \in 2 .. n + 1 : Len(v[k - 1]) < Len(v[k]) /\ IsPrefix(v[k - 1], v[k])
        /\ \A k \in 2 .. n + 1 : Len(v[k]) - Len(v[k - 1]) \in sizes
        /\ Len(v[1]) \in sizes
    <3>1. Vouches(P) /\ v = old /\ Len(v) = n + 1
      BY <2>4, <2>5
    <3> HIDE DEF v, P
    <3> QED
      BY <3>1 DEF Vouches
  <2>8. Len(c) < Len(d) /\ Len(d) - Len(c) = batch_size
    BY <1>3, <1>4, <1>5
  <2>9. ASSUME NEW k \in 2 .. Len(steps)
        PROVE  /\ Len(steps[k - 1]) < Len(steps[k]) /\ IsPrefix(steps[k - 1], steps[k])
               /\ Len(steps[k]) - Len(steps[k - 1]) \in sizes
    <3> HIDE DEF steps, v, d, sizes
    <3>1. CASE k = n + 2
      <4>1. k - 1 = n + 1 /\ n + 1 \in 1 .. n + 1
        BY <2>5, <3>1
      <4>2. steps[k - 1] = c /\ steps[k] = d
        BY <2>5, <2>6, <3>1, <4>1
      <4> QED
        BY <1>3, <1>9, <2>8, <4>2 DEF sizes
    <3>2. CASE k # n + 2
      <4>1. k \in 2 .. n + 1 /\ k \in 1 .. n + 1 /\ k - 1 \in 1 .. n + 1
        BY <2>5, <2>6, <3>2, SMTT(30)
      <4>2. steps[k - 1] = v[k - 1] /\ steps[k] = v[k]
        BY <2>6, <4>1
      <4> QED
        BY <2>7, <4>1, <4>2
    <3> QED
      BY <3>1, <3>2
  <2>10. Len(steps[1]) \in sizes
    <3>1. 1 \in 1 .. n + 1
      BY <2>5
    <3> HIDE DEF steps, v, d, sizes
    <3> QED
      BY <2>6, <2>7, <3>1
  <2>11. v \in Seq(Seq(Blocks))
    BY <2>5
  <2>12. trace'.chain = d /\ trace'.mmr_roots = MountainRange(d) /\ trace'.verified = v
    BY <1>2, <1>7
  <2> HIDE DEF v, d
  <2> QED
    BY <1>5, <1>6, <2>9, <2>10, <2>11, <2>12 DEF Vouched, Vouches
<1> QED
  BY <1>10, <1>11

\* A proof that is replaced by another, or by none, leaves the others as they were.
LEMMA OneProofReplaced ==
  ASSUME IInv, Vouching, NEW name \in Names, NEW file, proofs' = [proofs EXCEPT ![name] = file],
         file.file = "proof" => Vouched(file) /\ Len(file.chain) <= name + 1
  PROVE  \A m \in Names : proofs'[m].file = "proof" => Vouched(proofs'[m]) /\ Len(proofs'[m].chain) <= m + 1
<1> SUFFICES ASSUME NEW m \in Names, proofs'[m].file = "proof"
             PROVE  Vouched(proofs'[m]) /\ Len(proofs'[m].chain) <= m + 1
  OBVIOUS
<1>1. proofs' = [proofs EXCEPT ![name] = file] /\ DOMAIN proofs = Names
  BY DEF IInv, Variables
<1>2. CASE m = name
  <2>1. proofs'[m] = file
    BY <1>1, <1>2
  <2> QED
    BY <1>2, <2>1
<1>3. CASE m # name
  <2>1. proofs'[m] = proofs[m]
    BY <1>1, <1>3
  <2> QED
    BY <2>1 DEF Vouching
<1> QED
  BY <1>2, <1>3

\* Nothing is vouched for yet.
LEMMA VouchingInit == Init => Vouching
<1> SUFFICES ASSUME Init PROVE Vouching
  OBVIOUS
<1>1. /\ best \in Chains /\ made \in BOOLEAN /\ headers_chain_state = NoFile
      /\ proofs = [name \in Names |-> NoFile] /\ pc = "off" /\ parameters \in Parameters
      /\ i = 0 /\ state = GenesisState /\ trace = NoFile /\ calm = FALSE
  BY DEF Init
<1>2. Summed(state)
  BY <1>1, GenesisIsSummed
<1>3. 0 \in Names
  BY <1>1, ZeroIsName
<1>4. NoFile.file = "none"
  BY DEF NoFile
<1> QED
  BY <1>1, <1>2, <1>3, <1>4 DEF Vouching

\* What ends in a driver that does not run.
LEMMA EndsVouching ==
  ASSUME IInv, Vouching, NEW how \in Stopped, Ends(how), UNCHANGED <<files, calm>>
  PROVE  Vouching'
<1>1. /\ pc' = how /\ i' = 0 /\ state' = GenesisState /\ trace' = NoFile
      /\ UNCHANGED <<made, headers_chain_state, proofs, calm>>
  BY DEF Ends, files
<1>2. NoFile.file = "none" /\ how \notin {"open", "write", "prove"}
  BY DEF NoFile, Stopped
<1>3. Summed(GenesisState) /\ 0 \in Names
  BY GenesisIsSummed, ZeroIsName DEF IInv, Variables
<1>4. Summed(state')
  BY <1>1, <1>3
<1>5. trace'.file # "proof" /\ i' \in Names
  BY <1>1, <1>2, <1>3
<1> QED
  BY <1>1, <1>2, <1>4, <1>5 DEF Vouching

\* A step lets nothing be vouched for wrongly.
LEMMA VouchingNext ==
  ASSUME IInv, Vouching, Next
  PROVE  Vouching'
<1> USE DEF files
<1>0. Summed(GenesisState) /\ 0 \in Names /\ NoFile.file = "none" /\ Empty.file = "empty"
  BY GenesisIsSummed, ZeroIsName DEF IInv, Variables, NoFile, Empty
<1>1. ASSUME NEW p \in Parameters, Start(p) PROVE Vouching'
  BY <1>1 DEF Start, Stopped, Vouching
<1>2. CASE Mkdir
  <2>1. made' \in BOOLEAN
    BY <1>2 DEF Mkdir
  <2> QED
    BY <1>2, <2>1 DEF Mkdir, Vouching
<1>3. CASE Resume
  <2>1. Summed(headers_chain_state)
    BY <1>3 DEF Resume, Vouching
  <2>2. /\ pc = "start" /\ i' = Len(headers_chain_state.chain) /\ state' = headers_chain_state
        /\ headers_chain_state' = Empty /\ pc' = "rewrite"
        /\ UNCHANGED <<made, proofs, trace, calm>>
    BY <1>3 DEF Resume, StartHeight
  <2>3. i' \in Names /\ Summed(state')
    BY <2>1, <2>2 DEF Summed
  <2> QED
    BY <1>0, <2>2, <2>3 DEF Vouching
<1>4. CASE ResumeFails
  BY <1>4, EndsVouching DEF ResumeFails, Stopped
<1>5. CASE Genesis
  <2>2. /\ pc = "start" /\ i' = 0 /\ state' = GenesisState
        /\ headers_chain_state' = Empty /\ pc' = "rewrite"
        /\ UNCHANGED <<made, proofs, trace, calm>>
    BY <1>5 DEF Genesis
  <2>3. i' \in Names /\ Summed(state')
    BY <1>0, <2>2
  <2> QED
    BY <1>0, <2>2, <2>3 DEF Vouching
<1>6. CASE GenesisFails
  BY <1>6, EndsVouching DEF GenesisFails, Stopped
<1>7. CASE Rewrite
  <2>1. /\ pc = "rewrite" /\ headers_chain_state' = state /\ state' = GenesisState /\ pc' = "loop"
        /\ UNCHANGED <<made, proofs, i, trace, calm>>
    BY <1>7 DEF Rewrite
  <2>2. Summed(headers_chain_state') /\ Summed(state') /\ headers_chain_state'.file = "state"
    BY <1>0, <2>1 DEF Vouching, IInv, Variables
  <2> QED
    BY <2>1, <2>2 DEF Vouching
<1>8. CASE CreateBridge
  BY <1>8 DEF CreateBridge, Vouching
<1>9. CASE CairoRun
  <2>1. /\ pc' = "open" /\ UNCHANGED <<made, headers_chain_state, proofs, i, state, calm>>
        /\ trace'.file = "proof"
    BY <1>9 DEF CairoRun
  <2>2. Vouched(trace')
    BY <1>9, RunVouches
  <2> QED
    BY <2>1, <2>2 DEF Vouching
<1>10. CASE CairoRunFails
  BY <1>10, EndsVouching DEF CairoRunFails, Stopped
<1>11. CASE OpenState
  <2>1. /\ pc = "open" /\ pc' = "write" /\ headers_chain_state' = Empty
        /\ state'.chain = trace.chain /\ state'.mmr_roots = trace.mmr_roots
        /\ UNCHANGED <<made, proofs, i, trace, calm>>
    BY <1>11 DEF OpenState
  <2>2. Vouched(trace)
    BY <2>1 DEF Vouching
  <2>3. Summed(state')
    BY <2>1, <2>2 DEF Vouched, Vouches, Summed
  <2> QED
    BY <1>0, <2>1, <2>3 DEF Vouching
<1>12. CASE WriteState
  <2>1. /\ pc = "write" /\ headers_chain_state' = state /\ state' = GenesisState /\ pc' = "prove"
        /\ UNCHANGED <<made, proofs, i, trace, calm>>
    BY <1>12 DEF WriteState
  <2>2. Summed(headers_chain_state') /\ Summed(state') /\ headers_chain_state'.file = "state"
    BY <1>0, <2>1 DEF Vouching, IInv, Variables
  <2> QED
    BY <2>1, <2>2 DEF Vouching
<1>13. CASE WriteStateFails
  <2>1. /\ pc \in {"open", "write"} /\ state' = GenesisState /\ pc' = "prove"
        /\ UNCHANGED <<made, headers_chain_state, proofs, i, trace, calm>>
    BY <1>13 DEF WriteStateFails
  <2>2. Summed(state')
    BY <1>0, <2>1
  <2> QED
    BY <2>1, <2>2 DEF Vouching
<1>14. ASSUME pc = "prove", NextBatch, UNCHANGED <<made, headers_chain_state, state, calm>>,
              \A name \in Names : proofs'[name].file = "proof" =>
                Vouched(proofs'[name]) /\ Len(proofs'[name].chain) <= name + 1
       PROVE  Vouching'
  <2>1. i' = i + batch_size /\ pc' = "loop" /\ trace' = NoFile
    BY <1>14 DEF NextBatch
  <2>2. i' \in Names
    <3>1. i + batch_size \in Nat /\ i + batch_size <= i + batch_size
      BY Parameter
    <3> QED
      BY <1>14, <2>1, <3>1, EndIsName
  <2> QED
    BY <1>0, <1>14, <2>1, <2>2 DEF Vouching
<1>15. ASSUME pc = "prove"
       PROVE  i + batch_size - 1 \in Names /\ (i + batch_size - 1) + 1 = i + batch_size
  <2>1. i + batch_size - 1 \in Nat /\ i + batch_size - 1 <= i + batch_size
        /\ (i + batch_size - 1) + 1 = i + batch_size
    BY Parameter
  <2> QED
    BY <1>15, <2>1, EndIsName
<1>16. CASE Prove
  <2>1. /\ pc = "prove" /\ NextBatch /\ proofs' = [proofs EXCEPT ![i + batch_size - 1] = trace]
        /\ UNCHANGED <<made, headers_chain_state, state, calm>>
    BY <1>16 DEF Prove
  <2>2. Vouched(trace) /\ Len(trace.chain) <= (i + batch_size - 1) + 1
    BY <1>15, <2>1 DEF Vouching, IInv, Pending
  <2> QED
    BY <1>14, <1>15, <2>1, <2>2, OneProofReplaced
<1>17. CASE ProveFails
  <2>1. /\ pc = "prove" /\ NextBatch
        /\ proofs' = proofs \/ proofs' = [proofs EXCEPT ![i + batch_size - 1] = NoFile]
        /\ UNCHANGED <<made, headers_chain_state, state, calm>>
    BY <1>17 DEF ProveFails
  <2>2. CASE proofs' = proofs
    <3>1. \A name \in Names : proofs'[name].file = "proof" =>
            Vouched(proofs'[name]) /\ Len(proofs'[name].chain) <= name + 1
      BY <2>2 DEF Vouching
    <3> QED
      BY <1>14, <2>1, <3>1
  <2>3. CASE proofs' = [proofs EXCEPT ![i + batch_size - 1] = NoFile]
    <3>1. \A name \in Names : proofs'[name].file = "proof" =>
            Vouched(proofs'[name]) /\ Len(proofs'[name].chain) <= name + 1
      BY <1>0, <1>15, <2>1, <2>3, OneProofReplaced
    <3> QED
      BY <1>14, <2>1, <3>1
  <2> QED
    BY <2>1, <2>2, <2>3
<1>18. CASE Finish
  BY <1>18, EndsVouching DEF Finish, Stopped
<1>19. CASE CreateBridgeFails
  BY <1>19, EndsVouching DEF CreateBridgeFails, Stopped
<1>20. CASE Kill
  BY <1>20, EndsVouching DEF Kill, Stopped
<1>21. CASE Reorganise \/ CalmDown
  <2>1. UNCHANGED <<made, headers_chain_state, proofs, pc, i, state, trace>> /\ calm' \in BOOLEAN
    BY <1>21 DEF Reorganise, CalmDown, Vouching
  <2> QED
    BY <2>1 DEF Vouching
<1> QED
  BY <1>1, <1>2, <1>3, <1>4, <1>5, <1>6, <1>7, <1>8, <1>9, <1>10, <1>11, <1>12, <1>13, <1>16, <1>17,
     <1>18, <1>19, <1>20, <1>21 DEF Next, DriverStep

\* The same for a step that changes nothing.
LEMMA VouchingStep == IInv /\ Vouching /\ [Next]_vars => Vouching'
<1> SUFFICES ASSUME IInv, Vouching, [Next]_vars PROVE Vouching'
  OBVIOUS
<1>1. CASE Next
  BY <1>1, VouchingNext
<1>2. CASE UNCHANGED vars
  BY <1>2 DEF vars, files, Vouching
<1> QED
  BY <1>1, <1>2

\* The invariant about what files and memory vouch for.
THEOREM AllVouch == Spec => []Vouching
<1> QED
  BY VouchingInit, VouchingStep, HeadersInvariant, PTL DEF Spec

\* Every proof vouches for its chain: its batches follow one another from the
\* genesis block on, and its roots are the mountain range over all headers.
THEOREM HeadersVouched == Spec => []ProofsVouchForHeaders
<1>1. Vouching => ProofsVouchForHeaders
  BY DEF Vouching, Vouched, ProofsVouchForHeaders
<1> QED
  BY <1>1, AllVouch, PTL

\* All variables have their types, and a proof file is never named by fewer headers
\* than are proven in it.
THEOREM StateIsTyped == Spec => []TypeOK
<1>1. IInv /\ Vouching => TypeOK
  BY DEF IInv, Variables, Vouching, Vouched, Summed, TypeOK
<1> QED
  BY <1>1, AllVouch, HeadersInvariant, PTL
=============================================================================
