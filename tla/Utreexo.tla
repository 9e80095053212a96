------------------------------- MODULE Utreexo ------------------------------
(***************************************************************************)
(* The Utreexo accumulator of the Cairo program (src/utxo_set/             *)
(* utreexo.cairo), one action per iteration of its recursive loops.        *)
(*                                                                         *)
(* The accumulator holds only the roots of the forest.  To spend an output *)
(* it asks for an inclusion proof (fetch_inclusion_proof).  This module    *)
(* does not say who answers: AnyBridge lets the answer be anything,        *)
(* UtxoProver lets it be what the bridge node says.                        *)
(***************************************************************************)
EXTENDS Forest

CONSTANTS
  NoLeaf,      \* the argument when no function runs
  Duplicates   \* outputs that may be created again while still unspent

ASSUME NoLeafAssumption == NoLeaf \notin Leaf

\* The form of an inclusion proof: the leaf's index and a list of nodes.
InclusionProof == [leaf_index : Nat, proof : Seq(Node \ {Zero})]

VARIABLES
  roots,   \* utreexo_roots
  pc,      \* the function that is running
  leaf,    \* its argument
  n,       \* the node being built: n of the loops, prev_node of the proof check
  h,       \* the loop counter
  out,     \* roots_out: written once per index, from 0 upwards
  index,   \* leaf_index, shifted as the proof check walks up
  proof    \* the siblings, from the leaf's own up to the root's child

locals == <<leaf, n, h, out, index, proof>>
cairoVars == <<roots, pc, locals>>

ProgramCounters == {"idle", "add", "fetch", "prove", "delete", "aborted"}

Init ==
  /\ roots = EmptyRoots
  /\ pc = "idle"
  /\ leaf = NoLeaf /\ n = Zero /\ h = 0
  /\ out = EmptyRoots
  /\ index = 0 /\ proof = << >>

\* Return from a function, or leave the program: its local variables are gone.
Leave(next) ==
  /\ pc' = next
  /\ leaf' = NoLeaf /\ n' = Zero /\ h' = 0
  /\ out' = EmptyRoots
  /\ index' = 0 /\ proof' = << >>

\* The runner stops with an error: a failed assert, an unknown memory cell,
\* an exception in a hint.  Nothing of the run survives.
Abort == Leave("aborted") /\ UNCHANGED roots

\* The array a loop that ends at height h returns: what it wrote below h,
\* its node at h, and a memcpy of the rest of roots_in.
Result == [i \in Levels |-> IF i < h THEN out[i] ELSE IF i = h THEN n ELSE roots[i]]

-----------------------------------------------------------------------------
(* utreexo_add *)

StartAdd(x) ==
  /\ pc = "idle"
  /\ x \in LeavesOf(roots) => x \in Duplicates
  /\ pc' = "add" /\ leaf' = x /\ n' = <<x>> /\ h' = 0
  /\ UNCHANGED <<roots, out, index, proof>>

\* _utreexo_add_loop with a root in the way: carry to the next height.
AddCarry ==
  /\ pc = "add" /\ h \in Levels
  /\ roots[h] # Zero
  /\ n' = Hash(roots[h], n)
  /\ out' = [out EXCEPT ![h] = Zero]
  /\ h' = h + 1
  /\ UNCHANGED <<roots, pc, leaf, index, proof>>

AddPlace ==
  /\ pc = "add" /\ h \in Levels
  /\ roots[h] = Zero
  /\ roots' = Result
  /\ Leave("idle")

\* All roots are taken: roots_in[UTREEXO_ROOTS_LEN] is not in memory.
AddOverflow ==
  /\ pc = "add" /\ h \notin Levels
  /\ Abort

-----------------------------------------------------------------------------
(* fetch_inclusion_proof and utreexo_prove_inclusion *)

StartDelete(x) ==
  /\ pc = "idle"
  /\ pc' = "fetch" /\ leaf' = x
  /\ UNCHANGED <<roots, n, h, out, index, proof>>

\* The handler sends nothing but an index and a list of nodes, or nothing.
Fetch(answer) ==
  /\ pc = "fetch"
  /\ answer \in InclusionProof
  /\ pc' = "prove" /\ n' = <<leaf>> /\ h' = 0
  /\ index' = answer.leaf_index /\ proof' = answer.proof
  /\ UNCHANGED <<roots, leaf, out>>

\* No answer, or one that is not JSON: the hint raises an exception.
FetchFails ==
  /\ pc = "fetch"
  /\ Abort

ProveStep ==
  /\ pc = "prove" /\ h < Len(proof)
  /\ n' = IF index % 2 = 0 THEN Hash(n, proof[h + 1]) ELSE Hash(proof[h + 1], n)
  /\ index' = index \div 2
  /\ h' = h + 1
  /\ UNCHANGED <<roots, pc, leaf, out, proof>>

ProofMatches == h \in Levels /\ roots[h] = n

ProveAccept ==
  /\ pc = "prove" /\ h = Len(proof)
  /\ ProofMatches
  /\ pc' = "delete" /\ n' = Zero /\ h' = 0
  /\ UNCHANGED <<roots, leaf, out, index, proof>>

\* "The leaf is not included in the Utreexo set."  With as many siblings as there
\* are roots the comparison is with a cell nobody wrote, and succeeds, but the
\* memcpy at the end of the delete loop gets a negative length: no run ends so.
ProveReject ==
  /\ pc = "prove" /\ h = Len(proof)
  /\ ~ProofMatches
  /\ Abort

-----------------------------------------------------------------------------
(* _utreexo_delete_loop *)

\* Mutant: a root that the carry passes is not copied.
DeleteStepForgetsRoot ==
  /\ pc = "delete" /\ h < Len(proof)
  /\ LET p == proof[h + 1] IN
     \/ /\ n # Zero
        /\ n' = Hash(p, n) /\ out' = [out EXCEPT ![h] = Zero]
     \/ /\ n = Zero /\ roots[h] = Zero
        /\ n' = n /\ out' = [out EXCEPT ![h] = p]
     \/ /\ n = Zero /\ roots[h] # Zero
        /\ n' = Hash(p, roots[h]) /\ out' = [out EXCEPT ![h] = Zero]
  /\ h' = h + 1
  /\ UNCHANGED <<roots, pc, leaf, index, proof>>

\* Mutant: a root that went into the carry stays.
DeleteStepKeepsRoot ==
  /\ pc = "delete" /\ h < Len(proof)
  /\ LET p == proof[h + 1] IN
     \/ /\ n # Zero
        /\ n' = Hash(p, n) /\ out' = [out EXCEPT ![h] = roots[h]]
     \/ /\ n = Zero /\ roots[h] = Zero
        /\ n' = n /\ out' = [out EXCEPT ![h] = p]
     \/ /\ n = Zero /\ roots[h] # Zero
        /\ n' = Hash(p, roots[h]) /\ out' = [out EXCEPT ![h] = roots[h]]
  /\ h' = h + 1
  /\ UNCHANGED <<roots, pc, leaf, index, proof>>

\* Mutant: one of the three recursive calls passes h in place of h + 1.
DeleteStepStays ==
  /\ pc = "delete" /\ h < Len(proof)
  /\ LET p == proof[h + 1] IN
     \/ /\ n # Zero
        /\ n' = Hash(p, n) /\ out' = [out EXCEPT ![h] = roots[h]] /\ h' = h + 1
     \/ /\ n = Zero /\ roots[h] = Zero
        /\ n' = n /\ out' = [out EXCEPT ![h] = p] /\ h' = h
     \/ /\ n = Zero /\ roots[h] # Zero
        /\ n' = Hash(p, roots[h]) /\ out' = [out EXCEPT ![h] = Zero] /\ h' = h + 1
  /\ UNCHANGED <<roots, pc, leaf, index, proof>>

DeleteStep ==
  /\ pc = "delete" /\ h < Len(proof)
  /\ LET p == proof[h + 1] IN
     \/ /\ n # Zero
        /\ n' = Hash(p, n) /\ out' = [out EXCEPT ![h] = roots[h]]
     \/ /\ n = Zero /\ roots[h] = Zero
        /\ n' = n /\ out' = [out EXCEPT ![h] = p]
     \/ /\ n = Zero /\ roots[h] # Zero
        /\ n' = Hash(p, roots[h]) /\ out' = [out EXCEPT ![h] = Zero]
  /\ h' = h + 1
  /\ UNCHANGED <<roots, pc, leaf, index, proof>>

DeletePlace ==
  /\ pc = "delete" /\ h = Len(proof)
  /\ roots' = Result
  /\ Leave("idle")

\* The driver is started again: the roots of the genesis state.
Restart == roots' = EmptyRoots /\ Leave("idle")

-----------------------------------------------------------------------------
(* The steps of a running function that need nobody else. *)
Compute ==
  \/ AddCarry \/ AddPlace \/ AddOverflow
  \/ ProveStep \/ ProveAccept \/ ProveReject
  \/ DeleteStep \/ DeletePlace

-----------------------------------------------------------------------------
\* The roots are nodes; a function that runs has a leaf for its argument.
TypeOK ==
  /\ roots \in [Levels -> Node]
  /\ pc \in ProgramCounters
  /\ leaf \in Leaf \union {NoLeaf}
  /\ n \in Node /\ h \in Nat
  /\ out \in [Levels -> Node]
  /\ index \in Nat
  /\ proof \in Seq(Node \ {Zero})
  /\ pc \in {"add", "fetch", "prove", "delete"} => leaf \in Leaf

\* The forest never holds an output twice, so an output that was spent is
\* really gone: utreexo_add and utreexo_delete neither copy nor keep a leaf,
\* whatever inclusion proofs they are given.
NoLeafTwice == DistinctLeaves(roots)

\* The leaves of the first k trees, and of the first k siblings of the proof.
Below(trees, k) == UNION {Range(trees[i]) : i \in 0 .. k - 1}
Siblings(k) == UNION {Range(proof[i]) : i \in 1 .. k}

\* The leaf and the first k siblings are disjoint trees without repetition.
DistinctSiblings(k) ==
  \A i \in 1 .. k :
    /\ IsInjective(proof[i])
    /\ leaf \notin Range(proof[i])
    /\ \A j \in 1 .. k : i # j => Range(proof[i]) \intersect Range(proof[j]) = {}

\* The carry holds the new leaf and every root it has passed.
AddLoopInv ==
  pc = "add" =>
    /\ h \in 0 .. Height
    /\ leaf \notin LeavesOf(roots)
    /\ IsInjective(n)
    /\ Range(n) = {leaf} \union Below(roots, h)
    /\ \A i \in 0 .. h - 1 : out[i] = Zero

\* The node is built of the leaf and the siblings passed; if no leaf is twice
\* below it (as below a root), the siblings are disjoint.
ProveLoopInv ==
  pc = "prove" =>
    /\ h \in 0 .. Len(proof)
    /\ Range(n) = {leaf} \union Siblings(h)
    /\ IsInjective(n) => DistinctSiblings(h)

\* The carry and the roots written so far share out the leaves of the siblings
\* and of the old roots passed.
DeleteLoopInv ==
  pc = "delete" =>
    /\ h \in 0 .. Len(proof) /\ Len(proof) \in Levels
    /\ DistinctSiblings(Len(proof))
    /\ Range(roots[Len(proof)]) = {leaf} \union Siblings(Len(proof))
    /\ Range(n) \union Below(out, h) = Siblings(h) \union Below(roots, h)
    /\ IsInjective(n)
    /\ \A i \in 0 .. h - 1 :
         /\ IsInjective(out[i])
         /\ Range(out[i]) \intersect Range(n) = {}
         /\ \A j \in 0 .. h - 1 : i # j => Range(out[i]) \intersect Range(out[j]) = {}

\* In the middle of an operation no leaf is lost and none is copied: the parts
\* the loop has built and the parts it has yet to visit are the forest.
LoopInvariant == AddLoopInv /\ ProveLoopInv /\ DeleteLoopInv

IInv == TypeOK /\ NoLeafTwice /\ LoopInvariant

\* The UTXO set the roots stand for.
Abstract == INSTANCE UtxoSet WITH utxos <- LeavesOf(roots)

\* utreexo_add and utreexo_delete implement a set of outputs: each returns
\* roots of exactly the leaves before plus or minus the one it was called for,
\* and a leaf that is not below the roots is never deleted, whatever answer
\* fetch_inclusion_proof got.
ImplementsUtxoSet == Abstract!Spec

\* The places below those trees, of the ones given, that hold output x.
Places(trees, I, x) == UNION {{i} \X {k \in DOMAIN trees[i] : trees[i][k] = x} : i \in I}
Occurrences(x) == Places(roots, Levels, x)

\* Even for outputs that were created twice, as coinbases with the same txid
\* once were, the roots count right: an add is one more occurrence, a delete is
\* one less, and the other outputs keep theirs.
OneOccurrenceAtATime ==
  [][\/ roots' = EmptyRoots
     \/ \A x \in Leaf :
          Cardinality(Occurrences(x)') - Cardinality(Occurrences(x)) =
            IF x # leaf THEN 0 ELSE IF pc = "add" THEN 1 ELSE -1]_roots
=============================================================================
