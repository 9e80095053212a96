------------------------------ MODULE Benchmark -----------------------------
(***************************************************************************)
(* The set-up of a benchmark (src/utils/benchmark_block.py and             *)
(* utxo_dummy_generator.py): it empties the bridge node, adds the outputs  *)
(* one block spends, which it has from blockstream.info or from a cache,   *)
(* and takes the node's roots for the state before that block.             *)
(***************************************************************************)
EXTENDS BridgeNode, SequencesExt

CONSTANTS
  Block,      \* the blocks that may be at the benchmark's height
  Inputs,     \* what the transactions of each spend, in order: Coinbase, or an output
  Own,        \* the outputs its own transactions create
  Coinbase,
  OtherLeaf   \* what other clients add and delete

NoBlock == "none"

ASSUME BenchmarkAssumption ==
  /\ NoBlock \notin Block
  /\ \A b \in Block : Inputs[b] \in Seq(Leaf \union {Coinbase}) /\ Own[b] \subseteq Leaf
  /\ OtherLeaf \subseteq Leaf

VARIABLES
  best,     \* the block at that height on blockstream.info
  cache,    \* block_{height}.json: NoFile, Empty, or the hashes in it
  step,     \* of the benchmark
  block,    \* the block it has fetched, of which it uses the parent and the bits
  utxo_hashes, \* those it still has to add
  roots,    \* utreexo_roots of the state it writes
  disturbed, \* history: another client has used the bridge node since it was emptied
  moved     \* history: best has changed since the cache was made or block was fetched

benchmarkVars == <<best, cache, step, block, utxo_hashes, roots, disturbed, moved>>
vars == <<bridgeVars, benchmarkVars>>

NoFile == [file |-> "none"]
Empty == [file |-> "empty"]

Stopped == {"off", "died"}

Init ==
  /\ BridgeInit
  /\ best \in Block /\ cache = NoFile
  /\ step = "off" /\ block = NoBlock /\ utxo_hashes = << >> /\ roots = EmptyRoots
  /\ disturbed = FALSE /\ moved = FALSE

Ends(how) == step' = how /\ block' = NoBlock /\ utxo_hashes' = << >> /\ roots' = EmptyRoots

\* bridge_node_running: the answer does not matter, only that there is one.
Start ==
  /\ step \in Stopped
  /\ Reset
  /\ step' = "fetch"
  /\ UNCHANGED <<best, cache, block, utxo_hashes, roots, disturbed, moved>>

fetch_block ==
  /\ step = "fetch"
  /\ block' = best /\ step' = "reset"
  /\ UNCHANGED <<bridgeVars, best, cache, utxo_hashes, roots, disturbed, moved>>

-----------------------------------------------------------------------------
(* setup_bridge_node and generate_utxo_dummys *)

\* Mutant: an output of the same block is added like any other.
hash_tx_ins_with_own(b) ==
  LET hashes[k \in 0 .. Len(Inputs[b])] ==
        IF k = 0 THEN << >>
        ELSE IF Inputs[b][k] = Coinbase THEN hashes[k - 1]
        ELSE Append(hashes[k - 1], Inputs[b][k])
  IN  hashes[Len(Inputs[b])]

\* The loop with its two continues.
hash_tx_ins(b) ==
  LET hashes[k \in 0 .. Len(Inputs[b])] ==
        IF k = 0 THEN << >>
        ELSE IF Inputs[b][k] = Coinbase \/ Inputs[b][k] \in Own[b] THEN hashes[k - 1]
        ELSE Append(hashes[k - 1], Inputs[b][k])
  IN  hashes[Len(Inputs[b])]

ResetBridge ==
  /\ step = "reset"
  /\ Reset
  /\ step' = "dummys" /\ disturbed' = FALSE
  /\ UNCHANGED <<best, cache, block, utxo_hashes, roots, moved>>

ReadCache ==
  /\ step = "dummys" /\ cache.file = "json"
  /\ utxo_hashes' = cache.hashes /\ step' = "add"
  /\ UNCHANGED <<bridgeVars, best, cache, block, roots, disturbed, moved>>

\* JSONDecodeError
ReadCacheFails ==
  /\ step = "dummys" /\ cache = Empty
  /\ Ends("died") /\ disturbed' = FALSE
  /\ UNCHANGED <<bridgeVars, best, cache, moved>>

\* fetch_tx_ins_and_outs asks again for the block, and open() makes the file.
MakeCache ==
  /\ step = "dummys" /\ cache = NoFile
  /\ utxo_hashes' = hash_tx_ins(best)
  /\ cache' = Empty /\ step' = "dump"
  /\ UNCHANGED <<bridgeVars, best, block, roots, disturbed, moved>>

DumpCache ==
  /\ step = "dump"
  /\ cache' = [file |-> "json", hashes |-> utxo_hashes]
  /\ step' = "add"
  /\ UNCHANGED <<bridgeVars, best, block, utxo_hashes, roots, disturbed, moved>>

\* The answer to GET /add is not looked at.
AddDummy ==
  /\ step = "add" /\ utxo_hashes # << >>
  /\ Add(Head(utxo_hashes)) \/ AddExisting(Head(utxo_hashes))
  /\ utxo_hashes' = Tail(utxo_hashes)
  /\ UNCHANGED <<best, cache, step, block, roots, disturbed, moved>>

\* GET /roots
GetRoots ==
  /\ step = "add" /\ utxo_hashes = << >>
  /\ roots' = root_nodes /\ step' = "write"
  /\ UNCHANGED <<bridgeVars, best, cache, block, utxo_hashes, disturbed, moved>>

\* Of genesis_state, with the block's parent, its bits, and the roots.
WriteState ==
  /\ step = "write"
  /\ step' = "run"
  /\ UNCHANGED <<bridgeVars, best, cache, block, utxo_hashes, roots, disturbed, moved>>

-----------------------------------------------------------------------------
\* Killed, or a server does not answer; or the run it was made for is over.
End ==
  /\ step \notin Stopped
  /\ Ends("off") /\ disturbed' = FALSE
  /\ UNCHANGED <<bridgeVars, best, cache, moved>>

Reorganise ==
  /\ \E b \in Block \ {best} : best' = b
  /\ moved' = (moved \/ block # NoBlock \/ cache # NoFile)
  /\ UNCHANGED <<bridgeVars, cache, step, block, utxo_hashes, roots, disturbed>>

\* Other clients, also between two benchmarks.
OtherClient ==
  /\ (\E x \in OtherLeaf : Request(x)) \/ Reset
  /\ disturbed' = (step \notin Stopped)
  /\ UNCHANGED <<best, cache, step, block, utxo_hashes, roots, moved>>

Next ==
  \/ Start \/ fetch_block \/ ResetBridge \/ ReadCache \/ ReadCacheFails
  \/ MakeCache \/ DumpCache \/ AddDummy \/ GetRoots \/ WriteState
  \/ End \/ Reorganise \/ OtherClient

Spec == Init /\ [][Next]_vars

-----------------------------------------------------------------------------
\* Whatever was in the bridge node and in the cache before, and wherever earlier
\* benchmarks were stopped: the state a benchmark writes has the roots of the
\* bridge node, and the forest fits the block: it has what the block spends and
\* not what the block will add itself, unless somebody else used the bridge node
\* in between, or the chain changed under the cache.
DummysFitTheBlock ==
  step = "run" /\ ~disturbed =>
    /\ roots = root_nodes
    /\ ~moved =>
        /\ block = best
        /\ leaf_nodes \intersect Own[block] = {}
        /\ Range(Inputs[block]) \ (Own[block] \union {Coinbase}) \subseteq leaf_nodes
=============================================================================
