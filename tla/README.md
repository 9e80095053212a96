# A TLA+ model of ZeroSync

ZeroSync proves with a STARK that a Bitcoin chain is valid. A Cairo program takes
the state after block *i − 1*, validates block *i*, verifies the STARK proof of
its own earlier run (which vouches for blocks 0 to *i − 1*) and outputs the state
after block *i*. A Python driver runs it block by block. The set of unspent
outputs is not part of the state; the state holds the roots of a Utreexo forest,
and a local server, the bridge node, hands out the inclusion proofs.

This directory holds TLA+ modules of that system, TLC configurations that check
them on small instances and proofs that TLAPS checks for all instances. Paths
below are relative to the repository; `Module!Name` is a definition here.

## 1. Inventory

| Component (code) | State | Operations | Talks to |
|---|---|---|---|
| Utreexo accumulator (`src/utxo_set/utreexo.cairo`) | 27 roots, passed along as arrays | init, add, prove inclusion, delete | bridge node, by `GET /delete/{hash}` in a hint |
| UTXO set (`src/utxo_set/utxo_set.cairo`) | none | insert and extract an output, hash an output | accumulator; bridge node, by `GET /add/{hash}`; Bitcoin API |
| Bridge node (`src/utxo_set/bridge_node.py`) | roots, a dictionary of leaves, linked nodes; in memory only | add, delete, reset, one request at a time | every HTTP client |
| Block headers (`src/block/block_header.cairo`) | chain state: height, work, best hash, target, epoch start, 11 timestamps | read, validate and apply a header; retarget | Bitcoin API |
| Median time (`src/block/compute_median.cairo`) | none | a hint that sorts, a check that counts | headers |
| Blocks, transactions (`src/block/block.cairo`, `src/transaction/transaction.cairo`) | roots, totals, fees | inputs, outputs, coinbase, Merkle root | UTXO set, headers |
| Merkle tree (`src/block/merkle_tree.cairo`) | none | root of the txids | blocks |
| Chain proof (`src/chain_proof/`) | `chain_state.json`, `chain_proof-{i}.bin`, `trace.bin` | driver loop; program and its recursion | all of the above, verifier, giza |
| Headers chain proof (`src/headers_chain_proof/`) | `headers_chain_state.json`, proofs; a mountain range of header hashes | batches of headers; resumes after a stop | headers bridge node, headers, verifier |
| Headers bridge node (`src/headers_chain_proof/bridge_node.py`) | leaves, null nodes, root | create, merkle_path, reset | Bitcoin API |
| STARK verifier (`src/stark_verifier/`) | channel, public coin | read and verify a proof: transcript, constraints, FRI | proof parser, by hints |
| Proof parser, hints (`parser/`, `hints/`) | none | rewrite a giza proof into Cairo memory | verifier |
| Serialization (`src/utils/serialize.cairo`) | a byte reader and writer | integers, variable length integers, hashes | headers, transactions |
| Bitcoin API (`src/utils/btc_api.py`) | caches per process | blocks and transactions by height | Bitcoin node |
| Benchmarks, test data (`src/utils/benchmark_block.py`, `utxo_dummy_generator.py`) | `block_{height}.json`, state files | fill the bridge node with what one block spends; run and time it | bridge node, blockstream.info, runner |
| Hashes, signatures (`src/crypto/`) | none | sha256, ripemd160, secp256k1 | headers, transactions |

Calls run downward in one process, the Cairo runner; there are no threads. What
is concurrent are processes: the runner, the bridge node, the Bitcoin node, the
driver that starts the runner and the prover, and whoever else sends requests to
the bridge node. They share files and HTTP servers without any locking.

What is hard, and for each component what makes it correct:

* **Accumulator.** Add and delete move trees between heights with a carry, from
  an inclusion proof that comes from outside. Correct: the roots stand for
  exactly the outputs that were added and not deleted, whatever the proof.
* **Bridge node.** The same carry on linked objects. Correct: every leaf's parent
  pointers lead to a proof against the present roots, and the roots are those of
  the accumulator at the start of every operation. It changes its forest
  *before* the program has checked anything, and loses it when it stops.
* **Headers.** Six felts stand for the whole history. Correct: a header is
  accepted if and only if rules over the whole history accept it; the edges are
  epochs, the lossy target encoding, field arithmetic without signs, and two
  answers that an untrusted hint gives. One of them, the median, is determined by
  its check. The other, the bits of a new target, is not: the check leaves the prover
  a choice, and the rules must say between what.
* **Blocks and transactions.** Inputs, outputs and the coinbase change the roots
  one after the other, and a block may fail at its last assert. Correct: blocks
  act as a whole or not at all, and create no more money than their subsidy.
* **Headers driver.** It resumes, with batches of another size perhaps, and goes
  on when a state was not written or a proof failed. Correct: proofs still vouch
  for all headers and for the mountain range over them.
* **Headers bridge node and API.** A request to another server in the middle of a
  request; a cache by height under a chain that changes; an exception halfway.
  Correct: the leaves are one chain, in order, and every path leads to the root.
* **Serialization.** Reader and writer keep the rest of a word between calls.
  Correct: whatever the pieces, the bytes come out in order.
* **FRI queries.** Queries that fall on one position of a layer are verified
  once; verifier and parser count them separately. Correct: they count alike.
* **Chain proof.** Files of earlier runs, failed proofs, other programs and
  abandoned blocks lie about under the names the next run will look for, and
  the state is written before its proof. Correct: a proof vouches for one chain
  from genesis whatever happened, and a fresh start after the faults succeeds.

`PROJECT.json` lists the hazards one by one with their lines and properties.

## 2. Modules

### Accumulator, UTXO set, bridge node

* `Forest` – nodes. A node is the sequence of the leaves below it, `Hash` is
  concatenation, and `Zero`, the empty sequence, is the 0 of Cairo and the `None`
  of Python. Collision resistance is taken for granted, as everywhere in this
  code; what a sequence forgets of the shape of a tree the model does not gain:
  two nodes with the same leaves in the same order but another shape would be
  equal, so the accumulator is given *more* wrong proofs to accept than the real
  one. `AccumulatorImplementsUtxoSet` holds all the same.
* `UtxoSet` – the abstract specification: a set with insert and extract.
* `Utreexo` – `utreexo.cairo`, one action per round of `_utreexo_add_loop`
  (`AddCarry`, `AddPlace`), `_prove_inclusion_loop` (`ProveStep`, `ProveAccept`,
  `ProveReject`) and `_utreexo_delete_loop` (`DeleteStep`, `DeletePlace`). `out`
  is `roots_out`. `AddOverflow` is the memory error of a carry past the last root.
* `AnyBridge` – the accumulator with arbitrary answers in place of a bridge node.
* `BridgeNode` – `bridge_node.py`: one action per request, because the
  single-threaded `HTTPServer` serves one at a time. `parent` is the attribute of
  the linked objects. The `IndexError` of a carry past the last root, which
  leaves the roots already taken away, and the `KeyError` of an unknown leaf are
  actions with exactly what they leave behind.
* `UtxoProver` – `Utreexo` and `BridgeNode` composed as `utxo_set.cairo` does it:
  `Insert` ignores the answer of `/add`; `FetchProof` deletes in the server
  first. Around them `BridgeStops`, `BridgeStarts`, `OtherClient`, `Kill` and
  `StartDriver`. The history variable `excuse` records that something happened,
  since the driver was started, after which even an honest run may fail.
* `HashChain` – the hash loop of `utxo_set.cairo`, over raw pointers, backwards.
* `Benchmark` – the set-up of a benchmark as a client of `BridgeNode` beside
  others: `ResetBridge`, `ReadCache` or `MakeCache` and `DumpCache`, `AddDummy`
  once for each output, `GetRoots`, `WriteState`. The history variables
  `disturbed` and `moved` say that somebody else used the server in between, or
  that blockstream.info has changed its mind under the cache.

### Headers

* `Compact` – `bits_to_target` and `target_to_bits`. `CompactHint` is what the hint
  in the source computes, `VerifyCompact` the mask check of the Cairo program. A
  prover may run another hint, so `target_to_bits` is the *set* of all bits that pass
  the check, and whoever calls it takes any of them. The base of the digits and the
  greatest exponent are constants, 256 and 29 in the code.
* `Retarget` – `adjust_difficulty` for epochs of exactly two weeks, from any target: the chain
  state keeps `bits` only (`encoded`), so each epoch decodes and encodes it again, with
  any answer that passes.
* `ComputeMedian` – the sorting hint and the counting check.
* `HeaderParameters`, `HeaderChain` – the abstract specification: a chain of
  headers, each obeying rules stated over all of the chain before it. `Retarget` is the
  exact target of an epoch, `AllowedBits` what its blocks may have for bits.
* `BlockHeader` – `block_header.cairo`: one operator per assert and per
  component of the next state, `validate_and_apply_block_header` and `Reject` the
  actions; `adjust_difficulty` stores any answer of `target_to_bits`. Felts are modelled where it matters: the timespan of an epoch is a
  difference modulo `PRIME`. A header's hash is chosen freely, since double SHA256
  is a black box to the rules, but is not zero: so no header has work enough for a target of zero,
  by which the code would divide.

### Blocks and transactions

* `Money` – the abstract specification: the unspent outputs change by blocks.
* `Ledger` – `block.cairo` and `transaction.cairo`, one action per input, output
  and transaction; the coinbase last, as in the code. What it inherits from
  `AnyBridge` is that the roots are a set of outputs. Two transactions of a chain
  have different txids here.
* `MerkleTree` – `merkle_tree.cairo`, row by row, with the assert that an even row
  must not end in two equal hashes. `ReadBlock` gives it the list of any block, as
  `block.cairo` does.
* `Serialize` – `serialize.cairo`: readers and writers are records with the fields
  of the code, a read returns the reader after it and its value, and masks are
  `Digits`. `ReadNext` and `WriteNext` are a program that reads a stream and
  writes it again in other pieces; its reader is `input`, its writer `output`. A byte
  has `BYTE` values. `WriteVarint` writes one integer, behind up to three bytes
  of a word, and `VarintRoundTrip` says what a reader that comes to it there gets.

### Driver and recursion

* `ChainProof` – `main.py` step by step (`Mkdir` to `Finish`), the Cairo program
  with the recursion of `recurse.cairo` as one action (`CairoRun`, or
  `CairoRunFails` if the next block does not extend the state or the parent proof
  does not fit), `Prove` and `ProveFails` for giza, after which the loop goes on;
  `Kill`, `Reorganise` and `Recompile` around it. `os.popen` does not wait for
  mkdir, so `Mkdir` may come after `WriteGenesis`, which then fails. A proof
  carries in the model the list of all proofs it was checked against, and the
  verifier is assumed to be sound: it accepts exactly proofs of runs.

### Headers chain proof

* `BitcoinApi` – one call of `get_block_header`, request by request: `make_BTCAPI`
  picks the local node or Esplora once and for all, `BitcoinCLI` makes two
  requests over one connection that a timeout leaves unusable, `EsplorerAPI`
  caches hashes and headers by height and ends the process on a bad status. The
  chain may change between any two requests.
* `HeadersBridge` – `headers_chain_proof/bridge_node.py` on top of `BitcoinApi`:
  `Create`, then one `FetchHeader` … `AppendHeader` per header, and `BuildTree`
  when all are there, so that a failure in between leaves nothing behind; `Reset`,
  which keeps the root and the null node of the old tree; the server's end. A row of
  `tree` is a row of `Node` objects of the code, and an `inclusion_proof` is read off
  the rows; the sibling on a row is what the parent pointers lead to.
* `HeadersChainProof` – the driver of the headers (`Start` to `Finish`), with
  batches of `batch_size` headers, and as one action (`CairoRun`) the program with
  its recursion and `mmr_add_leaves`. What differs from `ChainProof` is in the code: it
  resumes behind the state it finds, goes on with an exception caught at writing the
  state (`WriteStateFails`), names proofs by the loop variable and looks for them by
  the state's height. Headers come from `best`; that the leaves a `Create` serves are
  `best`'s is what `HeadersBridge` shows.

### STARK verifier

* `FriVerifier` – `fri_verifier.cairo` and, on the other side of its hints,
  `fold_positions` and `into_paths` of the parser: one action per layer of a query
  (`VerifyLayer`), `SkipLayers` where an earlier query fell on the same position,
  `FinalEvaluation`, `ReadRemainder`, `VerifyRemainder`. The two arrays of lengths
  are those of the code. The prover (`Evaluations`, `Trees`) is outside this
  repository and modelled from what the verifier demands, in a field of 97 elements
  whose multiplicative group has a subgroup of 32. It shows completeness: an
  honest proof passes. Soundness is a statement about probabilities.

`MC*` modules give the constants and inputs of the instances. Comments that start
with "Mutant" mark definitions that only the list of mutants in `PROJECT.json`
uses: each property is broken by putting one of them in place of the definition
that follows it.

## 3. Runs

| Run | Instance | Shows |
|---|---|---|
| `any_bridge` | 3 roots, 8 outputs, every proof of at most two nodes over 4 of them | `NoLeafTwice`; the accumulator implements `UtxoSet` |
| `bridge` | 3 roots, 9 outputs, any sequence of requests; one of two blocks to benchmark | the linked forest stays perfect, every proof verifies against the roots; a benchmark's roots and dummies fit its block |
| `prover` | 3 roots, 4 outputs, all faults | lockstep of the two forests, one request ahead, honest runs never abort |
| `duplicates` | 2 roots, 3 outputs, one may be created twice | roots count occurrences rightly; every operation ends (liveness) |
| `headers` | chains of six headers, two epochs of three blocks, window of three timestamps, every answer to the target hint that passes | the six felts hold of the history what is needed; accepts only headers the rules over the whole chain allow; the median is unique and monotone; no answer moves a target up by more than four |
| `algorithms` | see below | compact targets, the hash chain, Merkle roots, varints, streams, FRI queries |
| `ledger` | three blocks, two transactions each and a coinbase, halving every two blocks | blocks are atomic, no inflation |
| `chain_proof` | three blocks, two blocks per height and parent, two programs, all faults | proofs vouch for their chain; the state is at most one block ahead of them; the best chain is proven in the end (liveness) |
| `headers_bridge` | two chains of six headers that part after the fourth, clients that ask for 1, 3, 5, 6 or 7, all faults of the API | paths lead to the root; the null path is behind the last leaf; the leaves are one chain; once nothing fails a client gets the best one (liveness) |
| `headers_driver` | two chains of five headers that part after the first, three batches of one or two of two, all faults | proofs vouch for headers and mountain range; the state is at most one batch ahead; a state without proof is final; all batches are proven if nothing fails (liveness) |
| `epoch_start`, `output_dir` | as `headers`, `chain_proof` | disagreements, see 6 |

`algorithms` runs six things that have no partner, side by side, each on all of its
small inputs: the compact encoding of every target of up to six base-4 digits, with
every answer that passes its check; the
hash chain of every array of at most five bits; the Merkle root of every list of at
most eight of two transactions; `write_varint` and `read_varint` with bytes of four
values, from each byte of a word, on all integers of up to four bytes, some of five and the
greatest of eight; one stream of four words, in which each byte differs from its neighbours, read and
written in pieces of one, two and four bytes in every order; FRI with a domain of
sixteen, folding by two, three layers, one polynomial and every choice of three
positions in every order.

**Why the bounds are enough.** Three roots have all cases of the carry: none, one,
several and past the last. Forests of up to seven leaves have trees of height 0, 1
and 2 side by side, so a deletion meets each of its three cases at each height.
A forest of three roots overflows with the eighth leaf: `any_bridge` fills it with
four outputs that stay (`Stock`) beside the four that come and go and that proofs
mention; `bridge` has nine leaves, so that it goes on after an overflow; in
`duplicates` two roots are full with three leaves. Two epochs are what the
retarget needs to be applied to its own result; with the times 1, 4 and 30 an
epoch may end before it began, and last less than a quarter and more than four
times of what is expected. Base 4 has the same sign-bit and truncation cases as
base 256, and targets of zero to six digits are below, at and above the three
digits the form keeps. Three blocks are the least with a proof that has a
grandparent. Six headers give trees with null nodes on one row, on another and on
two at once, and end with a header that is not on both chains; seven are more than there are.
Batches of one and of two make a driver resume in the middle of what an earlier one
would have proven at once. A list of eight transactions has rows that are odd
at the bottom, in the middle and twice; the shortest lists that only the
assert tells apart have three and four. Three queries in layers of eight, four and two rows must
fall together in the last layer, and do so in every way in those before, also a query with two
different ones.

**What is bounded only for TLC.** Numbers of outputs, blocks, transactions, the
length of proofs: constants of the MC modules or of the cfg files (`MaxProof`,
`MaxBlocks`, `MaxHeight`, `MaxTx`, `MaxOutputs`, `NumBlocks`, `MaxLength`,
`Height`, `Wanted`, `Parameters`). The specifications themselves have none of these bounds except
`Height`, `MMR_ROOTS_LEN` and `NumBlocks`, which are constants of the code (27,
27 and 100). Symmetry
under permutations of leaves (of those that the bounds treat alike) is used in
`any_bridge`, `bridge` and `prover`, where leaves are only compared; the runs with
liveness use none.

**Fairness.** `UtxoProver` assumes weak fairness of the runner (`Run`) and of
the answer to a request in flight, which comes, fails or is refused: the runner
is a sequential process and nothing in the program suspends it. Nothing is
assumed about faults, drivers or restarts. `ChainProof` assumes weak fairness of
the driver's own steps; a driver need not be started. `AllBlocksProven` is about
drivers that start after the faults have stopped (`calm`), and only in a
directory that exists, since mkdir may otherwise be late. `HeadersChainProof` does the
same, and `AllBatchesProven` asks in addition for a state that is not `Stuck` and
is on the best chain: `FailedProofIsFinal` shows that this cannot be left out.
`HeadersBridge` assumes that the server, once it serves a request, goes on with
it, and that a request to a node that answers is answered; `CreateServesBestChain`
is for clients that ask after the faults have stopped. Nothing is assumed about
requests, starts or the chain.

## 4. Proofs

| Theorem | Module | Says |
|---|---|---|
| `AccumulatorInvariant` | `UtxoProverProofs` | `IInv` always holds |
| `AccumulatorHoldsNoLeafTwice` | `UtxoProverProofs` | no output is below the roots twice |
| `AccumulatorImplementsUtxoSet` | `UtxoProverProofs` | the accumulator implements `UtxoSet`, whatever inclusion proofs it gets |
| `EveryOccurrenceCounts` | `UtxoProverProofs` | an operation changes the count of its own leaf by one, of no other, also when outputs are created twice |
| `ProverCountsOccurrences` | `UtxoProverProofs` | the same with the real bridge node and all faults |
| `BridgeInvariant` | `UtxoProverProofs` | the bridge node's linked objects are a forest, its keys the leaves |
| `ForestStaysPerfect` | `UtxoProverProofs` | one perfect tree per bit of the number of leaves |
| `EveryProofVerifies` | `UtxoProverProofs` | every inclusion proof leads to a root |
| `EveryLeafGetsAProof` | `UtxoProverProofs` | every leaf gets one |
| `ProverInvariant`, `ProverImplementsUtxoSet` | `UtxoProverProofs` | the same with the real bridge node and all faults |
| `TwoForestsInStep` | `UtxoProverProofs` | the invariant that relates the accumulator's loops to the server's |
| `ForestsAgree` | `UtxoProverProofs` | the server's roots are those of the running operation's end |
| `BridgeOneAhead` | `UtxoProverProofs` | the server is ahead by the operation that runs |
| `HonestRunSucceeds` | `UtxoProverProofs` | no check fails in a run that nothing excuses |
| `DriverInvariant` | `ChainProofProofs` | `IInv` of the chain proof's driver always holds |
| `ProofsVouch` | `ChainProofProofs` | a proof vouches for its blocks back to genesis |
| `StateIsProven` | `ChainProofProofs` | the state is at most one block ahead of the proofs |
| `LedgerInvariant` | `BlockProofs` | `IInv`: how the totals relate to the outputs taken and made |
| `OnlySubsidiesInflate` | `BlockProofs` | no inflation, at no point of a block |
| `LedgerImplementsMoney` | `BlockProofs` | `Ledger` implements `Money`: blocks are atomic and pay for what they create |
| `MerkleRootCommits` | `BlockProofs` | leaves with one Merkle root are one list of leaves |
| `RootDeterminesList` | `BlockProofs` | no two lists of transactions have one root, unless one is refused |
| `HashChainIsReturned` | `BlockProofs` | `hash_chain` returns the chained hash of its array, and nothing if that has no or one element |
| `HashChainIsInjective` | `BlockProofs` | no other array has that hash, whatever its length |
| `StreamSurvives` | `BlockProofs` | a stream is read and written in order, in whatever pieces |
| `VarintsSurvive` | `BlockProofs` | integers of variable length are read back as they were written |
| `BenchmarkFits` | `BenchmarkProofs` | a benchmark's roots and dummies fit its block |
| `HeadersInvariant` | `HeadersChainProofProofs` | `IInv` of the headers driver always holds |
| `StateRestsOnProofs` | `HeadersChainProofProofs` | the state is at most one batch ahead, whatever the batch sizes |
| `StuckForever` | `HeadersChainProofProofs` | a failed proof is final |
| `AllVouch` | `HeadersChainProofProofs` | every state in a file or in memory carries the mountain range over its headers |
| `HeadersVouched` | `HeadersChainProofProofs` | a proof vouches for its headers back to genesis, and for their mountain range |
| `StateIsTyped` | `HeadersChainProofProofs` | `TypeOK` of the headers driver |
| `BridgeInvariant` | `HeadersBridgeProofs` | `IInv` of the headers bridge always holds |
| `LeavesAreTheChain` | `HeadersBridgeProofs` | its leaves are one chain, in order |
| `TreeIsOfTheLeaves` | `HeadersBridgeProofs` | tree, root and null node are those of the leaves, or after a reset of the old ones |
| `EveryPathLeadsToRoot` | `HeadersBridgeProofs` | the path of every leaf leads to the root |
| `NullNodeIsBehindLastLeaf` | `HeadersBridgeProofs` | the remembered null node is the one behind the last leaf, and its path leads to the root even after a reset |
| `StateIsTyped` | `HeadersBridgeProofs` | `TypeOK`: types, and how much there can be |
| `StateIsSummary` | `BlockHeaderProofs` | the chain state is what the history of headers gives |
| `AcceptsByTheRules` | `BlockHeaderProofs` | `BlockHeader` implements `HeaderChain`, whatever the prover answers |
| `RefusesOnlyForbidden` | `BlockHeaderProofs` | the converse: it accepts every header the rules allow |
| `StateIsTyped` | `BlockHeaderProofs` | `TypeOK`: the bits stay within those of the limit |
| `TargetMovesByFour` | `BlockHeaderProofs` | the target moves up by a factor of four at most, and with the honest answer down |
| `HonestHintIsAccepted` | `BlockHeaderProofs` | the compact target of the hint passes its check |
| `NoAnswerEases` | `BlockHeaderProofs` | no accepted answer is an easier target; its freedom is the exponent; the honest one loses little |
| `HintIsTheMedian` | `BlockHeaderProofs` | the sorting hint's answer passes the median check, and nothing else does |
| `MedianIsDetermined` | `BlockHeaderProofs` | the median check admits one value |
| `MedianTimeNeverDecreases` | `BlockHeaderProofs` | the median time never goes back |

**Induction.** The induction theorems of the library take an operator as a
parameter, and the provers at hand cannot instantiate that. `DataLemmas` states what is needed with
sets in place of operators: every set of numbers has a least one (`LeastNumber`), a
set with 0 and with every number the next has all (`SetInduction`, and up and down
to a bound), a function defined step by step exists (`Iteration`). With these, and
with the powers of two, which the provers do not know but the number of subsets of a
finite set gives (`PowersOfTwo`), the recursive functions of bridge node, headers
bridge and compact form can be reasoned about for every input.

**Accumulator.** For any finite or infinite set of outputs, any number of roots
and any set of answers. The assumption `Duplicates = {}` says that an output is
not created again while it is unspent: the code does not check this (Bitcoin's
BIP 30 and 34 are not implemented), and `NoLeafTwice` would be false without it;
what holds instead, with any set `Duplicates`, is `OneOccurrenceAtATime`
(see *Occurrences*).

`NoLeafTwice` is not inductive: in the middle of an operation the leaves are
spread over the carry `n`, the roots written so far (`out`), the old roots and the
siblings of the proof. `LoopInvariant` says how. `AddLoopInv`: the carry holds
the new leaf and every root passed. `ProveLoopInv`: the node built from the
untrusted proof has below it the leaf and the siblings passed, and if no leaf is
in it twice, the siblings are pairwise disjoint; once `ProveAccept` finds it to be
a root, in which by `NoLeafTwice` no leaf is twice, the siblings are disjoint and
are that root without the leaf. `DeleteLoopInv`: the carry and the
roots written so far share out the leaves of the siblings and the old roots
passed. There is one lemma per action (`AddCarryInv`, …,
`DeletePlaceInv`), resting on lemmas about `Hash` (`RangeHash`, `InjectiveHash`)
and on the two that say what an operation returns, `AddResult` and `DeleteResult`,
from which both preservation and refinement follow. The composition with the bridge
node, in the same module, reuses all of them: each step of the composition is a step
of the accumulator or leaves it alone.

**Occurrences.** `EveryOccurrenceCounts` needs no assumption on outputs that are created
again and none on the proofs handed in. Its invariant `CountInv` says for every output
how many places hold it, in the four kinds of trees an operation is in the middle of:
the carry `n`, the roots passed (`roots` below `h`), the roots written (`out`), and the siblings of
`proof`. `AddCounts`: the carry holds the new leaf and what the roots passed held.
`ProveCounts`: the node holds the leaf and what the siblings passed hold; since the check
accepts only if that node *is* a root, `DeleteCounts` follows: the root has one leaf
more than the siblings, and carry and roots written hold together what the siblings
and the roots passed held. At the end of a delete the carry is gone into the roots, and the count
of its leaf has fallen by exactly one, whichever of two equal leaves the proof was of. The lemmas
count places with `Cardinality`, over disjoint unions of finite sets and along concatenations.

**Bridge node.** For any number of leaves and roots, any requests of any clients.
None of the four properties is inductive: a delete takes apart the tree that the
proof is in, and puts its parts together with other roots, by pointers alone.
`BridgeInv` says what the pointers are: `Linked` (every node is a perfect tree
without repeated leaves, its children point back to it, a node with a parent is
one of the parent's children, and nodes of one height share no leaf),
`RootsAreTops` and `TopsAreRoots` (roots have no parent, and a node without a
parent is the root of its height or was dropped by an `IndexError` for lack of
roots), and `KeysAreLeaves` (the dictionary is the leaves). All of this survives
an overflow, which leaves a top behind that is no root, and so `ForestPerfect` and `EveryLeafProvable` ask for roots enough, as
in the code. That the way up from a leaf ends at the root of its height is an
induction over the height: `EveryProofVerifies` follows the fold of the accumulator's
`_prove_inclusion_loop` up the parents.

**Lockstep.** While no operation runs, the server's roots are the accumulator's. In an operation they are ahead: `AddAhead` relates the carry of the
Cairo loop at height *h* to the roots the server has already computed; `ProveAhead`,
the part of the proof that is still to be hashed to the root it must end at; `DeleteAhead`, the
siblings left to the roots that come out (`Spent`). Together they are
`InStep`, one clause per program counter, and `Synced` is that the two are in step
unless something happened that excuses a failure. Unlike the accumulator's own theorems these do not assume `Duplicates = {}`:
a second insert of the same output is one of the excuses, since the server refuses it and the program
ignores the refusal.

**Ledger.** For any amounts, subsidies and halvings, any number of transactions, inputs
and outputs, and runs that fail anywhere. `NoInflation` speaks of the running sums,
which go up and down within a transaction; that a block as a whole creates no more
than `Money!Block` allows needs them apart. `Balance` therefore relates the totals to what
the block has taken of the older outputs (`Spent`) and made so far (`Created`), of which an
output made and spent in the same block is neither; and once the coinbase
begins, what its transactions made (`Paid`) is covered without it. `Names`, that new
outputs are named by the new block, keeps `Created` apart from the old ones. The
balance is an inequality, so that nothing depends on the outputs of a block being
pairwise different. The sums are the folds of the model: `SumExists`, `SumOfPart` and `SumByAny` say
that a sum exists, and changes by a member's weight whichever member is taken out. `RewardIsSubsidy`
shows that the division in `compute_block_reward` is the subsidy of `Money`, halved block by
block.

**Chain proof.** For any number of blocks, any directories and programs, and all
faults. `ProofsVouchForChains` is not inductive: a new proof extends the
list of its parent, so the claim must say which proof that was. `IInv` has
`Variables` (types), `States` (every state file is of the genesis program, also in a
directory that is not used), `Claims` (a proof of height *j* lists exactly the
prefixes of its chain), `Loop` and `StateIsProvenButForLast`. `Loop` is the heart: the
proof file is named by the loop variable, `recurse` looks for it by the height in
the state, and only because the driver never goes on after a failed run do the two
stay together. `RunClaims` derives the claim of a run from that of the parent proof
it found; a lemma per action does the rest.

**Headers chain proof.** For any chains, sizes and numbers of batches, and all
faults. Here loop variable and height do *not* stay together: after
`WriteStateFails` the loop runs ahead of the state. `Places` says by how much,
`Pending` what the state in memory and the batch at hand rest on, and `Rest` that the
proof about to be overwritten (`NamesApart`) is none of those the state in the file rests on; without
it a late proof of another branch could take the place of one. `BatchRests` is
the step from a batch to the next. `StuckForever` needs no invariant: the
case analysis over what each step does to a stuck file is `StuckStays`.

**Mountain range.** `ProofsVouchForHeaders` compares the roots that `mmr_add` has
carried, header by header, with those of the perfect trees over the chain. A proof is
only as good as the parent and the state it was made from, so `Vouching` says it of
every state in the file, in memory, in the trace and in the proofs. The heart is
`OneHeaderMore`: adding the next header to the range of a chain gives the range of the
longer chain. Three things make it up. The roots of a chain are the ones of its length in
binary, and adding one carries through the lowest ones (`OnesBelow`, `CarryOver`,
`NoCarry`, `FirstZero`). The hash of the roots below the first empty place is
the perfect tree that ends at the new header (`Carried`, `CarryIsPerfect`). The folds of the
model are the recursive functions these lemmas need (`FoldExists`, `FoldInOrder`,
`AllAdded`). `BatchRange` does it for a batch. The code never checks that a place is left;
`HeadersChainProofAssumption` says so by the length of chains, below
2^`MMR_ROOTS_LEN`, which the comment at the constant promises (27 roots for a hundred
million headers).

**Headers bridge.** For any chains, any requests and any failures of the Bitcoin
API; `HeadersBridgeAssumption` only says that chains are sequences and requests
natural numbers. `LeavesAreOneChain` is not inductive: the next leaf comes from a
header fetched steps earlier, found through a block hash that may have been cached
by an earlier request. `Calls` says for which height the call in progress is,
`Caches` which entries there can be (`BitcoinCLI` keeps none), and `OneChain` that
call, headers, caches and leaves are all of the best chain unless one was
exchanged under them; a reorganisation before anything was fetched does no harm
(`ReorganiseInv`). `Sizes` adds how much of it there can be: every height that is
cached or called for is one that some chain had when its hash came in, and a request
that has headers has no more than it wants.

`PathsLeadToRoot` and `NullPathIsBehindLastLeaf` hold for any number of leaves. `Tree` is a
recursive function over rows, whose number is the least that has room for the
leaves (`DepthIs`); `RowAbove` follows the width of a row to the next, through the
null node of an odd one, and finds it to be one at the top, and `AllRowsFit`
carries this up. `WayUp` is the way of a position up the rows, halved on each, and
`PathHash` says that the recursive function of `verify_inclusion_proof` computes the nodes on
it. Below the lowest null node each row is twice as wide as the next
(`LeavesBelow`); so the number of leaves is the width of that row times a power of
two, and the null node, the first behind the others, is at the quotient. That no other node
is null is `NoOtherIsNull`. `TreeOfLeaves` relates the state to this: the tree is that of some
list of leaves, which after a reset need not be the server's any more. So the path of the
null node leads to the root at any time, but only while there are leaves is it behind the last of them.

**Chain state.** For chains, epochs and windows of any size. `StateSummarisesChain`
is nearly inductive; `IInv` adds only that an epoch starts at a timestamp, without
which the felt that stands for a negative timespan could be any length
(`TimespanLimits`, from `FieldAssumption`). `ExtendedTimes`, `ExtendedEpoch` and
`AdjustIsRetarget` say what one more header does to window, epoch and target. The
prover's choice is on both sides: the code stores one of the answers the check
admits, the rules allow the same ones (`AllowedBits`), and the headers of the epoch,
whose bits must be the stored ones, tell which it was. `AcceptsByTheRules` says that what is
accepted is allowed, `RefusesOnlyForbidden` that what is allowed is accepted, for each answer. Where
the code has `MAX_BITS` for a target beyond the limit, the rules do too. Of powers
of other bases than two the provers know nothing:
`PowersAssumption` of `Compact` states the four laws used, for the exponents that
occur, and TLC evaluates them on its instances.

**Compact targets.** `HonestHintIsAccepted` is about every target up to the limit,
in any base. A target of *n* digits keeps its three leading ones, or two if the first
would be taken for a sign: it is rounded down to a multiple of its `Unit`, a power of
the base (`CompactForm`, from `LongTarget`, `ShortTarget` and `NoTarget`), and the mask
of the check removes just the digits below (`Cancelled`). What is lost is below one unit, at most two parts in
the square of the base (`UnitIsSmall`, `WhatIsDropped`). What the honest form decodes to has
the same digits as the target, zeros behind them, and is rounded to the same unit; so
it is encoded as the target is (`EncodedAgain`).

An answer that passes need not be the honest one: with base 256, 0x1cffff00 passes for the target of
0x1d00ffff, 0x17c33000 for that of 0x181bc330, and an exponent that is
too great loses low digits, down to a target of zero. What all of them have in common
is that three digits of the target are all they have: none decodes to more than the target
(`AcceptedIsBelow`), and with the honest exponent, unless it is below three, they are the honest bits
(`OnlyExponentIsFree`). This is `NoAnswerEases`. `TargetMovesByFour` applies it to the
retarget: a prover can make the next epoch harder than it should be, never easier by more
than four. That a target does not fall below a quarter holds for the honest answer
only, and is stated so. It, and the range of `current_target` in `TypeOK`, need that
the bits in the state encode a target within the limit, which `TypeInv` adds.

**Median.** `verify_timestamps_median` compares how many timestamps are before,
at and after the claimed one. The proof turns this into "at most half before, at
most half after" (`VerifiedIsMiddle`), from which uniqueness follows by counting
in a window of odd size, and monotonicity by following the counts through the
shift of the window (`MedianAfterShift`), with `validate_timestamp` for the new
entry. It holds for any odd window, not only eleven. That the hint has an answer to
give is `CanBeSorted`, by selection of the least of the rest (`OneMore`); in an
ascending order the middle has at most half before it and after it, so it is verified
(`HintIsVerified`). `MedianHint` therefore says what a sorted list is, and not how it is
sorted.

**Merkle root.** `RowsExist` gives the rows of a tree, one from the other. A row that is
not refused is hashed pair by pair to a shorter one (`RowOfPairs`), so the rows end in
one of one hash (`RootClimbs`). `OneRowBelow` is the heart of it: a row determines
the one below, since a pair of equal hashes at its end can only be a last hash that
was alone – the row that really ends like this is the one that is refused
(CVE-2012-2459). Going down from a common root (`SameRows`), two trees have the same rows
until the lower one is at its leaves; these are leaves of the other as well, since a
txid is not a hash of two others. There is no bound on the number of transactions.
`RootDeterminesList` says it of the lists a block may hold.

**Streams.** For bytes of any number of values, words and streams of any length. That
the bytes come out in order is not inductive: what a step does depends on where in a
word reader and writer stand. `ReaderAt` says it of a reader behind *p* bytes, for
some *k*: *k* bytes are left of a word, `buf` is the number they make and `cur` the
power that is just too big for it (`Remaining`). `WriterAt` says that the full words of
the first *n* bytes are out, and the other bytes in `buf` in the places they will have
in the next word (`Full`). One lemma per operation shows that it goes from one such
place to another, whichever branch it takes: `ReadsOne`, `ReadsTwo`, `ReadsFour`,
`Peeks`, `WritesOne`, `WritesTwo`, `WritesFour`. `WritesTwo` is the one that needs a
condition, that the write does not begin at the last byte of a word; there the code is wrong
(see 6). Below them is arithmetic with numbers of several bytes: how `ValueOf` splits
(`ValueSplit`) and which bytes a mask takes out (`TopDigits`, `TopBytes`). `CopyInv` puts reader
and writer on the same stream; `FlushedBytes` is what `flush_writer` adds. A varint
is a mark and a number or two, with its bytes swapped; the lemmas on reads and writes hold at any
place, so `VarintsSurvive` follows from where the mark ends, and from swapping
twice (`SwappedTwice`). Powers are again an assumption of the module,
`BytePowers`, of exponents up to nine, which TLC evaluates; it is not about the code.

**Benchmarks.** For any blocks, any number of outputs and roots, any cache that was left
behind, and benchmarks that were stopped anywhere. `DummysFitTheBlock` is about the
last step only. `SetupInv` says how the set-up gets there: `OfBest`, that the block and
the outputs at hand are those of the best chain unless it has moved, and
`InBridge`, that what the server holds and what is still to be added are together what
the block spends, unless somebody else used it. `HashesOfInputs` follows the loop of `hash_tx_ins`: it
collects what the block spends and nothing that it creates itself.

**Hash chain.** The fold that defines the chained hash takes the least remaining position
first; `ChainExists` makes a function of it, on sets of positions, and `RestIs` gives its
value on what follows a position. `HashInv` says that the loop has this value at each
offset, and that it returns at the first position only if there was a second. `ChainsDiffer` peels off two arrays from the front until one of them has a single
element, a word, where the other has a hash. An array of one element has no hash:
the code reads in front of it (see 6). `HashChainAssumption` says only that the bound on
lengths is a natural number; no theorem depends on which.

**Only model-checked.** Liveness (`OperationEnds`, `AllBlocksProven`,
`AllBatchesProven`, `CreateServesBestChain`), which is out of the prover's reach
with fairness. `HonestProofAccepted` of `FriVerifier`: that an honest proof passes rests on the algebra of
folding a polynomial over a field (interpolation through roots of unity), which the provers have
no theory of, besides the counts of queries that the run is about.

## 5. Not modelled

* `stark_verifier/` except FRI: the composer and the constraints are straight-line
  arithmetic in a field of 252 bits without state. The order in which the public coin
  is reseeded (`stark_verifier.cairo`) is half of a protocol whose other half, the
  prover, is not in the repository: a model of it could only be compared with itself.
  The drivers take the verifier as sound.
* `crypto/`: pure functions, injective symbols in the model.
* `parser/`, `hints/`, except the folding of positions and the paths of FRI
  queries: conversions between layouts of a proof.
* Of serialization, felts of 31 bytes and reads that are compositions of the modelled
  ones; the parsing of raw transactions and blocks. Of the API, the getters other than
  those of headers: they send the same requests and have one more cache.
* What the Cairo run of a benchmark does, and what it measures.
* Scripts and signatures: the program does not validate them either.
* Logging, command lines, web templates.

## 6. Findings

1. **Epochs are measured from the wrong block** (run `epoch_start`).
   `adjust_difficulty` returns the time of the *last* block of an epoch as the
   start of the next (`block_header.cairo:434`); the unit test and Bitcoin take
   the time of the next block. `HeaderChain!EpochStart` states what the code does.
2. **`--output_dir` other than `tmp` cannot work** (run `output_dir`):
   `recurse.cairo` has the path of the parent proof built in.

Seen while modelling, and part of the models as they are: the bits of a new target are
any that pass the check of `target_to_bits`, although a comment says "In Bitcoin Core this is
the result of GetNextWorkRequired" (`block_header.cairo:107`), which is one value –
a prover that answers otherwise binds the next epoch to a harder target and refuses the
blocks of the real chain (see 4, Compact targets); an epoch that ends
before it began counts as too long and not as too short, since felts have no sign
(`BlockHeader!FeltTimespan`; Bitcoin Core takes a quarter there,
the code four times the target); the driver goes on with the next height after giza failed, and
that run fails; the genesis state may be written before mkdir has made its
directory; `program_hash` is a literal in `state_0.json`; duplicate coinbases
are not refused; a comment at `validate_timestamp` asks for a time strictly greater
than the median (`block_header.cairo:299`), the code for one not less; `hash_chain`
reads before an array of one element, and a comment knows only the empty one
(`utxo_set.cairo:84`); the line above it has the length in the hash, "for the 3-element sequence [x, y, z] the hash is:
h(3, h(x, h(y, z)))" (`utxo_set.cairo:82`), the code has `h(x, h(y, z))`, which `ReturnsTheChain`
states, and `NoTwoArraysCollide` shows to do no harm; `write_varint` writes 253 to 255 as one byte, which
`read_varint` takes for a mark, and `write_uint16_endian` puts the second byte of a
value that begins at the last byte of a word at the wrong end of the next
(`serialize.cairo:456`) – `VarintRoundTrip` and `StreamIsCopied` leave out exactly these
two, and nothing on the path of a proof writes them; a state file or cache that was cut
off ends every later run at `json.load`; the headers driver can never go on once a
proof has failed (`FailedProofIsFinal`); `exit(-1)` in the API takes the headers
bridge node with it, its test for a leaf that exists compares numbers with objects
and is never true, and after a reset it still answers with the old null node.

Outside the models: `BitcoinCLI.get_transaction_by_id` uses the name `tx_id`, its
parameter is `txid`; a benchmark's run looks for a parent proof that nobody has made;
`verify_inclusion_proof` of the headers bridge node has no caller, and
`/merkle_path` no client.

## 7. What is left

Modelled as planned: accumulator, bridge node, prover, headers, median, compact targets,
hash chain, ledger, Merkle root, serialization, chain proof, headers chain proof
with its bridge node and API, FRI queries, benchmarks. Worth adding, in this order:

1. Proofs: that verifier and parser of FRI queries count alike, apart from
   the algebra of `HonestProofAccepted`.
2. `HeadersBridge` composed with `HeadersChainProof`, with the merkle paths, once a
   client of `/merkle_path` exists in the code.
3. The transcript against a prover, if the repository comes to hold one.
4. The parsing of raw blocks and transactions over `Serialize`.
