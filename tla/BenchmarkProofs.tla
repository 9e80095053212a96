--------------------------- MODULE BenchmarkProofs --------------------------
(***************************************************************************)
(* The theorem about the set-up of a benchmark: for any blocks, any other  *)
(* clients of the bridge node, and benchmarks that were stopped anywhere.  *)
(***************************************************************************)
EXTENDS Benchmark, DataLemmas

\* The elements of a queue that grows, ...
LEMMA AppendRange ==
  ASSUME NEW S, NEW s \in Seq(S), NEW x \in S
  PROVE  Range(Append(s, x)) = Range(s) \union {x}
<1>1. /\ Len(s) \in Nat /\ DOMAIN s = 1 .. Len(s) /\ DOMAIN Append(s, x) = 1 .. Len(s) + 1
      /\ \A k \in 1 .. Len(s) + 1 : Append(s, x)[k] = IF k <= Len(s) THEN s[k] ELSE x
  OBVIOUS
<1>2. \A k \in 1 .. Len(s) + 1 : k \in 1 .. Len(s) \/ k = Len(s) + 1
  BY <1>1
<1>3. \A k \in 1 .. Len(s) : k \in 1 .. Len(s) + 1
  BY <1>1
<1>4. Len(s) + 1 \in 1 .. Len(s) + 1
  BY <1>1
<1>5. Range(Append(s, x)) \subseteq Range(s) \union {x}
  BY <1>1, <1>2 DEF Range
<1>6. Range(s) \subseteq Range(Append(s, x)) /\ x \in Range(Append(s, x))
  BY <1>1, <1>3, <1>4 DEF Range
<1> QED
  BY <1>5, <1>6

\* ... and of one that is used up.
LEMMA TailRange ==
  ASSUME NEW S, NEW s \in Seq(S), s # << >>
  PROVE  /\ Head(s) \in S /\ Tail(s) \in Seq(S)
         /\ Range(s) = {Head(s)} \union Range(Tail(s))
<1>1. /\ Len(s) \in Nat /\ Len(s) >= 1 /\ DOMAIN s = 1 .. Len(s) /\ Head(s) = s[1]
      /\ DOMAIN Tail(s) = 1 .. Len(s) - 1 /\ Tail(s) \in Seq(S) /\ Head(s) \in S
      /\ \A k \in 1 .. Len(s) - 1 : Tail(s)[k] = s[k + 1]
  OBVIOUS
<1>2. \A k \in 1 .. Len(s) : k = 1 \/ (k - 1 \in 1 .. Len(s) - 1 /\ (k - 1) + 1 = k)
  BY <1>1
<1>3. 1 \in 1 .. Len(s) /\ \A k \in 1 .. Len(s) - 1 : k + 1 \in 1 .. Len(s)
  BY <1>1
<1>4. Range(s) \subseteq {Head(s)} \union Range(Tail(s))
  <2> SUFFICES ASSUME NEW k \in 1 .. Len(s) PROVE s[k] \in {Head(s)} \union Range(Tail(s))
    BY <1>1 DEF Range
  <2>1. CASE k = 1
    BY <1>1, <2>1
  <2>2. CASE k - 1 \in 1 .. Len(s) - 1 /\ (k - 1) + 1 = k
    <3>1. Tail(s)[k - 1] = s[k]
      BY <1>1, <2>2
    <3>2. Tail(s)[k - 1] \in Range(Tail(s))
      BY <1>1, <2>2 DEF Range
    <3> QED
      BY <3>1, <3>2
  <2> QED
    BY <1>2, <2>1, <2>2
<1>5. Head(s) \in Range(s) /\ Range(Tail(s)) \subseteq Range(s)
  <2>1. Head(s) \in Range(s)
    BY <1>1, <1>3 DEF Range
  <2>2. ASSUME NEW k \in 1 .. Len(s) - 1 PROVE Tail(s)[k] \in Range(s)
    <3>1. Tail(s)[k] = s[k + 1] /\ k + 1 \in DOMAIN s
      BY <1>1, <1>3, <2>2
    <3> QED
      BY <3>1 DEF Range
  <2>3. Range(Tail(s)) \subseteq Range(s)
    BY <1>1, <2>2 DEF Range
  <2> QED
    BY <2>1, <2>3
<1> QED
  BY <1>1, <1>4, <1>5

\* What the block spends of outputs from before it.
Spends(b) == Range(Inputs[b]) \ (Own[b] \union {Coinbase})

\* A round of the loop in hash_tx_ins.
Collect(b, hashes, k) ==
  IF Inputs[b][k] = Coinbase \/ Inputs[b][k] \in Own[b] THEN hashes
  ELSE Append(hashes, Inputs[b][k])
Collected(b) ==
  CHOOSE f : f = [k \in 0 .. Len(Inputs[b]) |-> IF k = 0 THEN << >> ELSE Collect(b, f[k - 1], k)]

\* The loop collects what the block spends, and nothing that it creates itself.
LEMMA HashesOfInputs ==
  ASSUME NEW b \in Block
  PROVE  hash_tx_ins(b) \in Seq(Leaf) /\ Range(hash_tx_ins(b)) = Spends(b)
<1> DEFINE N == Len(Inputs[b])
           S == Seq(Leaf)
           loop == [k \in 1 .. N |-> [s \in S |-> Collect(b, s, k)]]
           f == Collected(b)
<1>1. N \in Nat /\ \A k \in 1 .. N : Inputs[b][k] \in Leaf \union {Coinbase}
  <2>1. Inputs[b] \in Seq(Leaf \union {Coinbase})
    BY BenchmarkAssumption
  <2> QED
    BY <2>1
<1>2. DOMAIN Inputs[b] = 1 .. N
  <2>1. Inputs[b] \in Seq(Leaf \union {Coinbase})
    BY BenchmarkAssumption
  <2> QED
    BY <2>1
<1>3. ASSUME NEW k \in 1 .. N, NEW s \in S PROVE Collect(b, s, k) \in S
  BY <1>1 DEF Collect
<1>4. loop \in [1 .. N -> [S -> S]] /\ << >> \in S
  BY <1>3
<1>5. PICK h \in [0 .. N -> S] : Iterates(h, N, << >>, loop)
  <2> HIDE DEF N, S, loop
  <2> QED
    BY <1>1, <1>4, Iteration
<1>6. h[0] = << >> /\ \A k \in 1 .. N : h[k] = Collect(b, h[k - 1], k)
  <2>1. h[0] = << >> /\ \A k \in 1 .. N : h[k] = loop[k][h[k - 1]]
    BY <1>5 DEF Iterates
  <2>2. \A k \in 1 .. N : k - 1 \in 0 .. N
    BY <1>1
  <2>3. \A k \in 1 .. N : h[k - 1] \in S
    BY <1>5, <2>2
  <2> HIDE DEF S, N
  <2> QED
    BY <2>1, <2>3
<1>7. h = [k \in 0 .. N |-> IF k = 0 THEN << >> ELSE Collect(b, h[k - 1], k)]
  <2>1. \A k \in 0 .. N : k # 0 => k \in 1 .. N
    BY <1>1
  <2> HIDE DEF N, S
  <2>2. h = [k \in 0 .. N |-> h[k]]
    BY <1>5
  <2> QED
    BY <1>6, <2>1, <2>2
<1>8. f = [k \in 0 .. N |-> IF k = 0 THEN << >> ELSE Collect(b, f[k - 1], k)]
  BY <1>7 DEF Collected
<1>9. hash_tx_ins(b) = f[N]
  BY DEF hash_tx_ins, Collected, Collect
<1> HIDE DEF f
<1> DEFINE Kept(k) == {Inputs[b][j] : j \in 1 .. k} \ (Own[b] \union {Coinbase})
           T == {k \in 0 .. N : f[k] \in S /\ Range(f[k]) = Kept(k)}
<1>10. 0 \in T
  <2>1. f[0] = << >>
    BY <1>1, <1>8
  <2>2. Range(<< >>) = {} /\ Kept(0) = {}
    BY DEF Range
  <2> QED
    BY <1>1, <1>4, <2>1, <2>2
<1>11. ASSUME NEW k \in 0 .. N - 1, k \in T PROVE k + 1 \in T
  <2>1. k + 1 \in 1 .. N /\ k + 1 \in 0 .. N /\ (k + 1) - 1 = k /\ k + 1 # 0
    BY <1>1
  <2>2. f[k + 1] = Collect(b, f[k], k + 1) /\ f[k] \in S /\ Range(f[k]) = Kept(k)
    BY <1>8, <1>11, <2>1
  <2>3. {Inputs[b][j] : j \in 1 .. k + 1} = {Inputs[b][j] : j \in 1 .. k} \union {Inputs[b][k + 1]}
    <3>1. \A j \in 1 .. k + 1 : j \in 1 .. k \/ j = k + 1
      BY <1>1
    <3>2. \A j \in 1 .. k : j \in 1 .. k + 1
      BY <1>1
    <3> QED
      BY <2>1, <3>1, <3>2
  <2>4. f[k + 1] \in S
    BY <1>3, <2>1, <2>2
  <2>5. Range(f[k + 1]) = Kept(k + 1)
    <3>1. CASE Inputs[b][k + 1] = Coinbase \/ Inputs[b][k + 1] \in Own[b]
      BY <2>2, <2>3, <3>1 DEF Collect
    <3>2. CASE ~(Inputs[b][k + 1] = Coinbase \/ Inputs[b][k + 1] \in Own[b])
      <4>1. Inputs[b][k + 1] \in Leaf
        BY <1>1, <2>1, <3>2
      <4>2. Range(Append(f[k], Inputs[b][k + 1])) = Range(f[k]) \union {Inputs[b][k + 1]}
        BY <2>2, <4>1, AppendRange
      <4> QED
        BY <2>2, <2>3, <3>2, <4>2 DEF Collect
    <3> QED
      BY <3>1, <3>2
  <2> HIDE DEF S, Kept
  <2> QED
    BY <2>1, <2>4, <2>5
<1>12. 0 .. N \subseteq T
  <2> HIDE DEF T, N
  <2> QED
    BY <1>1, <1>10, <1>11, IntervalInduction
<1>13. N \in T
  <2> HIDE DEF T
  <2> QED
    BY <1>1, <1>12
<1>14. Range(Inputs[b]) = {Inputs[b][j] : j \in 1 .. N}
  BY <1>2 DEF Range
<1> QED
  BY <1>9, <1>13, <1>14 DEF Spends

-----------------------------------------------------------------------------
(* The inductive invariant *)

\* A step and the block it is about; hashes from whatever source are leaves.
Types ==
  /\ best \in Block
  /\ step \in Stopped \union {"fetch", "reset", "dummys", "dump", "add", "write", "run"}
  /\ step \in Stopped \union {"fetch"} => block = NoBlock
  /\ step \notin Stopped \union {"fetch"} => block \in Block
  /\ utxo_hashes \in Seq(Leaf)
  /\ cache.file = "json" => cache.hashes \in Seq(Leaf)
  /\ cache.file \in {"none", "empty", "json"}
  /\ step = "dump" => cache.file = "empty"

\* As long as the chain stayed, block and cache are of the best one.
OfBest ==
  ~moved =>
    /\ block # NoBlock => block = best
    /\ cache.file = "json" => Range(cache.hashes) = Spends(best)
    /\ step = "dump" => Range(utxo_hashes) = Spends(best)

\* What is in the bridge node and what has yet to be added are what the block
\* spends; before that, the node is empty.
InBridge ==
  ~disturbed =>
    /\ step \in {"dummys", "dump"} => leaf_nodes = {}
    /\ step = "add" /\ ~moved => leaf_nodes \union Range(utxo_hashes) = Spends(block)
    /\ step \in {"write", "run"} =>
         roots = root_nodes /\ (~moved => leaf_nodes = Spends(block))

SetupInv == Types /\ OfBest /\ InBridge

\* The invariant implies the property.
LEMMA InvFits == SetupInv => DummysFitTheBlock
<1> SUFFICES ASSUME SetupInv, step = "run", ~disturbed
             PROVE  /\ roots = root_nodes
                    /\ ~moved => /\ block = best
                                 /\ leaf_nodes \intersect Own[block] = {}
                                 /\ Spends(block) \subseteq leaf_nodes
  BY DEF DummysFitTheBlock, Spends
<1>1. roots = root_nodes /\ (~moved => leaf_nodes = Spends(block))
  BY DEF SetupInv, InBridge
<1>2. ~moved => block = best
  BY BenchmarkAssumption DEF SetupInv, Types, OfBest, Stopped
<1>3. Spends(block) \intersect Own[block] = {}
  BY DEF Spends
<1> QED
  BY <1>1, <1>2, <1>3

LEMMA SetupInit == Init => SetupInv
<1> SUFFICES ASSUME Init PROVE SetupInv
  OBVIOUS
<1>1. Types
  BY DEF Init, Types, Stopped, NoFile
<1>2. OfBest
  BY DEF Init, OfBest, NoFile
<1>3. InBridge
  BY DEF Init, InBridge
<1> QED
  BY <1>1, <1>2, <1>3 DEF SetupInv

\* Another process, whose requests the benchmark does not see.
LEMMA OtherClientInv == SetupInv /\ OtherClient => SetupInv'
<1> SUFFICES ASSUME SetupInv, OtherClient PROVE SetupInv'
  OBVIOUS
<1>1. UNCHANGED <<best, cache, step, block, utxo_hashes, roots, moved>> /\ disturbed' = (step \notin Stopped)
  BY DEF OtherClient
<1>2. Types' /\ OfBest'
  BY <1>1 DEF SetupInv, Types, OfBest
<1>3. InBridge'
  BY <1>1 DEF SetupInv, InBridge, Stopped
<1> QED
  BY <1>2, <1>3 DEF SetupInv

LEMMA ReorganiseInv == SetupInv /\ Reorganise => SetupInv'
<1> SUFFICES ASSUME SetupInv, Reorganise PROVE SetupInv'
  OBVIOUS
<1>1. /\ UNCHANGED <<root_nodes, leaf_nodes, cache, step, block, utxo_hashes, roots, disturbed>>
      /\ best' \in Block /\ moved' = (moved \/ block # NoBlock \/ cache # NoFile)
  BY DEF Reorganise, bridgeVars
<1>2. Types'
  BY <1>1 DEF SetupInv, Types
<1>3. OfBest'
  <2>1. ~moved' => ~moved /\ block = NoBlock /\ cache.file = "none"
    <3>1. ~moved' => ~moved /\ block = NoBlock /\ cache = NoFile
      BY <1>1, Zenon
    <3> QED
      BY <3>1 DEF NoFile
  <2>2. block = NoBlock => step # "dump"
    BY BenchmarkAssumption DEF SetupInv, Types, Stopped
  <2> QED
    BY <1>1, <2>1, <2>2 DEF OfBest
<1>4. InBridge'
  BY <1>1 DEF SetupInv, InBridge
<1> QED
  BY <1>2, <1>3, <1>4 DEF SetupInv

\* However a benchmark ends, it leaves nothing but the cache.
LEMMA EndsInv ==
  ASSUME SetupInv, NEW how \in Stopped, Ends(how), UNCHANGED <<bridgeVars, best, cache, moved>>
  PROVE  SetupInv'
<1>1. step' = how /\ block' = NoBlock /\ utxo_hashes' = << >>
  BY DEF Ends
<1>2. Types'
  BY <1>1 DEF SetupInv, Types, Stopped
<1>3. OfBest'
  BY <1>1 DEF SetupInv, OfBest, Stopped
<1>4. InBridge'
  BY <1>1 DEF InBridge, Stopped
<1> QED
  BY <1>2, <1>3, <1>4 DEF SetupInv

LEMMA AddDummyInv == SetupInv /\ AddDummy => SetupInv'
<1> SUFFICES ASSUME SetupInv, AddDummy PROVE SetupInv'
  OBVIOUS
<1> DEFINE x == Head(utxo_hashes)
<1>1. /\ step = "add" /\ utxo_hashes # << >> /\ utxo_hashes' = Tail(utxo_hashes)
      /\ UNCHANGED <<best, cache, step, block, roots, disturbed, moved>>
      /\ Add(x) \/ AddExisting(x)
  BY DEF AddDummy
<1>2. leaf_nodes' = leaf_nodes \union {x}
  BY <1>1 DEF Add, AddExisting, bridgeVars
<1>3. utxo_hashes \in Seq(Leaf)
  BY DEF SetupInv, Types
<1>4. Tail(utxo_hashes) \in Seq(Leaf) /\ Range(utxo_hashes) = {x} \union Range(Tail(utxo_hashes))
  BY <1>1, <1>3, TailRange
<1> HIDE DEF x
<1>5. Types'
  BY <1>1, <1>4 DEF SetupInv, Types
<1>6. OfBest'
  BY <1>1 DEF SetupInv, OfBest
<1>7. InBridge'
  <2>1. leaf_nodes' \union Range(utxo_hashes') = leaf_nodes \union Range(utxo_hashes)
    BY <1>1, <1>2, <1>4
  <2> QED
    BY <1>1, <2>1 DEF SetupInv, InBridge
<1> QED
  BY <1>5, <1>6, <1>7 DEF SetupInv

\* The other steps: where the hashes come from, and what the state is made of.
LEMMA StepInv ==
  ASSUME SetupInv,
         Start \/ fetch_block \/ ResetBridge \/ ReadCache \/ MakeCache \/ DumpCache
         \/ GetRoots \/ WriteState
  PROVE  SetupInv'
<1> USE DEF SetupInv
<1>1. best' = best /\ moved' = moved /\ best \in Block
  BY DEF Types, Start, fetch_block, ResetBridge, ReadCache, MakeCache, DumpCache, GetRoots, WriteState
<1>2. CASE Start
  <2>1. Types' /\ OfBest'
    BY <1>1, <1>2 DEF Start, Types, OfBest, Stopped
  <2>2. InBridge'
    BY <1>2 DEF Start, InBridge
  <2> QED
    BY <2>1, <2>2
<1>3. CASE fetch_block
  <2>1. Types' /\ OfBest'
    BY <1>1, <1>3 DEF fetch_block, Types, OfBest, Stopped
  <2>2. InBridge'
    BY <1>3 DEF fetch_block, InBridge
  <2> QED
    BY <2>1, <2>2
<1>4. CASE ResetBridge
  <2>1. Types' /\ OfBest'
    BY <1>1, <1>4 DEF ResetBridge, Types, OfBest, Stopped
  <2>2. InBridge'
    BY <1>4 DEF ResetBridge, InBridge, Reset
  <2> QED
    BY <2>1, <2>2
<1>5. CASE ReadCache
  <2>1. Types' /\ OfBest'
    BY <1>1, <1>5 DEF ReadCache, Types, OfBest, Stopped
  <2>2. ~moved => block = best /\ Range(cache.hashes) = Spends(best)
    BY <1>5, BenchmarkAssumption DEF ReadCache, Types, OfBest, Stopped
  <2>3. InBridge'
    <3>1. /\ UNCHANGED <<leaf_nodes, root_nodes, block, roots, disturbed>> /\ step = "dummys"
          /\ step' = "add" /\ utxo_hashes' = cache.hashes
      BY <1>5 DEF ReadCache, bridgeVars
    <3> QED
      BY <1>1, <2>2, <3>1 DEF InBridge
  <2> QED
    BY <2>1, <2>3
<1>6. CASE MakeCache
  <2>1. hash_tx_ins(best) \in Seq(Leaf) /\ Range(hash_tx_ins(best)) = Spends(best)
    BY <1>1, HashesOfInputs
  <2>2. Types' /\ OfBest'
    BY <1>1, <1>6, <2>1 DEF MakeCache, Types, OfBest, Stopped, Empty
  <2>3. InBridge'
    BY <1>6 DEF MakeCache, InBridge, bridgeVars
  <2> QED
    BY <2>2, <2>3
<1>7. CASE DumpCache
  <2>1. /\ cache'.file = "json" /\ cache'.hashes = utxo_hashes /\ step = "dump" /\ step' = "add"
        /\ UNCHANGED <<leaf_nodes, root_nodes, block, utxo_hashes, roots, disturbed>>
    BY <1>7 DEF DumpCache, bridgeVars
  <2>2. Types' /\ OfBest'
    BY <1>1, <2>1 DEF Types, OfBest, Stopped
  <2>3. ~moved => block = best
    BY <2>1, BenchmarkAssumption DEF Types, OfBest, Stopped
  <2>4. InBridge'
    BY <1>1, <2>1, <2>3 DEF InBridge, OfBest
  <2> QED
    BY <2>2, <2>4
<1>8. CASE GetRoots
  <2>1. Types' /\ OfBest'
    BY <1>1, <1>8 DEF GetRoots, Types, OfBest, Stopped
  <2>2. Range(<< >>) = {}
    BY DEF Range
  <2>3. InBridge'
    <3>1. /\ UNCHANGED <<leaf_nodes, root_nodes, block, utxo_hashes, disturbed>>
          /\ step = "add" /\ step' = "write" /\ utxo_hashes = << >> /\ roots' = root_nodes
      BY <1>8 DEF GetRoots, bridgeVars
    <3>2. leaf_nodes \union Range(utxo_hashes) = leaf_nodes
      BY <2>2, <3>1
    <3>3. ~disturbed /\ ~moved => leaf_nodes = Spends(block)
      BY <3>1, <3>2 DEF InBridge
    <3> QED
      BY <1>1, <3>1, <3>3 DEF InBridge
  <2> QED
    BY <2>1, <2>3
<1>9. CASE WriteState
  <2>1. Types' /\ OfBest'
    BY <1>1, <1>9 DEF WriteState, Types, OfBest, Stopped
  <2>2. InBridge'
    BY <1>1, <1>9 DEF WriteState, InBridge, bridgeVars
  <2> QED
    BY <2>1, <2>2
<1> QED
  BY <1>2, <1>3, <1>4, <1>5, <1>6, <1>7, <1>8, <1>9

LEMMA SetupNext == SetupInv /\ [Next]_vars => SetupInv'
<1> SUFFICES ASSUME SetupInv, [Next]_vars PROVE SetupInv'
  OBVIOUS
<1>1. CASE End \/ ReadCacheFails
  BY <1>1, EndsInv DEF End, ReadCacheFails, Stopped
<1>2. CASE UNCHANGED vars
  BY <1>2 DEF SetupInv, Types, OfBest, InBridge, vars, bridgeVars, benchmarkVars
<1> QED
  BY <1>1, <1>2, StepInv, AddDummyInv, ReorganiseInv, OtherClientInv DEF Next

\* Whatever was in the bridge node and the cache before, and wherever earlier
\* benchmarks were stopped: the state that a benchmark writes has the roots of the
\* bridge node, and the node's forest has what the block spends and nothing that
\* the block will add itself, for any blocks and any other clients.
THEOREM BenchmarkFits == Spec => []DummysFitTheBlock
<1>1. Spec => []SetupInv
  BY SetupInit, SetupNext, PTL DEF Spec
<1> QED
  BY <1>1, InvFits, PTL
=============================================================================
