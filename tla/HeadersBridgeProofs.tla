------------------------- MODULE HeadersBridgeProofs ------------------------
(***************************************************************************)
(* Theorems about the bridge node of the headers: for any chains, any      *)
(* requests and any failures of the Bitcoin API, which headers its leaves  *)
(* are, and that the paths it hands out lead to its root.                  *)
(***************************************************************************)
EXTENDS HeadersBridge, DataLemmas

Blocks == Seq(Choice) \ {NoBlock}
Steps == {"none", "hash", "header", "returned", "raised", "exited"}
Call == [step : Steps, height : Nat, block : Blocks \union {NoBlock}]
Leaves == {hash_block_header(block) : block \in Blocks}

Variables ==
  /\ best \in Chains
  /\ leaf_nodes \in Seq(Leaves) /\ headers \in Seq(Blocks)
  /\ call \in Call /\ call.height \in Nat /\ wanted \in Nat

\* Only while /create is served there is a call, for the header after those there are.
Calls ==
  /\ pc = "idle" => headers = << >> /\ call.step = "none"
  /\ call.step # "none" => pc = "create" /\ call.height = NextHeight /\ NextHeight < wanted
  /\ call.step \in {"header", "returned"} => call.block \in Blocks

\* The bitcoind behind BitcoinCLI is asked again each time.
Caches ==
  /\ \A h \in DOMAIN hash_cache : hash_cache[h] \in Blocks
  /\ header_cache \subseteq DOMAIN hash_cache
  /\ api \in {"cli", "esplora"}
  /\ pc # "off" /\ api = "cli" => hash_cache = << >>
  /\ call.step = "header" /\ api = "esplora" => call.height \in DOMAIN hash_cache

\* What was fetched is of the best chain.
OneChain ==
  ~mixed /\ pc # "off" =>
    /\ \A i \in DOMAIN leaf_nodes : leaf_nodes[i] = hash_block_header(BlockAt(i - 1))
    /\ \A i \in DOMAIN headers : headers[i] = BlockAt(Len(leaf_nodes) + i - 1)
    /\ call.step \in {"header", "returned"} => call.block = BlockAt(call.height)
    /\ \A h \in DOMAIN hash_cache : hash_cache[h] = BlockAt(h)

IInv == Variables /\ Calls /\ Caches /\ OneChain

-----------------------------------------------------------------------------
\* A header the network has is a block.
LEMMA BlockAtType ==
  ASSUME best \in Chains, NEW height \in Nat, Exists(height)
  PROVE  BlockAt(height) \in Blocks
<1>1. best \in Seq(Choice) /\ Len(best) \in Nat /\ height + 1 \in 0 .. Len(best)
  BY HeadersBridgeAssumption, LenProperties DEF Exists
<1>2. \A m \in 1 .. height + 1 : best[m] \in Choice
  BY <1>1, ElementOfSeq
<1>3. BlockAt(height) \in Seq(Choice) /\ Len(BlockAt(height)) = height + 1
  BY <1>1, <1>2, SubSeqProperties DEF BlockAt
<1> QED
  BY <1>3, EmptySeq DEF Blocks, NoBlock

LEMMA NoCallType == NoCall \in Call
BY DEF NoCall, Call, Steps

LEMMA EmptyDomain == DOMAIN << >> = {}
OBVIOUS

LEMMA SameChain ==
  ASSUME UNCHANGED best
  PROVE  \A h : BlockAt(h)' = BlockAt(h)
BY DEF BlockAt

LEMMA NextHeightType ==
  ASSUME IInv
  PROVE  NextHeight \in Nat
BY LenProperties DEF IInv, Variables, NextHeight

-----------------------------------------------------------------------------
LEMMA InitInv == Init => IInv
<1> SUFFICES ASSUME Init PROVE IInv
  OBVIOUS
<1>1. /\ best \in Chains /\ pc = "off" /\ mixed = FALSE /\ api = "cli" /\ wanted = 0
      /\ leaf_nodes = << >> /\ headers = << >>
      /\ hash_cache = << >> /\ header_cache = {}
      /\ call \in Call /\ call.step = "none" /\ call.height = 0
  BY NoCallType DEF Init, ApiInit, BridgeInit, NoCall
<1>2. Variables
  <2>1. leaf_nodes \in Seq(Leaves) /\ headers \in Seq(Blocks)
    <3>1. << >> \in Seq(Leaves) /\ << >> \in Seq(Blocks)
      BY EmptySeq
    <3> QED
      BY <1>1, <3>1
  <2> QED
    BY <1>1, <2>1 DEF Variables
<1>3. Calls /\ Caches /\ OneChain
  BY <1>1, EmptyDomain DEF Calls, Caches, OneChain
<1> QED
  BY <1>2, <1>3 DEF IInv

LEMMA StartServerInv ==
  ASSUME IInv, StartServer
  PROVE  IInv'
<1>1. call' \in Call /\ call'.step = "none" /\ call'.height = 0
  BY NoCallType DEF StartServer, make_BTCAPI, NoCall
<1> QED
  BY <1>1, EmptySeq, EmptyDomain
     DEF StartServer, make_BTCAPI, IInv, Variables, Calls, Caches, OneChain

\* Steps that give up the call and the headers of a request.
LEMMA DropsInv ==
  ASSUME IInv, pc # "off", pc' \in {"off", "idle"}, headers' = << >>, call' = NoCall,
         UNCHANGED <<best, api, hash_cache, header_cache, wanted, leaf_nodes, mixed>>
  PROVE  IInv'
<1>1. \A h : BlockAt(h)' = BlockAt(h)
  BY SameChain
<1>2. call' \in Call /\ call'.step = "none" /\ call'.height = 0
  BY NoCallType DEF NoCall
<1> QED
  BY <1>1, <1>2, EmptySeq, EmptyDomain DEF IInv, Variables, Calls, Caches, OneChain

\* Steps that change neither what was fetched nor how.
LEMMA SameInv ==
  ASSUME IInv, UNCHANGED <<best, api, hash_cache, header_cache, call, headers, leaf_nodes, mixed>>,
         (pc' = pc /\ wanted' = wanted) \/ (pc = "idle" /\ pc' = "create" /\ wanted' \in Nat)
  PROVE  IInv'
<1>1. \A h : BlockAt(h)' = BlockAt(h)
  BY SameChain
<1> QED
  BY <1>1 DEF IInv, Variables, Calls, Caches, OneChain, NextHeight

LEMMA ResetInv ==
  ASSUME IInv, Reset
  PROVE  IInv'
<1>1. \A h : BlockAt(h)' = BlockAt(h)
  BY SameChain DEF Reset, apiVars
<1>2. /\ pc = "idle" /\ pc' = "idle" /\ leaf_nodes' = << >> /\ mixed' = (mixed /\ api = "esplora")
      /\ UNCHANGED <<best, api, hash_cache, header_cache, call, wanted, headers>>
  BY DEF Reset, apiVars
<1>3. Variables' /\ Calls' /\ Caches'
  BY <1>2, EmptySeq DEF IInv, Variables, Calls, Caches
<1>4. OneChain'
  BY <1>1, <1>2, EmptyDomain DEF IInv, Calls, Caches, OneChain
<1> QED
  BY <1>3, <1>4 DEF IInv

LEMMA FetchHeaderInv ==
  ASSUME IInv, FetchHeader
  PROVE  IInv'
<1>1. /\ UNCHANGED <<best, api, hash_cache, header_cache, pc, wanted, headers, leaf_nodes, mixed>>
      /\ pc = "create" /\ call'.height = NextHeight /\ NextHeight < wanted
      /\ \/ call'.step \in {"hash", "raised"}
         \/ call'.step \in {"header", "returned"} /\ NextHeight \in DOMAIN hash_cache
            /\ call'.block = hash_cache[NextHeight]
  BY DEF FetchHeader, get_block_header, StartCli, StartEsplora, bridgeVars, IInv, Caches
<1>2. \A h : BlockAt(h)' = BlockAt(h)
  BY <1>1, SameChain
<1>3. NextHeight \in Nat /\ NextHeight' = NextHeight
  BY <1>1, NextHeightType DEF NextHeight
<1>4. call' \in Call
  BY <1>3 DEF FetchHeader, get_block_header, StartCli, StartEsplora, IInv, Caches, Call, Steps
<1>5. Variables' /\ Calls' /\ Caches'
  BY <1>1, <1>3, <1>4 DEF IInv, Variables, Calls, Caches
<1>6. OneChain'
  BY <1>1, <1>2 DEF IInv, OneChain
<1> QED
  BY <1>5, <1>6 DEF IInv

LEMMA AppendHeaderInv ==
  ASSUME IInv, AppendHeader
  PROVE  IInv'
<1>1. /\ UNCHANGED <<best, api, hash_cache, header_cache, pc, wanted, leaf_nodes, mixed>>
      /\ pc = "create" /\ call.step = "returned"
      /\ headers' = Append(headers, call.block) /\ call' \in Call /\ call'.step = "none" /\ call'.height = 0
  BY NoCallType DEF AppendHeader, bridgeVars, NoCall, IInv, Calls
<1>2. \A h : BlockAt(h)' = BlockAt(h)
  BY <1>1, SameChain
<1>3. call.block \in Blocks /\ headers \in Seq(Blocks) /\ call.height = NextHeight
  BY <1>1 DEF IInv, Variables, Calls
<1>4. Variables' /\ Calls' /\ Caches'
  BY <1>1, <1>3, AppendProperties DEF IInv, Variables, Calls, Caches
<1>5. OneChain'
  <2> SUFFICES ASSUME ~mixed' PROVE OneChain'
    BY DEF OneChain
  <2>1. call.block = BlockAt(Len(leaf_nodes) + Len(headers))
    BY <1>1, <1>3 DEF IInv, OneChain, NextHeight
  <2>2. \A i \in DOMAIN headers' : headers'[i] = BlockAt(Len(leaf_nodes) + i - 1)
    <3> TAKE i \in DOMAIN headers'
    <3>1. Len(headers) \in Nat /\ Len(leaf_nodes) \in Nat /\ DOMAIN headers' = 1 .. Len(headers) + 1
          /\ DOMAIN headers = 1 .. Len(headers)
      BY <1>1, <1>3, AppendProperties, LenProperties DEF IInv, Variables
    <3>2. CASE i = Len(headers) + 1
      <4>1. headers'[i] = call.block
        BY <1>1, <1>3, <3>2, AppendProperties
      <4>2. Len(leaf_nodes) + Len(headers) = Len(leaf_nodes) + i - 1
        BY <3>1, <3>2
      <4> QED
        BY <4>1, <4>2, <2>1
    <3>3. CASE i # Len(headers) + 1
      <4>1. i \in DOMAIN headers /\ headers'[i] = headers[i]
        BY <1>1, <1>3, <3>1, <3>3, AppendProperties
      <4> QED
        BY <4>1, <1>1 DEF IInv, OneChain
    <3> QED
      BY <3>2, <3>3
  <2> QED
    BY <1>1, <1>2, <2>2 DEF IInv, OneChain
<1> QED
  BY <1>4, <1>5 DEF IInv

\* The headers become leaves behind those there are.
LEMMA BuildTreeInv ==
  ASSUME IInv, BuildTree
  PROVE  IInv'
<1> DEFINE hashes == [i \in DOMAIN headers |-> hash_block_header(headers[i])]
<1>1. /\ UNCHANGED <<best, api, hash_cache, header_cache, call, wanted, mixed>>
      /\ pc = "create" /\ pc' = "idle" /\ headers' = << >>
      /\ leaf_nodes' = leaf_nodes \o hashes
  BY DEF BuildTree, apiVars
<1>2. \A h : BlockAt(h)' = BlockAt(h)
  BY <1>1, SameChain
<1>3. /\ headers \in Seq(Blocks) /\ leaf_nodes \in Seq(Leaves)
      /\ Len(headers) \in Nat /\ Len(leaf_nodes) \in Nat
      /\ DOMAIN headers = 1 .. Len(headers) /\ DOMAIN leaf_nodes = 1 .. Len(leaf_nodes)
  BY LenProperties DEF IInv, Variables
<1>4. hashes \in Seq(Leaves) /\ Len(hashes) = Len(headers)
  <2>1. hashes \in [1 .. Len(headers) -> Leaves]
    BY <1>3, ElementOfSeq DEF Leaves
  <2> QED
    BY <2>1, <1>3, SeqDef, LenProperties
<1> HIDE DEF hashes
<1>5. call.step = "none"
  <2>1. NextHeight >= wanted /\ NextHeight \in Nat
    BY NextHeightType DEF BuildTree
  <2> QED
    BY <2>1 DEF IInv, Variables, Calls
<1>6. Variables' /\ Calls' /\ Caches'
  BY <1>1, <1>3, <1>4, <1>5, EmptySeq, ConcatProperties DEF IInv, Variables, Calls, Caches
<1>7. OneChain'
  <2> SUFFICES ASSUME ~mixed' PROVE OneChain'
    BY DEF OneChain
  <2>1. \A i \in DOMAIN leaf_nodes' : leaf_nodes'[i] = hash_block_header(BlockAt(i - 1))
    <3> TAKE i \in DOMAIN leaf_nodes'
    <3>1. i \in 1 .. Len(leaf_nodes) + Len(headers)
      BY <1>1, <1>3, <1>4, ConcatProperties, LenProperties
    <3>2. CASE i <= Len(leaf_nodes)
      <4>1. i \in DOMAIN leaf_nodes /\ leaf_nodes'[i] = leaf_nodes[i]
        BY <1>1, <1>3, <1>4, <3>1, <3>2, ConcatProperties
      <4> QED
        BY <4>1, <1>1 DEF IInv, OneChain
    <3>3. CASE i > Len(leaf_nodes)
      <4> DEFINE k == i - Len(leaf_nodes)
      <4>1. k \in DOMAIN headers /\ leaf_nodes'[i] = hashes[k]
        BY <1>1, <1>3, <1>4, <3>1, <3>3, ConcatProperties
      <4>2. leaf_nodes'[i] = hash_block_header(headers[k])
        BY <4>1 DEF hashes
      <4>3. headers[k] = BlockAt(Len(leaf_nodes) + k - 1)
        BY <4>1, <1>1 DEF IInv, OneChain
      <4>4. Len(leaf_nodes) + k - 1 = i - 1
        BY <1>3, <3>1
      <4> QED
        BY <4>2, <4>3, <4>4
    <3> QED
      BY <1>3, <3>1, <3>2, <3>3
  <2> QED
    BY <1>1, <1>2, <1>5, <2>1, EmptyDomain DEF IInv, OneChain
<1> QED
  BY <1>6, <1>7 DEF IInv

LEMMA ReceiveHashInv ==
  ASSUME IInv, ReceiveHash, UNCHANGED <<pc, wanted, headers, bridgeVars, mixed>>
  PROVE  IInv'
<1>1. /\ UNCHANGED <<best, api, header_cache, pc, wanted, headers, leaf_nodes, mixed>>
      /\ call.step = "hash" /\ Exists(call.height)
      /\ call'.step = "header" /\ call'.height = call.height /\ call'.block = BlockAt(call.height)
  BY DEF ReceiveHash, bridgeVars, IInv, Variables, Call
<1>2. \A h : BlockAt(h)' = BlockAt(h)
  BY <1>1, SameChain
<1>3. call.height \in Nat /\ BlockAt(call.height) \in Blocks
  BY <1>1, BlockAtType DEF IInv, Variables
<1>4. \A h \in DOMAIN hash_cache' :
        \/ h \in DOMAIN hash_cache /\ hash_cache'[h] = hash_cache[h]
        \/ hash_cache'[h] = BlockAt(h) /\ BlockAt(h) \in Blocks
  BY <1>3 DEF ReceiveHash
<1>5. /\ DOMAIN hash_cache \subseteq DOMAIN hash_cache'
      /\ IF api = "cli" THEN hash_cache' = hash_cache ELSE call.height \in DOMAIN hash_cache'
  BY DEF ReceiveHash
<1>6. call' \in Call
  BY <1>1, <1>3 DEF ReceiveHash, IInv, Variables, Call, Steps
<1>7. Variables' /\ Calls'
  BY <1>1, <1>3, <1>6 DEF IInv, Variables, Calls, NextHeight
<1>8. Caches'
  BY <1>1, <1>4, <1>5 DEF IInv, Caches
<1>9. OneChain'
  BY <1>1, <1>2, <1>4 DEF IInv, OneChain
<1> QED
  BY <1>7, <1>8, <1>9 DEF IInv

LEMMA ReceiveHeaderInv ==
  ASSUME IInv, ReceiveHeader, UNCHANGED <<pc, wanted, headers, bridgeVars, mixed>>
  PROVE  IInv'
<1>1. /\ UNCHANGED <<best, api, hash_cache, pc, wanted, headers, leaf_nodes, mixed>>
      /\ call.step = "header" /\ call'.step = "returned"
      /\ call'.height = call.height /\ call'.block = call.block
  BY DEF ReceiveHeader, bridgeVars, IInv, Variables, Call
<1>2. \A h : BlockAt(h)' = BlockAt(h)
  BY <1>1, SameChain
<1>3. call' \in Call
  BY DEF ReceiveHeader, IInv, Variables, Call, Steps
<1>4. Variables' /\ Calls'
  BY <1>1, <1>3 DEF IInv, Variables, Calls, NextHeight
<1>5. Caches'
  <2>1. header_cache' \subseteq DOMAIN hash_cache
    BY <1>1 DEF ReceiveHeader, IInv, Caches
  <2> QED
    BY <1>1, <2>1 DEF IInv, Caches
<1>6. OneChain'
  BY <1>1, <1>2 DEF IInv, OneChain
<1> QED
  BY <1>4, <1>5, <1>6 DEF IInv

\* A request of the API that fails.
LEMMA RequestFailsInv ==
  ASSUME IInv, ErrorAnswer \/ Timeout \/ Unreachable \/ BadStatus,
         UNCHANGED <<pc, wanted, headers, bridgeVars, mixed>>
  PROVE  IInv'
<1>1. /\ UNCHANGED <<best, api, hash_cache, header_cache, pc, wanted, headers, leaf_nodes, mixed>>
      /\ call.step \in {"hash", "header"} /\ call'.step \in {"raised", "exited"}
      /\ call'.height = call.height
  BY DEF ErrorAnswer, Timeout, Unreachable, BadStatus, Asking, bridgeVars, IInv, Variables, Call
<1>2. \A h : BlockAt(h)' = BlockAt(h)
  BY <1>1, SameChain
<1>3. call' \in Call
  BY DEF ErrorAnswer, Timeout, Unreachable, BadStatus, IInv, Variables, Call, Steps
<1> QED
  BY <1>1, <1>2, <1>3 DEF IInv, Variables, Calls, Caches, OneChain, NextHeight

\* A new chain makes no difference to a server that has fetched nothing.
LEMMA ReorganiseInv ==
  ASSUME IInv, Reorganise, mixed' = (mixed \/ Fetched), UNCHANGED <<pc, wanted, headers, bridgeVars>>
  PROVE  IInv'
<1>1. /\ UNCHANGED <<api, hash_cache, header_cache, call, pc, wanted, headers, leaf_nodes>>
      /\ best' \in Chains
  BY DEF Reorganise, bridgeVars
<1>2. Variables' /\ Calls' /\ Caches'
  BY <1>1 DEF IInv, Variables, Calls, Caches, NextHeight
<1>3. OneChain'
  <2> SUFFICES ASSUME ~mixed' PROVE OneChain'
    BY DEF OneChain
  <2>1. leaf_nodes = << >> /\ headers = << >> /\ call.block = NoBlock /\ hash_cache = << >>
    BY DEF Fetched
  <2>2. call.step \notin {"header", "returned"}
    BY <2>1 DEF IInv, Calls, Blocks
  <2> QED
    BY <1>1, <2>1, <2>2, EmptyDomain DEF OneChain
<1> QED
  BY <1>2, <1>3 DEF IInv

LEMMA NextInv ==
  ASSUME IInv, [Next]_vars
  PROVE  IInv'
<1>1. CASE StartServer
  BY <1>1, StartServerInv
<1>2. CASE StopServer \/ CreateFails \/ ServerExits
  <2>1. /\ pc # "off" /\ pc' \in {"off", "idle"} /\ headers' = << >> /\ call' = NoCall
        /\ UNCHANGED <<best, api, hash_cache, header_cache, wanted, leaf_nodes, mixed>>
    BY <1>2 DEF StopServer, CreateFails, ServerExits, bridgeVars, IInv, Calls
  <2> QED
    BY <2>1, DropsInv
<1>3. CASE \E height \in Wanted : Create(height)
  <2>1. /\ UNCHANGED <<best, api, hash_cache, header_cache, call, headers, leaf_nodes, mixed>>
        /\ pc = "idle" /\ pc' = "create" /\ wanted' \in Nat
    BY <1>3, HeadersBridgeAssumption DEF Create, apiVars, bridgeVars
  <2> QED
    BY <2>1, SameInv
<1>4. CASE Reset
  BY <1>4, ResetInv
<1>5. CASE FetchHeader
  BY <1>5, FetchHeaderInv
<1>6. CASE AppendHeader
  BY <1>6, AppendHeaderInv
<1>7. CASE BuildTree
  BY <1>7, BuildTreeInv
<1>8. CASE Awaits
  BY <1>8, ReceiveHashInv, ReceiveHeaderInv, RequestFailsInv DEF Awaits, ApiStep
<1>9. CASE Network
  <2>1. CASE Reorganise
    <3>1. mixed' = (mixed \/ Fetched) /\ UNCHANGED <<pc, wanted, headers, bridgeVars>>
      BY <1>9, <2>1 DEF Network, Reorganise, NodeChanges, CalmDown
    <3> QED
      BY <2>1, <3>1, ReorganiseInv
  <2>2. CASE ~Reorganise
    <3>1. /\ UNCHANGED <<best, api, hash_cache, header_cache, call, headers, leaf_nodes, mixed>>
          /\ UNCHANGED <<pc, wanted>>
      BY <1>9, <2>2 DEF Network, NodeChanges, CalmDown, bridgeVars
    <3> QED
      BY <3>1, SameInv
  <2> QED
    BY <2>1, <2>2
<1>10. CASE UNCHANGED vars
  BY <1>10, SameInv DEF vars, apiVars, bridgeVars
<1> QED
  BY <1>1, <1>2, <1>3, <1>4, <1>5, <1>6, <1>7, <1>8, <1>9, <1>10 DEF Next

\* Whatever is requested, fails, is cached or reorganised: what the server has, in
\* its leaves, in the request it serves and in its caches, fits together.
THEOREM BridgeInvariant == Spec => []IInv
<1> QED
  BY InitInv, NextInv, PTL DEF Spec

\* The leaves are the first headers of one chain, in order and each once, unless the
\* chain has changed.
THEOREM LeavesAreTheChain == Spec => []LeavesAreOneChain
<1>1. IInv => LeavesAreOneChain
  BY DEF IInv, OneChain, LeavesAreOneChain
<1> QED
  BY <1>1, BridgeInvariant, PTL
-----------------------------------------------------------------------------
(* The rows of a tree *)

\* The number of rows is the least that will do.
LEMMA DepthIs ==
  ASSUME NEW n \in Nat
  PROVE  /\ Depth(n) \in 1 .. n + 1
         /\ 2^(Depth(n) - 1) >= n
         /\ Depth(n) > 1 => 2^(Depth(n) - 2) < n
<1> DEFINE S == {d \in 1 .. n + 1 : 2^(d - 1) >= n}
           Fits(d) == 2^(d - 1) >= n /\ (d > 1 => 2^(d - 2) < n)
<1>1. S \in SUBSET Nat /\ S # {}
  <2>1. n + 1 \in 1 .. n + 1 /\ (n + 1) - 1 = n
    OBVIOUS
  <2>2. 2^n >= n
    <3>1. 2^n \in Nat /\ n < 2^n
      BY BelowPower, PowersOfTwo
    <3> QED
      BY <3>1
  <2>3. n + 1 \in S
    BY <2>1, <2>2
  <2>4. \A d \in S : d \in Nat
    OBVIOUS
  <2> HIDE DEF S
  <2> QED
    BY <2>3, <2>4
<1>2. PICK d \in S : \A e \in S : d <= e
  <2> HIDE DEF S
  <2> QED
    BY <1>1, LeastNumber
<1>3. d \in 1 .. n + 1 /\ 2^(d - 1) >= n
  OBVIOUS
<1>4. d > 1 => 2^(d - 2) < n
  <2> SUFFICES ASSUME d > 1 PROVE 2^(d - 2) < n
    OBVIOUS
  <2>1. d - 1 \in 1 .. n + 1 /\ (d - 1) - 1 = d - 2 /\ ~(d <= d - 1) /\ d - 2 \in Nat
    BY <1>3
  <2>2. ~(2^(d - 2) >= n)
    BY <1>2, <2>1
  <2> QED
    BY <2>1, <2>2, PowersOfTwo
<1>5. Depth(n) = CHOOSE e \in 1 .. n + 1 : Fits(e)
  BY DEF Depth
<1>6. Depth(n) \in 1 .. n + 1 /\ Fits(Depth(n))
  <2>1. Fits(d)
    BY <1>3, <1>4
  <2> HIDE DEF Fits
  <2> QED
    BY <1>3, <1>5, <2>1
<1> QED
  BY <1>6

\* A row before its null node.
Raw(leaves, k) == IF k = 1 THEN leaves ELSE PairUp(Tree(leaves)[k - 1])

\* The recursive function of build_tree, row by row.
LEMMA TreeRows ==
  ASSUME NEW leaves, Len(leaves) \in Nat
  PROVE  Tree(leaves) = [k \in 1 .. Depth(Len(leaves)) |-> Padded(Raw(leaves, k))]
<1> DEFINE D == Depth(Len(leaves))
           Rows(f, m) == f = [k \in 1 .. m |-> IF k = 1 THEN Padded(leaves)
                                               ELSE Padded(PairUp(f[k - 1]))]
           T == {m \in 0 .. D : \E f : Rows(f, m)}
<1>1. D \in Nat
  BY DepthIs
<1> HIDE DEF D
<1>2. 0 \in T
  <2>1. Rows([k \in 1 .. 0 |-> 0], 0)
    OBVIOUS
  <2> HIDE DEF Rows
  <2> QED
    BY <1>1, <2>1
<1>3. ASSUME NEW m \in 0 .. D - 1, m \in T PROVE m + 1 \in T
  <2>1. PICK f : Rows(f, m)
    BY <1>3
  <2> DEFINE g == [k \in 1 .. m + 1 |-> IF k = m + 1
                     THEN (IF k = 1 THEN Padded(leaves) ELSE Padded(PairUp(f[m])))
                     ELSE f[k]]
  <2>2. ASSUME NEW k \in 1 .. m + 1
        PROVE  g[k] = IF k = 1 THEN Padded(leaves) ELSE Padded(PairUp(g[k - 1]))
    <3>1. CASE k = m + 1
      <4>1. k # 1 => g[k - 1] = f[m]
        BY <3>1
      <4> QED
        BY <3>1, <4>1
    <3>2. CASE k # m + 1
      <4>1. k \in 1 .. m /\ g[k] = f[k]
        BY <3>2
      <4>2. k # 1 => g[k - 1] = f[k - 1]
        BY <4>1
      <4>3. f[k] = IF k = 1 THEN Padded(leaves) ELSE Padded(PairUp(f[k - 1]))
        BY <2>1, <4>1
      <4> HIDE DEF g
      <4> QED
        BY <4>1, <4>2, <4>3
    <3> QED
      BY <3>1, <3>2
  <2>3. Rows(g, m + 1)
    <3>1. g = [k \in 1 .. m + 1 |-> g[k]]
      OBVIOUS
    <3> HIDE DEF g
    <3> QED
      BY <2>2, <3>1
  <2> HIDE DEF Rows, g
  <2>4. m + 1 \in 0 .. D
    BY <1>1
  <2> QED
    BY <2>3, <2>4
<1>4. D \in T
  <2>1. 0 .. D \subseteq T
    <3> HIDE DEF T
    <3> QED
      BY <1>1, <1>2, <1>3, IntervalInduction
  <2> QED
    BY <1>1, <2>1
<1>5. Tree(leaves) = CHOOSE f : Rows(f, D)
  BY DEF Tree, D
<1>6. Rows(Tree(leaves), D)
  <2> HIDE DEF Rows
  <2> QED
    BY <1>4, <1>5
<1>7. \A k \in 1 .. D : Raw(leaves, k) = IF k = 1 THEN leaves ELSE PairUp(Tree(leaves)[k - 1])
  BY DEF Raw
<1>8. \A k \in 1 .. D : Tree(leaves)[k] = Padded(Raw(leaves, k))
  BY <1>6, <1>7
<1>9. Tree(leaves) = [k \in 1 .. D |-> Tree(leaves)[k]]
  BY <1>6
<1> QED
  BY <1>8, <1>9 DEF D

\* The null node goes behind an odd number of others.
LEMMA PaddedIs ==
  ASSUME NEW w \in Nat, NEW row, row = [i \in 1 .. w |-> row[i]]
  PROVE  LET p == IF w > 1 /\ w % 2 = 1 THEN w + 1 ELSE w IN
         /\ Padded(row) = [i \in 1 .. p |-> IF i <= w THEN row[i] ELSE NullHash]
         /\ Len(row) = w /\ Len(Padded(row)) = p
<1> DEFINE p == IF w > 1 /\ w % 2 = 1 THEN w + 1 ELSE w
           S == {row[i] : i \in 1 .. w} \union {NullHash}
<1>1. Len(row) = w /\ row \in Seq(S)
  <2>1. row \in [1 .. w -> S]
    OBVIOUS
  <2> HIDE DEF S
  <2> QED
    BY <2>1, SeqDef, ListOf
<1>2. NullHash \in S
  OBVIOUS
<1> HIDE DEF S
<1>3. Padded(row) = [i \in 1 .. p |-> IF i <= w THEN row[i] ELSE NullHash]
  <2>1. CASE w > 1 /\ w % 2 = 1
    <3>1. Padded(row) = Append(row, NullHash) /\ p = w + 1
      BY <1>1, <2>1 DEF Padded
    <3>2. /\ Append(row, NullHash) \in Seq(S) /\ Len(Append(row, NullHash)) = w + 1
          /\ \A i \in 1 .. w : Append(row, NullHash)[i] = row[i]
          /\ Append(row, NullHash)[w + 1] = NullHash
      BY <1>1, <1>2, AppendProperties
    <3>3. Append(row, NullHash) = [i \in 1 .. w + 1 |-> Append(row, NullHash)[i]]
      BY <3>2, SeqDef, LenProperties
    <3>4. \A i \in 1 .. w + 1 : Append(row, NullHash)[i] = IF i <= w THEN row[i] ELSE NullHash
      BY <3>2
    <3> QED
      BY <3>1, <3>3, <3>4
  <2>2. CASE ~(w > 1 /\ w % 2 = 1)
    <3>1. Padded(row) = row /\ p = w
      BY <1>1, <2>2 DEF Padded
    <3> QED
      BY <3>1
  <2> QED
    BY <2>1, <2>2
<1>4. Len(Padded(row)) = p
  <2>1. p \in Nat
    OBVIOUS
  <2>2. Padded(row) = [i \in 1 .. p |-> Padded(row)[i]]
    BY <1>3
  <2> HIDE DEF p
  <2> QED
    BY <2>1, <2>2, ListOf
<1> QED
  BY <1>1, <1>3, <1>4

\* How wide the rows are: the one k rows up has room under the root.
Fits(leaves, k) ==
  LET D == Depth(Len(leaves))
      row == Raw(leaves, k)
      w == Len(row)
  IN  /\ w \in Nat /\ w >= 1 /\ row = [i \in 1 .. w |-> row[i]]
      /\ w <= 2^(D - k)
      /\ k < D => 2^(D - k - 1) < w

\* A row with its null node.
Pads(raw, row) ==
  LET w == Len(raw)
      p == IF w > 1 /\ w % 2 = 1 THEN w + 1 ELSE w
  IN  /\ w \in Nat \ {0} /\ raw = [i \in 1 .. w |-> raw[i]]
      /\ Len(row) = p /\ row = [i \in 1 .. p |-> IF i <= w THEN raw[i] ELSE NullHash]

\* A row and the one above it, before its null node.
Pairs(row, above) ==
  LET p == Len(row) IN
  /\ p \in Nat /\ p % 2 = 0 /\ p >= 2
  /\ Len(above) = p \div 2
  /\ above = [i \in 1 .. p \div 2 |-> pedersen_hash(row[2 * i - 1], row[2 * i])]

\* A row and the one above it: their numbers of nodes, and whose children these are.
LEMMA RowAbove ==
  ASSUME NEW leaves, Len(leaves) \in Nat, NEW D, D = Depth(Len(leaves)),
         NEW k \in 1 .. D - 1, Fits(leaves, k)
  PROVE  /\ Pairs(Tree(leaves)[k], Raw(leaves, k + 1)) /\ Len(Tree(leaves)[k]) <= 2^(D - k)
         /\ Fits(leaves, k + 1)
<1> DEFINE raw == Raw(leaves, k)
           w == Len(raw)
           row == Tree(leaves)[k]
           p == Len(row)
           above == Raw(leaves, k + 1)
<1>2. D \in Nat /\ k \in Nat /\ k < D
  <2>1. D \in 1 .. Len(leaves) + 1
    BY DepthIs
  <2> QED
    BY <2>1
<1>1. /\ w \in Nat /\ w >= 1 /\ raw = [i \in 1 .. w |-> raw[i]]
      /\ w <= 2^(D - k) /\ 2^(D - k - 1) < w
  BY <1>2 DEF Fits
<1>3. row = Padded(raw)
  <2>1. k \in 1 .. D
    BY <1>2
  <2> HIDE DEF raw
  <2> QED
    BY <2>1, TreeRows DEF raw
<1>4. p = IF w > 1 /\ w % 2 = 1 THEN w + 1 ELSE w
  <2> HIDE DEF raw, w, row
  <2> QED
    BY <1>1, <1>3, PaddedIs DEF w
<1>5. above = PairUp(row)
  <2>1. k + 1 # 1 /\ (k + 1) - 1 = k
    BY <1>2
  <2> QED
    BY <2>1 DEF Raw
<1> HIDE DEF raw, w, row, p, above
<1> DEFINE e == 2^(D - k - 1)
<1>6. e \in Nat \ {0} /\ 2^(D - k) = 2 * e
  <2>1. D - k - 1 \in Nat /\ (D - k - 1) + 1 = D - k
    BY <1>2
  <2> QED
    BY <2>1, PowersOfTwo
<1>7. /\ p \in Nat /\ p % 2 = 0 /\ p >= 2 /\ p <= 2 * e /\ e < p
  <2> HIDE DEF e
  <2> QED
    BY <1>1, <1>4, <1>6 DEF e
<1>8. above = [i \in 1 .. p \div 2 |-> pedersen_hash(row[2 * i - 1], row[2 * i])]
  BY <1>5 DEF PairUp, p
<1>9. p \div 2 \in Nat /\ p \div 2 >= 1 /\ p \div 2 <= e /\ e < 2 * (p \div 2)
  <2> HIDE DEF e
  <2> QED
    BY <1>6, <1>7
<1>10. above = [i \in 1 .. p \div 2 |-> above[i]]
  BY <1>8
<1>11. Len(above) = p \div 2
  BY <1>9, <1>10, ListOf
<1>12. D - (k + 1) = D - k - 1 /\ D - (k + 1) - 1 = D - k - 2
  BY <1>2
<1>13. k + 1 < D => 2^(D - (k + 1) - 1) < Len(above)
  <2> SUFFICES ASSUME k + 1 < D PROVE 2^(D - k - 2) < p \div 2
    BY <1>11, <1>12
  <2>1. D - k - 2 \in Nat /\ (D - k - 2) + 1 = D - k - 1
    BY <1>2
  <2>2. e = 2 * 2^(D - k - 2) /\ 2^(D - k - 2) \in Nat
    BY <2>1, PowersOfTwo
  <2> HIDE DEF e
  <2> QED
    BY <1>6, <1>9, <2>2
<1>14. Fits(leaves, k + 1)
  BY <1>9, <1>10, <1>11, <1>12, <1>13 DEF Fits, above
<1>15. p <= 2^(D - k)
  <2> HIDE DEF e
  <2> QED
    BY <1>6, <1>7
<1> QED
  BY <1>7, <1>8, <1>11, <1>14, <1>15 DEF Pairs, above, row, p

\* From the leaves up.
LEMMA AllRowsFit ==
  ASSUME NEW n \in Nat \ {0}, NEW leaves, leaves = [i \in 1 .. n |-> leaves[i]],
         NEW k \in 1 .. Depth(n)
  PROVE  Len(leaves) = n /\ Fits(leaves, k)
<1> DEFINE D == Depth(n)
<1>1. /\ D \in Nat /\ D >= 1 /\ 2^(D - 1) >= n /\ 2^(D - 1) \in Nat
      /\ D > 1 => 2^(D - 2) < n
  <2>1. D \in 1 .. n + 1 /\ 2^(D - 1) >= n /\ (D > 1 => 2^(D - 2) < n)
    BY DepthIs
  <2> HIDE DEF D
  <2>2. D - 1 \in Nat /\ D \in Nat
    BY <2>1
  <2> QED
    BY <2>1, <2>2, PowersOfTwo
<1>2. Len(leaves) = n
  BY ListOf
<1>3. Raw(leaves, 1) = leaves
  BY DEF Raw
<1> HIDE DEF D
<1>4. Fits(leaves, 1)
  <2>1. D - 1 - 1 = D - 2
    BY <1>1
  <2>2. n <= 2^(D - 1) /\ n >= 1
    BY <1>1
  <2> QED
    BY <1>1, <1>2, <1>3, <2>1, <2>2 DEF Fits, D
<1> DEFINE T == {j \in 0 .. D - 1 : Fits(leaves, j + 1)}
<1>5. 0 \in T
  BY <1>1, <1>4
<1>6. ASSUME NEW j \in 0 .. (D - 1) - 1, j \in T PROVE j + 1 \in T
  <2>1. j + 1 \in 1 .. D - 1 /\ Fits(leaves, j + 1)
    BY <1>1, <1>6
  <2>2. Fits(leaves, (j + 1) + 1)
    BY <1>2, <2>1, RowAbove DEF D
  <2>3. j + 1 \in 0 .. D - 1
    BY <1>1
  <2> QED
    BY <2>2, <2>3
<1>7. 0 .. D - 1 \subseteq T
  <2>1. D - 1 \in Nat
    BY <1>1
  <2> HIDE DEF T
  <2> QED
    BY <1>5, <1>6, <2>1, IntervalInduction
<1>8. k - 1 \in 0 .. D - 1 /\ (k - 1) + 1 = k
  BY <1>1 DEF D
<1>9. Fits(leaves, k)
  <2>1. k - 1 \in T
    BY <1>7, <1>8
  <2> QED
    BY <1>8, <2>1
<1> QED
  BY <1>2, <1>9

\* Every row.
LEMMA RowIs ==
  ASSUME NEW n \in Nat \ {0}, NEW leaves, leaves = [i \in 1 .. n |-> leaves[i]],
         NEW D, D = Depth(n), NEW k \in 1 .. D
  PROVE  /\ Len(leaves) = n /\ Tree(leaves) = [j \in 1 .. D |-> Tree(leaves)[j]]
         /\ Pads(Raw(leaves, k), Tree(leaves)[k]) /\ Len(Tree(leaves)[k]) <= 2^(D - k)
         /\ k = D => Len(Tree(leaves)[k]) = 1
         /\ k # D => Pairs(Tree(leaves)[k], Raw(leaves, k + 1))
<1> DEFINE raw == Raw(leaves, k)
           w == Len(raw)
           p == IF w > 1 /\ w % 2 = 1 THEN w + 1 ELSE w
           row == Tree(leaves)[k]
<1>1. Len(leaves) = n /\ Fits(leaves, k)
  BY AllRowsFit
<1>2. /\ w \in Nat /\ w >= 1 /\ raw = [i \in 1 .. w |-> raw[i]]
      /\ w <= 2^(D - k)
  BY <1>1 DEF Fits
<1>3. D \in Nat /\ k \in Nat
  <2>1. D \in 1 .. n + 1
    BY DepthIs
  <2> QED
    BY <2>1
<1>4. Tree(leaves) = [j \in 1 .. D |-> Padded(Raw(leaves, j))]
  BY <1>1, TreeRows
<1>5. row = Padded(raw) /\ Tree(leaves) = [j \in 1 .. D |-> Tree(leaves)[j]]
  BY <1>4
<1> HIDE DEF raw, w
<1>6. /\ Padded(raw) = [i \in 1 .. p |-> IF i <= w THEN raw[i] ELSE NullHash]
      /\ Len(Padded(raw)) = p
  BY <1>2, PaddedIs
<1>7. k = D => w = 1 /\ p = 1 /\ p <= 2^(D - k)
  <2> SUFFICES ASSUME k = D PROVE w = 1 /\ p = 1 /\ p <= 2^(D - k)
    OBVIOUS
  <2>1. 2^(D - k) = 1
    <3>1. D - k = 0
      BY <1>3
    <3> QED
      BY <3>1, PowersOfTwo
  <2>2. w = 1
    BY <1>2, <2>1
  <2> QED
    BY <2>1, <2>2
<1>8. k # D => Len(Tree(leaves)[k]) <= 2^(D - k) /\ Pairs(Tree(leaves)[k], Raw(leaves, k + 1))
  <2> SUFFICES ASSUME k # D
               PROVE  Len(Tree(leaves)[k]) <= 2^(D - k) /\ Pairs(Tree(leaves)[k], Raw(leaves, k + 1))
    OBVIOUS
  <2>1. k \in 1 .. D - 1 /\ Len(leaves) \in Nat
    BY <1>1, <1>3
  <2> QED
    BY <1>1, <2>1, RowAbove
<1>9. row = [i \in 1 .. p |-> IF i <= w THEN raw[i] ELSE NullHash] /\ Len(row) = p
  <2> HIDE DEF row, p
  <2> QED
    BY <1>5, <1>6
<1>10. w \in Nat \ {0}
  BY <1>2
<1>11. Pads(Raw(leaves, k), Tree(leaves)[k])
  BY <1>2, <1>9, <1>10 DEF raw, w, Pads
<1>12. k = D => Len(Tree(leaves)[k]) = 1 /\ Len(Tree(leaves)[k]) <= 2^(D - k)
  <2> HIDE DEF p
  <2> QED
    BY <1>7, <1>9
<1> QED
  BY <1>1, <1>5, <1>8, <1>11, <1>12

\* Positions of children and parents.
LEMMA HalfIndex ==
  ASSUME NEW p \in Nat, p % 2 = 0, NEW a \in 0 .. p - 1, NEW c, c = a \div 2
  PROVE  /\ c \in Nat /\ c \in 0 .. (p \div 2) - 1 /\ c + 1 \in 1 .. p \div 2
         /\ a % 2 = 0 => 2 * (c + 1) - 1 = a + 1 /\ 2 * (c + 1) = a + 2
         /\ a % 2 # 0 => 2 * (c + 1) - 1 = a /\ 2 * (c + 1) = a + 1
OBVIOUS

\* From place a of a row to place c of the one above, whose children it and its neighbour are.
Up(row, a, above, c) ==
  /\ c \in 0 .. Len(above) - 1
  /\ above[c + 1] = IF a % 2 = 0 THEN pedersen_hash(row[a + 1], row[a + 2])
                    ELSE pedersen_hash(row[a], row[a + 1])

LEMMA Climb ==
  ASSUME NEW row, NEW raw, NEW above, Pairs(row, raw), Pads(raw, above),
         NEW a \in 0 .. Len(row) - 1, NEW c, c = a \div 2
  PROVE  Up(row, a, above, c)
<1>3. /\ Len(row) \in Nat /\ Len(row) % 2 = 0 /\ Len(raw) = Len(row) \div 2
      /\ raw = [i \in 1 .. Len(row) \div 2 |-> pedersen_hash(row[2 * i - 1], row[2 * i])]
  BY DEF Pairs
<1>4. \E q \in Nat : above = [i \in 1 .. q |-> IF i <= Len(raw) THEN raw[i] ELSE NullHash]
                     /\ Len(above) = q /\ q >= Len(raw)
  <2> DEFINE w == Len(raw)
             r == IF w > 1 /\ w % 2 = 1 THEN w + 1 ELSE w
  <2>1. /\ w \in Nat \ {0} /\ above = [i \in 1 .. r |-> IF i <= w THEN raw[i] ELSE NullHash]
        /\ Len(above) = r
    BY DEF Pads
  <2> HIDE DEF w
  <2>2. r \in Nat /\ r >= w
    BY <2>1
  <2> QED
    BY <2>1, <2>2 DEF w
<1>5. PICK q \in Nat : above = [i \in 1 .. q |-> IF i <= Len(raw) THEN raw[i] ELSE NullHash]
                     /\ Len(above) = q /\ q >= Len(raw)
  BY <1>4
<1>6. /\ c \in Nat /\ c \in 0 .. Len(raw) - 1 /\ c + 1 \in 1 .. Len(raw) /\ Len(raw) \in Nat
      /\ a % 2 = 0 => 2 * (c + 1) - 1 = a + 1 /\ 2 * (c + 1) = a + 2
      /\ a % 2 # 0 => 2 * (c + 1) - 1 = a /\ 2 * (c + 1) = a + 1
  <2> DEFINE p == Len(row)
  <2> HIDE DEF p
  <2>1. p \in Nat /\ p % 2 = 0 /\ a \in 0 .. p - 1 /\ Len(raw) = p \div 2
    BY <1>3 DEF p
  <2>2. p \div 2 \in Nat
    BY <2>1
  <2> QED
    BY <2>1, <2>2, HalfIndex
<1>7. c \in 0 .. Len(above) - 1 /\ above[c + 1] = raw[c + 1]
  <2>1. c + 1 \in 1 .. q /\ c + 1 <= Len(raw) /\ c \in 0 .. q - 1
    BY <1>5, <1>6
  <2> QED
    BY <1>5, <2>1
<1>8. raw[c + 1] = pedersen_hash(row[2 * (c + 1) - 1], row[2 * (c + 1)])
  BY <1>3, <1>6
<1> QED
  BY <1>6, <1>7, <1>8 DEF Up

\* The hashes along a path.
Hashes(f, L, index, path) ==
  f = [j \in 1 .. L |-> IF j = 1 THEN path[1]
                        ELSE IF (index \div 2^(j - 2)) % 2 = 0 THEN pedersen_hash(f[j - 1], path[j])
                        ELSE pedersen_hash(path[j], f[j - 1])]

\* Function h tells what the hashes along a path are.
LEMMA PathHash ==
  ASSUME NEW L \in Nat \ {0}, NEW index, NEW path, Len(path) = L,
         NEW h, h = [j \in 1 .. L |-> h[j]], h[1] = path[1],
         \A j \in 1 .. L - 1 :
           h[j + 1] = IF (index \div 2^(j - 1)) % 2 = 0 THEN pedersen_hash(h[j], path[j + 1])
                      ELSE pedersen_hash(path[j + 1], h[j])
  PROVE  verify_inclusion_proof(index, path) <=> h[L] = root
<1>1. ASSUME NEW j \in 1 .. L
      PROVE  h[j] = IF j = 1 THEN path[1]
                    ELSE IF (index \div 2^(j - 2)) % 2 = 0 THEN pedersen_hash(h[j - 1], path[j])
                    ELSE pedersen_hash(path[j], h[j - 1])
  <2>1. CASE j # 1
    <3> DEFINE i == j - 1
    <3>1. i \in 1 .. L - 1 /\ i + 1 = j /\ i - 1 = j - 2
      BY <2>1
    <3>2. h[i + 1] = IF (index \div 2^(i - 1)) % 2 = 0 THEN pedersen_hash(h[i], path[i + 1])
                     ELSE pedersen_hash(path[i + 1], h[i])
      BY <3>1
    <3> QED
      BY <2>1, <3>1, <3>2
  <2> QED
    BY <2>1
<1>2. Hashes(h, L, index, path)
  BY <1>1, Zenon DEF Hashes
<1>3. ASSUME NEW f, Hashes(f, L, index, path) PROVE f[L] = h[L]
  <2> DEFINE T == {m \in 0 .. L - 1 : f[m + 1] = h[m + 1]}
  <2>1. 0 \in T
    <3>1. 1 \in 1 .. L /\ 0 \in 0 .. L - 1 /\ 0 + 1 = 1
      OBVIOUS
    <3>2. f[1] = path[1] /\ h[1] = path[1]
      BY <1>3, <3>1 DEF Hashes
    <3> QED
      BY <3>1, <3>2
  <2>2. ASSUME NEW m \in 0 .. (L - 1) - 1, m \in T PROVE m + 1 \in T
    <3> DEFINE j == (m + 1) + 1
    <3>1. m + 1 \in 0 .. L - 1 /\ j \in 1 .. L /\ j # 1 /\ j - 1 = m + 1
      OBVIOUS
    <3>2. f[j - 1] = h[j - 1]
      BY <2>2, <3>1
    <3> HIDE DEF j
    <3>3. f[j] = h[j]
      BY <1>2, <1>3, <3>1, <3>2 DEF Hashes
    <3> QED
      BY <3>1, <3>3 DEF j
  <2>3. 0 .. L - 1 \subseteq T
    <3>1. L - 1 \in Nat
      OBVIOUS
    <3> HIDE DEF T
    <3> QED
      BY <2>1, <2>2, <3>1, IntervalInduction
  <2>4. L - 1 \in 0 .. L - 1 /\ (L - 1) + 1 = L
    OBVIOUS
  <2>5. f[(L - 1) + 1] = h[(L - 1) + 1]
    BY <2>3, <2>4
  <2> QED
    BY <2>4, <2>5
<1>4. verify_inclusion_proof(index, path) <=> (CHOOSE f : Hashes(f, L, index, path))[L] = root
  BY Zenon DEF verify_inclusion_proof, Hashes
<1>5. Hashes(CHOOSE f : Hashes(f, L, index, path), L, index, path)
  BY <1>2
<1> QED
  BY <1>3, <1>4, <1>5

\* A tree of D rows.
IsTree(t, D) ==
  /\ D \in Nat \ {0} /\ t = [j \in 1 .. D |-> t[j]] /\ Len(t) = D /\ Len(t[D]) = 1
  /\ \A j \in 1 .. D - 1 : \E raw : Pairs(t[j], raw) /\ Pads(raw, t[j + 1])

\* What build_tree makes of leaves is one.
LEMMA TreeIsTree ==
  ASSUME NEW n \in Nat \ {0}, NEW leaves, leaves = [i \in 1 .. n |-> leaves[i]]
  PROVE  IsTree(Tree(leaves), Depth(n))
<1> DEFINE D == Depth(n)
           t == Tree(leaves)
<1>1. D \in Nat \ {0}
  <2>1. D \in 1 .. n + 1
    BY DepthIs
  <2> HIDE DEF D
  <2> QED
    BY <2>1
<1>2. ASSUME NEW j \in 1 .. D
      PROVE  /\ Pads(Raw(leaves, j), t[j])
             /\ j = D => Len(t[j]) = 1
             /\ j # D => Pairs(t[j], Raw(leaves, j + 1))
  BY RowIs
<1>3. D \in 1 .. D
  <2> HIDE DEF D
  <2> QED
    BY <1>1
<1>8. t = [l \in 1 .. D |-> t[l]]
  BY <1>3, RowIs
<1> HIDE DEF D, t
<1>4. t = [l \in 1 .. D |-> t[l]] /\ Len(t[D]) = 1
  BY <1>2, <1>3, <1>8
<1>5. Len(t) = D
  BY <1>1, <1>4, ListOf
<1>6. ASSUME NEW j \in 1 .. D - 1 PROVE \E raw : Pairs(t[j], raw) /\ Pads(raw, t[j + 1])
  <2>1. j \in 1 .. D /\ j # D /\ j + 1 \in 1 .. D
    BY <1>1
  <2> QED
    BY <1>2, <2>1
<1>7. IsTree(t, D)
  BY <1>1, <1>4, <1>5, <1>6 DEF IsTree
<1> QED
  BY <1>7 DEF t, D

\* The places above place i, and their rows.
PlacesAbove(i, L) == [j \in 1 .. L |-> i \div 2^(j - 1)]
RowsAbove(t, k, L) == [j \in 1 .. L |-> t[k + j - 1]]

\* Going up from a node: where the way passes, and what the hash there is.
LEMMA WayUp ==
  ASSUME NEW t, NEW D, IsTree(t, D), NEW k \in 1 .. D, NEW L, L = (D - k) + 1,
         NEW i \in Nat, i \in 0 .. Len(t[k]) - 1,
         NEW at, at = PlacesAbove(i, L), NEW row, row = RowsAbove(t, k, L)
  PROVE  /\ at[1] = i /\ row[1] = t[k] /\ at[L] = 0 /\ row[L] = t[D]
         /\ \A j \in 1 .. L - 1 : Up(row[j], at[j], row[j + 1], at[j + 1])
<1> USE DEF PlacesAbove, RowsAbove
<1>1. D \in Nat \ {0} /\ Len(t[D]) = 1
  BY DEF IsTree
<1>2. L \in Nat \ {0} /\ (\A j \in 1 .. L - 1 : k + j - 1 \in 1 .. D - 1)
  BY <1>1
<1>3. at[1] = i /\ row[1] = t[k] /\ row[L] = t[D] /\ 1 \in 1 .. L /\ L \in 1 .. L
  <2>1. i \div 2^(1 - 1) = i
    BY PowersOfTwo
  <2>2. k + 1 - 1 = k /\ k + L - 1 = D /\ 1 \in 1 .. L /\ L \in 1 .. L
    BY <1>1, <1>2
  <2> QED
    BY <2>1, <2>2
<1>4. ASSUME NEW j \in 1 .. L - 1
      PROVE  at[j] \in Nat /\ at[j + 1] = at[j] \div 2
  <2>1. j - 1 \in Nat /\ (j + 1) - 1 = (j - 1) + 1 /\ j \in 1 .. L /\ j + 1 \in 1 .. L
    BY <1>2
  <2>2. 2^(j - 1) \in Nat \ {0} /\ 2^((j - 1) + 1) = 2 * 2^(j - 1)
    BY <2>1, PowersOfTwo
  <2>3. at[j] = i \div 2^(j - 1) /\ at[j + 1] = i \div 2^((j - 1) + 1)
    BY <2>1
  <2> DEFINE b == 2^(j - 1)
             c == 2^((j - 1) + 1)
  <2>4. b \in Nat \ {0} /\ c = 2 * b /\ at[j] = i \div b /\ at[j + 1] = i \div c
    BY <2>2, <2>3
  <2> HIDE DEF b, c
  <2>5. (i \div b) \div 2 = i \div (2 * b) /\ i \div b \in Nat
    BY <2>4, HalfOfQuotient, Remainder
  <2> QED
    BY <2>4, <2>5
<1>5. ASSUME NEW j \in 1 .. L - 1
      PROVE  \E raw : Pairs(row[j], raw) /\ Pads(raw, row[j + 1])
  <2> DEFINE l == k + j - 1
  <2>1. l \in 1 .. D - 1 /\ l + 1 = k + (j + 1) - 1 /\ j \in 1 .. L /\ j + 1 \in 1 .. L
    BY <1>1, <1>2
  <2>2. row[j] = t[l] /\ row[j + 1] = t[l + 1]
    BY <2>1
  <2> HIDE DEF l
  <2> QED
    BY <2>1, <2>2 DEF IsTree
<1>6. ASSUME NEW j \in 1 .. L - 1, at[j] \in 0 .. Len(row[j]) - 1
      PROVE  Up(row[j], at[j], row[j + 1], at[j + 1])
  <2>1. PICK raw : Pairs(row[j], raw) /\ Pads(raw, row[j + 1])
    BY <1>5
  <2>2. at[j + 1] = at[j] \div 2
    BY <1>4
  <2> QED
    BY <1>6, <2>1, <2>2, Climb
<1> DEFINE T == {m \in 0 .. L - 1 : at[m + 1] \in 0 .. Len(row[m + 1]) - 1}
<1>7. 0 .. L - 1 \subseteq T
  <2>1. 0 \in T
    <3>1. 0 \in 0 .. L - 1 /\ 0 + 1 = 1
      BY <1>2
    <3> QED
      BY <1>3, <3>1
  <2>2. ASSUME NEW m \in 0 .. (L - 1) - 1, m \in T PROVE m + 1 \in T
    <3>1. m + 1 \in 1 .. L - 1 /\ m + 1 \in 0 .. L - 1 /\ at[m + 1] \in 0 .. Len(row[m + 1]) - 1
      BY <1>2, <2>2
    <3>2. at[(m + 1) + 1] \in 0 .. Len(row[(m + 1) + 1]) - 1
      BY <1>6, <3>1 DEF Up
    <3> QED
      BY <3>1, <3>2
  <2>3. L - 1 \in Nat
    BY <1>2
  <2> HIDE DEF T
  <2> QED
    BY <2>1, <2>2, <2>3, IntervalInduction
<1>8. ASSUME NEW j \in 1 .. L PROVE at[j] \in 0 .. Len(row[j]) - 1
  <2>1. j - 1 \in 0 .. L - 1 /\ (j - 1) + 1 = j
    BY <1>2
  <2>2. j - 1 \in T
    BY <1>7, <2>1
  <2> QED
    BY <2>1, <2>2
<1>9. at[L] = 0
  <2>1. at[L] \in 0 .. 1 - 1
    BY <1>1, <1>3, <1>8
  <2> QED
    BY <2>1
<1>10. \A j \in 1 .. L - 1 : j \in 1 .. L
  BY <1>2
<1> QED
  BY <1>3, <1>6, <1>8, <1>9, <1>10, Zenon

\* The path of a node, row by row, leads to the root.
LEMMA PathLeads ==
  ASSUME NEW D, IsTree(tree, D), root = RootOf(tree),
         NEW k \in 1 .. D, NEW i \in Nat, i \in 0 .. Len(tree[k]) - 1
  PROVE  verify_inclusion_proof(i, <<tree[k][i + 1]>> \o inclusion_proof(k, i))
<1> DEFINE L == (D - k) + 1
           at == PlacesAbove(i, L)
           row == RowsAbove(tree, k, L)
           h == [j \in 1 .. L |-> row[j][at[j] + 1]]
           rest == inclusion_proof(k, i)
           path == <<tree[k][i + 1]>> \o rest
<1>1. D \in Nat \ {0} /\ Len(tree[D]) = 1 /\ Len(tree) = D
  BY DEF IsTree
<1>2. L \in Nat \ {0} /\ D - k = L - 1
  BY <1>1
<1>3. /\ at[1] = i /\ row[1] = tree[k] /\ at[L] = 0 /\ row[L] = tree[D]
      /\ \A j \in 1 .. L - 1 : Up(row[j], at[j], row[j + 1], at[j + 1])
  <2>1. L = (D - k) + 1
    OBVIOUS
  <2> HIDE DEF L
  <2> QED
    BY <2>1, WayUp
<1>4. rest = [j \in 1 .. L - 1 |-> row[j][IF at[j] % 2 = 0 THEN at[j] + 2 ELSE at[j]]]
  <2>1. rest = [j \in 1 .. L - 1 |->
                 LET a == i \div 2^(j - 1) IN tree[k + j - 1][IF a % 2 = 0 THEN a + 2 ELSE a]]
    BY <1>1, <1>2, Zenon DEF inclusion_proof
  <2>2. \A j \in 1 .. L - 1 : at[j] = i \div 2^(j - 1) /\ row[j] = tree[k + j - 1]
    <3>1. \A j \in 1 .. L - 1 : j \in 1 .. L
      BY <1>2
    <3> HIDE DEF L
    <3> QED
      BY <3>1 DEF PlacesAbove, RowsAbove
  <2> HIDE DEF L, at, row, rest
  <2> QED
    BY <2>1, <2>2, Zenon
<1> HIDE DEF at, row, rest, L
<1>5. /\ Len(path) = L /\ path[1] = tree[k][i + 1]
      /\ \A j \in 1 .. L - 1 : path[j + 1] = row[j][IF at[j] % 2 = 0 THEN at[j] + 2 ELSE at[j]]
  <2> DEFINE x == tree[k][i + 1]
             S == {rest[j] : j \in 1 .. L - 1} \union {x}
  <2>1. rest \in Seq(S) /\ Len(rest) = L - 1
    <3>1. L - 1 \in Nat
      BY <1>2
    <3>2. rest = [j \in 1 .. L - 1 |-> rest[j]]
      BY <1>4
    <3>3. rest \in [1 .. L - 1 -> S]
      BY <3>2
    <3> HIDE DEF S
    <3> QED
      BY <3>1, <3>2, <3>3, ListOf, SeqDef
  <2>2. <<x>> \in Seq(S) /\ Len(<<x>>) = 1 /\ <<x>>[1] = x
    OBVIOUS
  <2> HIDE DEF S, x
  <2>3. /\ Len(<<x>> \o rest) = 1 + (L - 1)
        /\ \A j \in 1 .. 1 + (L - 1) : (<<x>> \o rest)[j] = IF j <= 1 THEN <<x>>[j] ELSE rest[j - 1]
    BY <2>1, <2>2, ConcatProperties
  <2>4. 1 \in 1 .. 1 + (L - 1) /\ 1 + (L - 1) = L
    BY <1>2
  <2>5. ASSUME NEW j \in 1 .. L - 1 PROVE (<<x>> \o rest)[j + 1] = rest[j]
    <3>1. j + 1 \in 1 .. 1 + (L - 1) /\ ~(j + 1 <= 1) /\ (j + 1) - 1 = j
      BY <1>2
    <3> QED
      BY <2>3, <3>1
  <2>6. ASSUME NEW j \in 1 .. L - 1
        PROVE  (<<x>> \o rest)[j + 1] = row[j][IF at[j] % 2 = 0 THEN at[j] + 2 ELSE at[j]]
    BY <1>4, <2>5
  <2>7. (<<x>> \o rest)[1] = x /\ Len(<<x>> \o rest) = L
    BY <2>2, <2>3, <2>4
  <2>8. path = <<x>> \o rest /\ x = tree[k][i + 1]
    BY DEF x
  <2> HIDE DEF path
  <2> QED
    BY <2>6, <2>7, <2>8
<1>6. h = [j \in 1 .. L |-> h[j]] /\ h[1] = path[1] /\ h[L] = root
  <2>1. 1 \in 1 .. L /\ L \in 1 .. L
    BY <1>2
  <2>2. h[1] = row[1][at[1] + 1] /\ h[L] = row[L][at[L] + 1]
    BY <2>1
  <2>3. row[L][at[L] + 1] = tree[D][1]
    BY <1>3
  <2>4. RootOf(tree) = tree[D][1]
    <3>1. tree[D] # << >>
      BY <1>1
    <3> QED
      BY <1>1, <3>1 DEF RootOf, Last
  <2> QED
    BY <1>3, <1>5, <2>2, <2>3, <2>4
<1>7. ASSUME NEW j \in 1 .. L - 1
      PROVE  h[j + 1] = IF (i \div 2^(j - 1)) % 2 = 0 THEN pedersen_hash(h[j], path[j + 1])
                        ELSE pedersen_hash(path[j + 1], h[j])
  <2>1. j \in 1 .. L /\ j + 1 \in 1 .. L
    BY <1>2
  <2>2. h[j] = row[j][at[j] + 1] /\ h[j + 1] = row[j + 1][at[j + 1] + 1]
    BY <2>1
  <2>3. at[j] = i \div 2^(j - 1)
    BY <2>1 DEF at, PlacesAbove
  <2>4. path[j + 1] = row[j][IF at[j] % 2 = 0 THEN at[j] + 2 ELSE at[j]]
    BY <1>5
  <2>5. row[j + 1][at[j + 1] + 1] = IF at[j] % 2 = 0
          THEN pedersen_hash(row[j][at[j] + 1], row[j][at[j] + 2])
          ELSE pedersen_hash(row[j][at[j]], row[j][at[j] + 1])
    BY <1>3 DEF Up
  <2> HIDE DEF h, path
  <2> QED
    BY <2>2, <2>3, <2>4, <2>5
<1> HIDE DEF h, path
<1>8. verify_inclusion_proof(i, path) <=> h[L] = root
  BY <1>2, <1>5, <1>6, <1>7, PathHash
<1> QED
  BY <1>6, <1>8 DEF path, rest

-----------------------------------------------------------------------------
(* Null nodes *)

\* A row that was padded.
HasNull(row) == row # << >> /\ Last(row) = NullHash

\* Its null node is the one behind the others.
LEMMA NullIsLast ==
  ASSUME NEW raw, NEW row, Pads(raw, row), NEW w, w = Len(raw),
         \A i \in 1 .. w : raw[i] # NullHash
  PROVE  IF HasNull(row) THEN Len(row) = w + 1 /\ row[w + 1] = NullHash
         ELSE Len(row) = w
<1> DEFINE p == IF w > 1 /\ w % 2 = 1 THEN w + 1 ELSE w
<1>1. /\ w \in Nat \ {0} /\ Len(row) = p
      /\ row = [i \in 1 .. p |-> IF i <= w THEN raw[i] ELSE NullHash]
  BY DEF Pads
<1>2. p \in Nat \ {0} /\ p \in 1 .. p /\ (p = w \/ p = w + 1)
  BY <1>1
<1> HIDE DEF p
<1>3. row # << >>
  <2>1. Len(<< >>) = 0
    OBVIOUS
  <2> QED
    BY <1>1, <1>2, <2>1
<1>4. Last(row) = IF p <= w THEN raw[p] ELSE NullHash
  BY <1>1, <1>2 DEF Last
<1>5. CASE p = w
  <2>1. p <= w /\ w \in 1 .. w
    BY <1>1, <1>5
  <2>2. ~HasNull(row)
    BY <1>4, <1>5, <2>1 DEF HasNull
  <2> QED
    BY <1>1, <1>5, <2>2
<1>6. CASE p = w + 1
  <2>1. ~(p <= w)
    BY <1>1, <1>6
  <2>2. HasNull(row) /\ row[p] = NullHash
    BY <1>1, <1>2, <1>3, <1>4, <2>1 DEF HasNull
  <2> QED
    BY <1>1, <1>6, <2>2
<1> QED
  BY <1>2, <1>5, <1>6

\* No other node is null.
LEMMA NoOtherIsNull ==
  ASSUME NEW n \in Nat \ {0}, NEW leaves, leaves = [i \in 1 .. n |-> leaves[i]],
         \A i \in 1 .. n : leaves[i] # NullHash,
         NEW k \in 1 .. Depth(n), NEW i \in 1 .. Len(Raw(leaves, k))
  PROVE  Raw(leaves, k)[i] # NullHash
<1> DEFINE D == Depth(n)
<1>1. D \in Nat
  <2>1. D \in 1 .. n + 1
    BY DepthIs
  <2> HIDE DEF D
  <2> QED
    BY <2>1
<1>2. CASE k = 1
  <2>1. Raw(leaves, k) = leaves /\ Len(leaves) = n
    BY <1>2, ListOf DEF Raw
  <2> QED
    BY <2>1
<1>3. CASE k # 1
  <2> DEFINE j == k - 1
             row == Tree(leaves)[j]
             raw == Raw(leaves, k)
  <2>1. j \in 1 .. D /\ j # D /\ j + 1 = k
    <3>1. k \in 1 .. D
      OBVIOUS
    <3> HIDE DEF D
    <3> QED
      BY <1>1, <1>3, <3>1
  <2>2. Pairs(row, raw)
    <3> HIDE DEF j
    <3> QED
      BY <2>1, RowIs
  <2>3. raw = [l \in 1 .. Len(raw) |-> pedersen_hash(row[2 * l - 1], row[2 * l])]
    <3> HIDE DEF row, raw
    <3> QED
      BY <2>2 DEF Pairs
  <2>4. raw[i] = pedersen_hash(row[2 * i - 1], row[2 * i])
    <3> HIDE DEF row
    <3> QED
      BY <2>3
  <2> HIDE DEF row
  <2> QED
    BY <2>4 DEF pedersen_hash, NullHash
<1> QED
  BY <1>2, <1>3

\* Rows that are twice as wide as the one above.
LEMMA Doubles ==
  ASSUME NEW K \in Nat \ {0}, NEW w, \A j \in 1 .. K : w[j] \in Nat,
         \A j \in 1 .. K - 1 : w[j] = 2 * w[j + 1]
  PROVE  w[1] = w[K] * 2^(K - 1)
<1> DEFINE T == {m \in 0 .. K - 1 : w[1] = w[m + 1] * 2^m}
<1>1. 0 \in T
  <2>1. 2^0 = 1 /\ 0 \in 0 .. K - 1 /\ w[1] \in Nat /\ 0 + 1 = 1
    BY PowersOfTwo
  <2>2. w[1] = w[1] * 1
    BY <2>1
  <2> QED
    BY <2>1, <2>2
<1>2. ASSUME NEW m \in 0 .. (K - 1) - 1, m \in T PROVE m + 1 \in T
  <2>1. m + 1 \in 0 .. K - 1 /\ m + 1 \in 1 .. K - 1 /\ (m + 1) + 1 \in 1 .. K /\ m \in Nat
    OBVIOUS
  <2> DEFINE x == w[(m + 1) + 1]
             y == 2^m
  <2>2. w[1] = (2 * x) * y /\ x \in Nat /\ y \in Nat /\ 2^(m + 1) = 2 * y
    BY <1>2, <2>1, PowersOfTwo
  <2> HIDE DEF x, y
  <2>3. (2 * x) * y = x * (2 * y)
    BY <2>2
  <2>4. w[1] = w[(m + 1) + 1] * 2^(m + 1)
    BY <2>2, <2>3 DEF x
  <2> QED
    BY <2>1, <2>4
<1>3. 0 .. K - 1 \subseteq T
  <2>1. K - 1 \in Nat
    OBVIOUS
  <2> HIDE DEF T
  <2> QED
    BY <1>1, <1>2, <2>1, IntervalInduction
<1>4. K - 1 \in 0 .. K - 1 /\ (K - 1) + 1 = K
  OBVIOUS
<1>5. w[1] = w[(K - 1) + 1] * 2^(K - 1)
  BY <1>3, <1>4
<1> QED
  BY <1>4, <1>5

\* There are n leaves below the w nodes of row k, before its null node.
Below(n, D, w, k, row) ==
  /\ w \in Nat \ {0} /\ n = w * 2^(k - 1)
  /\ k = D => w = 1
  /\ IF HasNull(row) THEN Len(row) = w + 1 /\ row[w + 1] = NullHash ELSE Len(row) = w

\* What the rows below row k tell of the number of leaves.
LEMMA LeavesBelow ==
  ASSUME NEW n \in Nat \ {0}, NEW leaves, leaves = [i \in 1 .. n |-> leaves[i]],
         \A i \in 1 .. n : leaves[i] # NullHash,
         NEW k \in 1 .. Depth(n), \A j \in 1 .. k - 1 : ~HasNull(Tree(leaves)[j]),
         NEW w, w = Len(Raw(leaves, k))
  PROVE  Below(n, Depth(n), w, k, Tree(leaves)[k])
<1> DEFINE D == Depth(n)
           t == Tree(leaves)
           raw == [j \in 1 .. D |-> Raw(leaves, j)]
           width == [j \in 1 .. D |-> Len(raw[j])]
<1>1. D \in Nat /\ k \in 1 .. D /\ k \in Nat
  <2>1. D \in 1 .. n + 1 /\ k \in 1 .. D
    BY DepthIs
  <2> HIDE DEF D
  <2> QED
    BY <2>1
<1>2. ASSUME NEW j \in 1 .. D
      PROVE  /\ Pads(raw[j], t[j]) /\ (\A i \in 1 .. Len(raw[j]) : raw[j][i] # NullHash)
             /\ j = D => Len(t[j]) = 1
  <2>1. Pads(Raw(leaves, j), t[j]) /\ (j = D => Len(t[j]) = 1)
    BY RowIs
  <2>2. \A i \in 1 .. Len(Raw(leaves, j)) : Raw(leaves, j)[i] # NullHash
    BY NoOtherIsNull
  <2>3. raw[j] = Raw(leaves, j)
    <3> HIDE DEF D
    <3> QED
      OBVIOUS
  <2> HIDE DEF raw, D, t
  <2> QED
    BY <2>1, <2>2, <2>3
<1>3. ASSUME NEW j \in 1 .. D, j # D PROVE Pairs(t[j], raw[j + 1])
  <2>1. j + 1 \in 1 .. D
    <3> HIDE DEF D
    <3> QED
      BY <1>1, <1>3
  <2>2. Pairs(t[j], Raw(leaves, j + 1))
    BY <1>3, RowIs
  <2> HIDE DEF D
  <2> QED
    BY <2>1, <2>2
<1>4. width[1] = n
  <2>1. 1 \in 1 .. D
    <3> HIDE DEF D
    <3> QED
      BY <1>1
  <2>2. Raw(leaves, 1) = leaves /\ Len(leaves) = n
    BY ListOf DEF Raw
  <2> HIDE DEF D
  <2> QED
    BY <2>1, <2>2
<1>5. w = width[k] /\ \A j \in 1 .. D : width[j] = Len(raw[j])
  BY <1>1
<1> HIDE DEF D, t, raw, width
<1>6. ASSUME NEW j \in 1 .. D
      PROVE  /\ width[j] \in Nat \ {0}
             /\ IF HasNull(t[j]) THEN Len(t[j]) = width[j] + 1 /\ t[j][width[j] + 1] = NullHash
                ELSE Len(t[j]) = width[j]
  <2>1. Pads(raw[j], t[j]) /\ (\A i \in 1 .. Len(raw[j]) : raw[j][i] # NullHash) /\ width[j] = Len(raw[j])
    BY <1>2, <1>5
  <2> QED
    BY <2>1, NullIsLast DEF Pads
<1>7. ASSUME NEW j \in 1 .. k - 1 PROVE width[j] = 2 * width[j + 1]
  <2>1. j \in 1 .. D /\ j # D /\ j + 1 \in 1 .. D
    BY <1>1
  <2>2. Len(t[j]) = width[j] /\ ~HasNull(t[j])
    BY <1>6, <2>1 DEF t
  <2>3. Pairs(t[j], raw[j + 1])
    BY <1>3, <2>1
  <2>4. /\ Len(t[j]) \in Nat /\ Len(t[j]) % 2 = 0 /\ width[j + 1] = Len(t[j]) \div 2
    BY <1>5, <2>1, <2>3 DEF Pairs
  <2> DEFINE x == width[j]
             y == width[j + 1]
  <2>5. x \in Nat /\ x % 2 = 0 /\ y = x \div 2
    BY <2>2, <2>4
  <2> HIDE DEF x, y
  <2>6. x = 2 * y
    BY <2>5
  <2> QED
    BY <2>6 DEF x, y
<1>8. width[1] = width[k] * 2^(k - 1)
  <2>1. k \in Nat \ {0} /\ \A j \in 1 .. k : width[j] \in Nat
    BY <1>1, <1>6
  <2> QED
    BY <1>7, <2>1, Doubles
<1>9. k = D => w = 1
  <2> SUFFICES ASSUME k = D PROVE w = 1
    OBVIOUS
  <2>1. Len(t[k]) = 1 /\ width[k] \in Nat \ {0}
    BY <1>1, <1>2, <1>6
  <2>2. Len(t[k]) = width[k] + 1 \/ Len(t[k]) = width[k]
    BY <1>1, <1>6
  <2>3. width[k] = 1
    <3> DEFINE v == width[k]
               l == Len(t[k])
    <3>1. l = 1 /\ v \in Nat \ {0} /\ (l = v + 1 \/ l = v)
      BY <2>1, <2>2
    <3> HIDE DEF v, l
    <3>2. v = 1
      BY <3>1
    <3> QED
      BY <3>2 DEF v
  <2> QED
    BY <1>5, <2>3
<1> QED
  BY <1>1, <1>4, <1>5, <1>6, <1>8, <1>9 DEF t, D, Below

\* The row build_tree remembers.
LEMMA LowestNullIs ==
  ASSUME NEW leaves, NEW D \in Nat, DOMAIN Tree(leaves) = 1 .. D, NEW k, k = LowestNull(leaves)
  PROVE  IF k = NoRow THEN \A j \in 1 .. D : ~HasNull(Tree(leaves)[j])
         ELSE /\ k \in 1 .. D /\ HasNull(Tree(leaves)[k])
              /\ \A j \in 1 .. k - 1 : ~HasNull(Tree(leaves)[j])
<1> DEFINE t == Tree(leaves)
           odd == {j \in DOMAIN t : HasNull(t[j])}
<1>1. k = IF odd = {} THEN NoRow ELSE CHOOSE l \in odd : \A j \in odd : l <= j
  BY Zenon DEF LowestNull, HasNull
<1>2. CASE odd = {}
  BY <1>1, <1>2
<1>3. CASE odd # {}
  <2>1. k = CHOOSE l \in odd : \A j \in odd : l <= j
    BY <1>1, <1>3
  <2>2. odd \in SUBSET Nat
    OBVIOUS
  <2> HIDE DEF odd
  <2>3. \E l \in odd : \A j \in odd : l <= j
    BY <1>3, <2>2, LeastNumber
  <2>4. k \in odd /\ \A j \in odd : k <= j
    BY <2>1, <2>3
  <2>5. k \in 1 .. D /\ HasNull(t[k])
    BY <2>4 DEF odd
  <2>6. ASSUME NEW j \in 1 .. k - 1 PROVE ~HasNull(t[j])
    <3>1. j \in 1 .. D /\ ~(k <= j)
      BY <2>5
    <3>2. j \notin odd
      BY <2>4, <3>1
    <3> QED
      BY <3>1, <3>2 DEF odd
  <2>7. k # NoRow
    BY <2>5 DEF NoRow
  <2> QED
    BY <2>5, <2>6, <2>7
<1> QED
  BY <1>2, <1>3

-----------------------------------------------------------------------------
(* The tree of the server *)

\* What build_tree computed is the tree of some leaves: of those there are, or after
\* a reset of those there were.
TreeOf(leaves) ==
  tree = Tree(leaves) /\ root = RootOf(tree) /\ lowest_null_node = LowestNull(leaves)

TreeOfLeaves ==
  \E leaves \in Seq(Leaves) : TreeOf(leaves) /\ (leaf_nodes # << >> => leaf_nodes = leaves)

\* Without leaves there is one row, which is empty.
LEMMA EmptyTree ==
  /\ Tree(<< >>) = << << >> >> /\ RootOf(Tree(<< >>)) = NullHash
  /\ LowestNull(<< >>) = NoRow
<1>1. Len(<< >>) = 0 /\ Depth(0) = 1
  <2>1. Depth(0) \in 1 .. 0 + 1
    BY DepthIs
  <2> QED
    BY <2>1
<1>2. Tree(<< >>) = [k \in 1 .. 1 |-> << >>]
  <2>1. Tree(<< >>) = [k \in 1 .. 1 |-> Padded(Raw(<< >>, k))]
    BY <1>1, TreeRows
  <2>2. \A k \in 1 .. 1 : Padded(Raw(<< >>, k)) = << >>
    BY <1>1 DEF Padded, Raw
  <2> QED
    BY <2>1, <2>2
<1>3. Tree(<< >>) = << << >> >>
  BY <1>2
<1>4. RootOf(Tree(<< >>)) = NullHash
  <2>1. Last(Tree(<< >>)) = << >>
    BY <1>3 DEF Last
  <2> QED
    BY <2>1 DEF RootOf
<1>5. LowestNull(<< >>) = NoRow
  <2>1. DOMAIN Tree(<< >>) = 1 .. 1 /\ \A j \in 1 .. 1 : ~HasNull(Tree(<< >>)[j])
    BY <1>2 DEF HasNull
  <2> DEFINE k == LowestNull(<< >>)
  <2>2. IF k = NoRow THEN \A j \in 1 .. 1 : ~HasNull(Tree(<< >>)[j])
        ELSE k \in 1 .. 1 /\ HasNull(Tree(<< >>)[k]) /\ \A j \in 1 .. k - 1 : ~HasNull(Tree(<< >>)[j])
    BY <2>1, LowestNullIs
  <2> QED
    BY <2>1, <2>2
<1> QED
  BY <1>3, <1>4, <1>5

LEMMA TreeInit == Init => TreeOfLeaves
<1> SUFFICES ASSUME Init PROVE TreeOfLeaves
  OBVIOUS
<1>1. TreeOf(<< >>) /\ leaf_nodes = << >>
  BY EmptyTree DEF Init, BridgeInit, TreeOf
<1> QED
  BY <1>1, EmptySeq DEF TreeOfLeaves

LEMMA TreeNext == IInv' /\ TreeOfLeaves /\ [Next]_vars => TreeOfLeaves'
<1> SUFFICES ASSUME IInv', TreeOfLeaves, [Next]_vars PROVE TreeOfLeaves'
  OBVIOUS
<1>1. CASE UNCHANGED bridgeVars
  BY <1>1 DEF bridgeVars, TreeOfLeaves, TreeOf
<1>2. CASE StartServer
  <2>1. TreeOf(<< >>)' /\ leaf_nodes' = << >>
    BY <1>2, EmptyTree DEF StartServer, TreeOf
  <2> QED
    BY <2>1, EmptySeq DEF TreeOfLeaves
<1>3. CASE Reset
  BY <1>3 DEF Reset, TreeOfLeaves, TreeOf
<1>4. CASE BuildTree
  <2>1. leaf_nodes' \in Seq(Leaves)
    BY DEF IInv, Variables
  <2>2. tree' = Tree(leaf_nodes') /\ root' = RootOf(tree') /\ lowest_null_node' = LowestNull(leaf_nodes')
    BY <1>4 DEF BuildTree
  <2> QED
    BY <2>1, <2>2 DEF TreeOfLeaves, TreeOf
<1>5. CASE StopServer \/ FetchHeader \/ AppendHeader \/ CreateFails \/ ServerExits \/ Awaits
  BY <1>1, <1>5 DEF StopServer, FetchHeader, AppendHeader, CreateFails, ServerExits, Awaits
<1>6. CASE (\E height \in Wanted : Create(height)) \/ Network
  BY <1>1, <1>6 DEF Create, Network
<1>7. CASE UNCHANGED vars
  BY <1>1, <1>7 DEF vars
<1> QED
  BY <1>2, <1>3, <1>4, <1>5, <1>6, <1>7 DEF Next

\* The tree, the root and the remembered null node belong together: they are those
\* of the leaves, and after a reset, until the next tree, of the leaves before it.
THEOREM TreeIsOfTheLeaves == Spec => []TreeOfLeaves
<1> QED
  BY BridgeInvariant, TreeInit, TreeNext, PTL DEF Spec

\* Leaves, if there are any, as a list of hashes that are not null.
LEMMA ListOfLeaves ==
  ASSUME NEW leaves \in Seq(Leaves), leaves # << >>, NEW n, n = Len(leaves)
  PROVE  /\ n \in Nat \ {0} /\ leaves = [i \in 1 .. n |-> leaves[i]]
         /\ \A i \in 1 .. n : leaves[i] # NullHash
<1>1. /\ n \in Nat /\ leaves = [i \in 1 .. n |-> leaves[i]]
      /\ \A i \in 1 .. n : leaves[i] \in Leaves
  BY LenProperties, ElementOfSeq
<1>2. n # 0
  BY EmptySeq
<1>3. \A leaf \in Leaves : leaf # NullHash
  BY DEF Leaves, NullHash, hash_block_header
<1> QED
  BY <1>1, <1>2, <1>3

LEMMA PathsLead == IInv /\ TreeOfLeaves => PathsLeadToRoot
<1> SUFFICES ASSUME IInv, TreeOfLeaves, NEW i \in 0 .. Len(leaf_nodes) - 1
             PROVE  verify_inclusion_proof(i, <<leaf_nodes[i + 1]>> \o inclusion_proof(1, i))
  BY DEF PathsLeadToRoot
<1> DEFINE n == Len(leaf_nodes)
           D == Depth(n)
<1>1. leaf_nodes # << >>
  <2>1. Len(<< >>) = 0
    OBVIOUS
  <2> QED
    BY <2>1
<1>2. n \in Nat \ {0} /\ leaf_nodes = [l \in 1 .. n |-> leaf_nodes[l]]
  BY <1>1, ListOfLeaves DEF IInv, Variables
<1>3. tree = Tree(leaf_nodes) /\ root = RootOf(tree)
  BY <1>1 DEF TreeOfLeaves, TreeOf
<1>4. i \in Nat /\ i \in 0 .. n - 1
  BY <1>2
<1> HIDE DEF n
<1>5. IsTree(tree, D)
  BY <1>2, <1>3, TreeIsTree
<1>6. 1 \in 1 .. D
  <2> HIDE DEF D
  <2> QED
    BY <1>5 DEF IsTree
<1>7. Pads(leaf_nodes, tree[1])
  <2>1. Pads(Raw(leaf_nodes, 1), tree[1])
    BY <1>2, <1>3, <1>6, RowIs
  <2> QED
    BY <2>1 DEF Raw
<1> HIDE DEF D
<1>8. i \in 0 .. Len(tree[1]) - 1 /\ tree[1][i + 1] = leaf_nodes[i + 1]
  <2> DEFINE p == IF n > 1 /\ n % 2 = 1 THEN n + 1 ELSE n
             row == tree[1]
  <2>1. Len(row) = p /\ row = [l \in 1 .. p |-> IF l <= n THEN leaf_nodes[l] ELSE NullHash]
    BY <1>7 DEF Pads, n
  <2>2. i \in 0 .. p - 1 /\ i + 1 \in 1 .. p /\ i + 1 <= n
    BY <1>2, <1>4
  <2> HIDE DEF p, row
  <2>3. i \in 0 .. Len(row) - 1 /\ row[i + 1] = leaf_nodes[i + 1]
    BY <2>1, <2>2
  <2> QED
    BY <2>3 DEF row
<1>9. verify_inclusion_proof(i, <<tree[1][i + 1]>> \o inclusion_proof(1, i))
  BY <1>3, <1>4, <1>5, <1>6, <1>8, PathLeads
<1> QED
  BY <1>8, <1>9

\* Whatever was created on top of what, and however many null nodes there are: the
\* path of every leaf leads to the root the server hands out with it.
THEOREM EveryPathLeadsToRoot == Spec => []PathsLeadToRoot
<1> QED
  BY PathsLead, BridgeInvariant, TreeIsOfTheLeaves, PTL

\* What the null node of a tree says of its leaves, and where it is.
LEMMA NullOfTree ==
  ASSUME NEW leaves \in Seq(Leaves), TreeOf(leaves), leaves # << >>
  PROVE  IF lowest_null_node = NoRow
           THEN \E k \in 0 .. Len(leaves) : Len(leaves) = 2^k
           ELSE LET at == Len(tree[lowest_null_node]) - 1
                IN  /\ Len(leaves) = at * 2^(lowest_null_node - 1)
                    /\ verify_inclusion_proof(at, <<NullHash>> \o inclusion_proof(lowest_null_node, at))
<1> DEFINE n == Len(leaves)
           D == Depth(n)
           t == Tree(leaves)
           k == lowest_null_node
<1>1. /\ n \in Nat \ {0} /\ leaves = [l \in 1 .. n |-> leaves[l]]
      /\ \A l \in 1 .. n : leaves[l] # NullHash
  BY ListOfLeaves
<1>2. tree = t /\ root = RootOf(tree) /\ k = LowestNull(leaves)
  BY DEF TreeOf
<1> HIDE DEF n
<1>3. D \in 1 .. n + 1
  BY <1>1, DepthIs
<1>4. IsTree(t, D)
  BY <1>1, TreeIsTree
<1>5. IF k = NoRow THEN \A j \in 1 .. D : ~HasNull(t[j])
      ELSE k \in 1 .. D /\ HasNull(t[k]) /\ \A j \in 1 .. k - 1 : ~HasNull(t[j])
  <2>1. DOMAIN t = 1 .. D /\ D \in Nat
    BY <1>4 DEF IsTree
  <2> HIDE DEF D
  <2> QED
    BY <1>2, <2>1, LowestNullIs
<1>6. CASE k = NoRow
  <2>1. D \in 1 .. D /\ \A j \in 1 .. D - 1 : j \in 1 .. D
    <3> HIDE DEF D
    <3> QED
      BY <1>1, <1>3
  <2>2. \A j \in 1 .. D - 1 : ~HasNull(t[j])
    BY <1>5, <1>6, <2>1
  <2> DEFINE w == Len(Raw(leaves, D))
  <2>6. Below(n, D, w, D, t[D])
    BY <1>1, <2>1, <2>2, LeavesBelow
  <2>3. n = w * 2^(D - 1) /\ w = 1
    BY <2>6 DEF Below
  <2> HIDE DEF D, w
  <2>4. D - 1 \in 0 .. n /\ D - 1 \in Nat
    BY <1>1, <1>3
  <2>5. n = 2^(D - 1)
    BY <2>3, <2>4, PowersOfTwo
  <2> QED
    BY <1>6, <2>4, <2>5 DEF n
<1>7. CASE k # NoRow
  <2> DEFINE w == Len(Raw(leaves, k))
             width == 2^(k - 1)
  <2>1. k \in 1 .. D /\ HasNull(t[k]) /\ \A j \in 1 .. k - 1 : ~HasNull(t[j])
    BY <1>5, <1>7
  <2>8. Below(n, D, w, k, t[k])
    BY <1>1, <2>1, LeavesBelow
  <2>2. w \in Nat \ {0} /\ n = w * width /\ Len(t[k]) = w + 1 /\ t[k][w + 1] = NullHash
    BY <2>1, <2>8 DEF Below
  <2> HIDE DEF w, D
  <2>3. w \in 0 .. Len(tree[k]) - 1 /\ tree[k][w + 1] = NullHash /\ Len(tree[k]) - 1 = w
    <3>1. Len(tree[k]) = w + 1 /\ tree[k][w + 1] = NullHash
      BY <1>2, <2>2
    <3> QED
      BY <2>2, <3>1
  <2>4. verify_inclusion_proof(w, <<tree[k][w + 1]>> \o inclusion_proof(k, w))
    BY <1>2, <1>4, <2>1, <2>2, <2>3, PathLeads
  <2>5. verify_inclusion_proof(w, <<NullHash>> \o inclusion_proof(k, w))
    BY <2>3, <2>4
  <2> QED
    BY <1>7, <2>2, <2>3, <2>5 DEF n, width
<1> QED
  BY <1>6, <1>7

LEMMA NullPaths == TreeOfLeaves => NullPathIsBehindLastLeaf
<1> SUFFICES ASSUME TreeOfLeaves PROVE NullPathIsBehindLastLeaf
  OBVIOUS
<1>1. PICK leaves \in Seq(Leaves) : TreeOf(leaves) /\ (leaf_nodes # << >> => leaf_nodes = leaves)
  BY DEF TreeOfLeaves
<1>2. CASE leaves = << >>
  <2>1. lowest_null_node = NoRow /\ leaf_nodes = << >>
    BY <1>1, <1>2, EmptyTree DEF TreeOf
  <2> QED
    BY <2>1 DEF NullPathIsBehindLastLeaf
<1>3. CASE leaves # << >>
  BY <1>1, <1>3, NullOfTree DEF NullPathIsBehindLastLeaf
<1> QED
  BY <1>2, <1>3

\* The path that GET /merkle_path/{number of leaves} is answered with leads to the
\* root, also between a reset and the next tree.  While there are leaves, it is that
\* of the null node behind the last leaf, on the lowest row that has one; without a
\* null node the number of leaves is a power of two.
THEOREM NullNodeIsBehindLastLeaf == Spec => []NullPathIsBehindLastLeaf
<1> QED
  BY NullPaths, TreeIsOfTheLeaves, PTL
-----------------------------------------------------------------------------
(* How much is fetched *)

\* Some chain has as many headers.
Had(m) == \E chain \in Chains : m <= Len(chain)

\* Nothing was fetched that no chain has, and never more than was wanted.
Sizes ==
  /\ node \in {"mainnet", "unfit", "down"} /\ rpc \in {"idle", "waiting"}
  /\ pc \in {"off", "idle", "create"} /\ wanted \in Wanted \union {0}
  /\ pc = "create" => wanted \in Wanted
  /\ Len(leaf_nodes) \in Wanted \union {0}
  /\ Had(Len(leaf_nodes) + Len(headers))
  /\ headers # << >> => Len(leaf_nodes) + Len(headers) <= wanted
  /\ call.step \in {"header", "returned"} => Had(call.height + 1)
  /\ \A h \in DOMAIN hash_cache : Had(h + 1)

LEMMA SizesInit == Init => Sizes
<1> SUFFICES ASSUME Init PROVE Sizes
  OBVIOUS
<1>1. /\ best \in Chains /\ pc = "off" /\ wanted = 0 /\ leaf_nodes = << >> /\ headers = << >>
      /\ hash_cache = << >> /\ call.step = "none"
      /\ node \in {"mainnet", "unfit", "down"} /\ rpc = "idle"
  BY DEF Init, ApiInit, BridgeInit, NoCall
<1>2. Len(best) \in Nat /\ Len(<< >>) = 0
  BY <1>1, HeadersBridgeAssumption, LenProperties
<1>3. Had(0)
  BY <1>1, <1>2 DEF Had
<1> QED
  BY <1>1, <1>2, <1>3, EmptyDomain DEF Sizes

\* Steps that fetch nothing.
LEMMA SameSizes ==
  ASSUME Sizes, UNCHANGED <<wanted, leaf_nodes, hash_cache, headers>>,
         pc' \in {"off", "idle"} \/ pc' = pc,
         node' \in {"mainnet", "unfit", "down"}, rpc' \in {"idle", "waiting"},
         \/ call'.step \notin {"header", "returned"}
         \/ call'.height = call.height /\ (call'.step = call.step \/ call.step = "header")
         \/ call'.height \in DOMAIN hash_cache
  PROVE  Sizes'
BY DEF Sizes, Had

\* Headers that are given up.
LEMMA FewerSizes ==
  ASSUME Sizes, IInv, headers' = << >>, leaf_nodes' = leaf_nodes, wanted' = wanted,
         hash_cache' \in {hash_cache, << >>}, pc' \in {"off", "idle"},
         node' = node, rpc' \in {"idle", "waiting"}, call'.step = "none"
  PROVE  Sizes'
<1>1. Len(leaf_nodes) \in Nat /\ Len(headers) \in Nat /\ Len(<< >>) = 0
  BY LenProperties DEF IInv, Variables
<1>2. Had(Len(leaf_nodes))
  <2>1. PICK chain \in Chains : Len(leaf_nodes) + Len(headers) <= Len(chain)
    BY DEF Sizes, Had
  <2>2. Len(chain) \in Nat
    BY HeadersBridgeAssumption, LenProperties
  <2>3. Len(leaf_nodes) <= Len(chain)
    BY <1>1, <2>1, <2>2
  <2> QED
    BY <2>3 DEF Had
<1>3. Len(leaf_nodes) + Len(<< >>) = Len(leaf_nodes)
  BY <1>1
<1> QED
  BY <1>2, <1>3, EmptyDomain DEF Sizes, Had

\* A header that some chain had, and that was wanted.
LEMMA AppendSizes ==
  ASSUME Sizes, IInv, AppendHeader
  PROVE  Sizes'
<1>1. /\ UNCHANGED <<node, rpc, hash_cache, pc, wanted, leaf_nodes>>
      /\ call.step = "returned" /\ headers' = Append(headers, call.block) /\ call'.step = "none"
  BY DEF AppendHeader, bridgeVars, NoCall
<1>2. /\ call.block \in Blocks /\ headers \in Seq(Blocks) /\ Len(leaf_nodes) \in Nat /\ Len(headers) \in Nat
      /\ call.height = Len(leaf_nodes) + Len(headers) /\ call.height < wanted /\ wanted \in Nat
  BY <1>1, LenProperties DEF IInv, Variables, Calls, NextHeight
<1>3. Len(headers') = Len(headers) + 1
  BY <1>1, <1>2, AppendProperties
<1>4. Len(leaf_nodes) + Len(headers') = call.height + 1 /\ call.height + 1 <= wanted
  BY <1>2, <1>3
<1> QED
  BY <1>1, <1>4 DEF Sizes, Had

\* The tree has as many leaves as were wanted, or none more.
LEMMA BuildSizes ==
  ASSUME Sizes, IInv, BuildTree
  PROVE  Sizes'
<1> DEFINE hashes == [i \in DOMAIN headers |-> hash_block_header(headers[i])]
<1>1. /\ UNCHANGED <<node, rpc, hash_cache, call, wanted>> /\ pc = "create" /\ pc' = "idle"
      /\ leaf_nodes' = leaf_nodes \o hashes /\ headers' = << >>
      /\ Len(leaf_nodes) + Len(headers) >= wanted
  BY DEF BuildTree, apiVars, NextHeight
<1>2. /\ headers \in Seq(Blocks) /\ leaf_nodes \in Seq(Leaves) /\ Len(leaf_nodes) \in Nat
      /\ Len(headers) \in Nat /\ DOMAIN headers = 1 .. Len(headers) /\ wanted \in Nat
  BY LenProperties DEF IInv, Variables
<1>3. hashes \in Seq(Leaves) /\ Len(hashes) = Len(headers)
  <2>1. hashes \in [1 .. Len(headers) -> Leaves]
    BY <1>2, ElementOfSeq DEF Leaves
  <2> QED
    BY <2>1, <1>2, SeqDef, LenProperties
<1> HIDE DEF hashes
<1>4. Len(leaf_nodes') = Len(leaf_nodes) + Len(headers)
  <2>1. Len(leaf_nodes \o hashes) = Len(leaf_nodes) + Len(hashes)
    BY <1>2, <1>3, ConcatProperties
  <2> QED
    BY <1>1, <1>3, <2>1
<1>5. Len(leaf_nodes') + Len(headers') = Len(leaf_nodes) + Len(headers)
  <2>1. Len(headers') = 0
    BY <1>1
  <2> QED
    BY <1>2, <1>4, <2>1
<1>6. Len(leaf_nodes') \in Wanted \union {0}
  <2>1. CASE headers = << >>
    <3>1. Len(headers) = 0
      BY <2>1
    <3> QED
      BY <1>2, <1>4, <3>1 DEF Sizes
  <2>2. CASE headers # << >>
    <3> DEFINE l == Len(leaf_nodes)
               h == Len(headers)
    <3>2. l \in Nat /\ h \in Nat /\ wanted \in Nat /\ l + h >= wanted /\ l + h <= wanted
      BY <1>1, <1>2, <2>2 DEF Sizes
    <3> HIDE DEF l, h
    <3>3. l + h = wanted
      BY <3>2
    <3>1. Len(leaf_nodes) + Len(headers) = wanted
      BY <3>3 DEF l, h
    <3> QED
      BY <1>1, <1>4, <3>1 DEF Sizes
  <2> QED
    BY <2>1, <2>2
<1> QED
  BY <1>1, <1>5, <1>6 DEF Sizes, Had

LEMMA ReceiveHashSizes ==
  ASSUME Sizes, IInv, ReceiveHash, UNCHANGED <<pc, wanted, headers, bridgeVars>>
  PROVE  Sizes'
<1>1. /\ UNCHANGED <<node, rpc, pc, wanted, headers, leaf_nodes>>
      /\ call'.height = call.height /\ call.height < Len(best)
      /\ \A h \in DOMAIN hash_cache' : h \in DOMAIN hash_cache \/ h = call.height
  BY DEF ReceiveHash, Exists, bridgeVars, IInv, Variables, Call
<1>2. Had(call.height + 1)
  <2>1. best \in Chains /\ Len(best) \in Nat /\ call.height \in Nat
    BY HeadersBridgeAssumption, LenProperties DEF IInv, Variables
  <2>2. call.height + 1 <= Len(best)
    BY <1>1, <2>1
  <2> QED
    BY <2>1, <2>2 DEF Had
<1> QED
  BY <1>1, <1>2 DEF Sizes, Had

LEMMA SizesNext ==
  ASSUME Sizes, IInv, [Next]_vars
  PROVE  Sizes'
<1>1. CASE StartServer
  <2>1. Len(<< >>) = 0 /\ Had(0)
    <3>1. best \in Chains /\ Len(best) \in Nat
      BY HeadersBridgeAssumption, LenProperties DEF IInv, Variables
    <3> QED
      BY <3>1 DEF Had
  <2> QED
    BY <1>1, <2>1, EmptyDomain DEF StartServer, make_BTCAPI, Sizes, Had, NoCall
<1>2. CASE StopServer \/ CreateFails \/ ServerExits
  BY <1>2, FewerSizes DEF StopServer, CreateFails, ServerExits, bridgeVars, NoCall, Sizes
<1>3. CASE \E height \in Wanted : Create(height)
  <2>1. /\ UNCHANGED <<node, rpc, hash_cache, call, headers, leaf_nodes>>
        /\ headers = << >> /\ pc' = "create" /\ wanted' \in Wanted
    BY <1>3 DEF Create, apiVars, bridgeVars, IInv, Calls
  <2> QED
    BY <2>1 DEF Sizes, Had
<1>4. CASE Reset
  <2>1. /\ UNCHANGED <<node, rpc, hash_cache, call, headers, pc, wanted>>
        /\ headers = << >> /\ pc = "idle" /\ leaf_nodes' = << >> /\ Len(<< >>) = 0
    BY <1>4 DEF Reset, apiVars, IInv, Calls
  <2>2. Had(0)
    <3>1. best \in Chains /\ Len(best) \in Nat
      BY HeadersBridgeAssumption, LenProperties DEF IInv, Variables
    <3> QED
      BY <3>1 DEF Had
  <2> QED
    BY <2>1, <2>2 DEF Sizes, Had
<1>5. CASE FetchHeader
  <2>1. /\ UNCHANGED <<node, hash_cache, pc, wanted, headers, leaf_nodes>>
        /\ rpc' \in {"idle", "waiting"}
        /\ call'.step \notin {"header", "returned"} \/ call'.height \in DOMAIN hash_cache
    BY <1>5 DEF FetchHeader, get_block_header, StartCli, StartEsplora, bridgeVars, IInv, Caches, Sizes
  <2> QED
    BY <2>1, SameSizes DEF Sizes
<1>6. CASE AppendHeader
  BY <1>6, AppendSizes
<1>7. CASE BuildTree
  BY <1>7, BuildSizes
<1>8. CASE Awaits
  <2>1. UNCHANGED <<pc, wanted, headers, bridgeVars>>
    BY <1>8 DEF Awaits
  <2>2. CASE ReceiveHash
    BY <2>1, <2>2, ReceiveHashSizes
  <2>3. CASE ReceiveHeader
    <3>1. /\ UNCHANGED <<node, hash_cache>> /\ rpc' = "idle"
          /\ call.step = "header" /\ call'.height = call.height
      BY <2>3 DEF ReceiveHeader, IInv, Variables, Call
    <3> QED
      BY <2>1, <3>1, SameSizes DEF bridgeVars, Sizes
  <2>4. CASE ErrorAnswer \/ Timeout \/ Unreachable \/ BadStatus
    <3>1. /\ UNCHANGED <<node, hash_cache>> /\ rpc' \in {"idle", rpc}
          /\ call'.step \in {"raised", "exited"}
      BY <2>4 DEF ErrorAnswer, Timeout, Unreachable, BadStatus, IInv, Variables, Call
    <3> QED
      BY <2>1, <3>1, SameSizes DEF bridgeVars, Sizes
  <2> QED
    BY <1>8, <2>2, <2>3, <2>4 DEF Awaits, ApiStep
<1>9. CASE Network
  <2>1. /\ UNCHANGED <<rpc, hash_cache, call, pc, wanted, headers, leaf_nodes>>
        /\ node' \in {"mainnet", "down", node}
    BY <1>9 DEF Network, Reorganise, NodeChanges, CalmDown, bridgeVars
  <2> QED
    BY <2>1, SameSizes DEF Sizes
<1>10. CASE UNCHANGED vars
  BY <1>10, SameSizes DEF vars, apiVars, bridgeVars, Sizes
<1> QED
  BY <1>1, <1>2, <1>3, <1>4, <1>5, <1>6, <1>7, <1>8, <1>9, <1>10 DEF Next

\* In every state the server, its call and its caches are of their types, a call is
\* made only for a request, and there are no more headers than some chain has.
THEOREM StateIsTyped == Spec => []TypeOK
<1>1. IInv /\ Sizes => TypeOK
  BY DEF IInv, Variables, Calls, Caches, Call, Steps, Sizes, Had, TypeOK
<1>2. Spec => []Sizes
  BY SizesInit, SizesNext, InitInv, NextInv, PTL DEF Spec
<1> QED
  BY <1>1, <1>2, BridgeInvariant, PTL
=============================================================================
