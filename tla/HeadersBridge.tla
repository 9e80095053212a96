---------------------------- MODULE HeadersBridge ---------------------------
(***************************************************************************)
(* The bridge node of the headers chain proof                              *)
(* (src/headers_chain_proof/bridge_node.py): a server that fetches headers,*)
(* builds a Merkle tree over their hashes and hands out paths in it.  It   *)
(* serves one request at a time; fetching a header takes several steps     *)
(* (BitcoinApi), during which the chain may change.                        *)
(***************************************************************************)
EXTENDS BitcoinApi, SequencesExt

CONSTANT Wanted   \* the heights clients ask /create for

Choice == UNION {Range(chain) : chain \in Chains}

ASSUME HeadersBridgeAssumption == Chains \subseteq Seq(Choice) /\ Wanted \subseteq Nat

VARIABLES
  pc,               \* "off", "idle", or "create" while /create is being served
  wanted, headers,  \* of that request: its height, and the headers it has so far
  leaf_nodes,       \* the hashes of the leaves
  tree,             \* the Node objects of the last build_tree, row by row
  lowest_null_node, \* its row in tree, or NoRow
  root,
  mixed             \* history: the chain has changed since a header was fetched

bridgeVars == <<leaf_nodes, tree, lowest_null_node, root>>
vars == <<apiVars, pc, wanted, headers, bridgeVars, mixed>>

\* Felts: terms of three lengths.
NullHash == <<"0">>
hash_block_header(block) == <<"header", block>>
pedersen_hash(x, y) == <<"node", x, y>>

NoRow == 0

BridgeInit ==
  /\ leaf_nodes = << >>
  /\ tree = << << >> >> /\ lowest_null_node = NoRow
  /\ root = NullHash

Init ==
  /\ ApiInit /\ BridgeInit
  /\ pc = "off" /\ wanted = 0 /\ headers = << >> /\ mixed = FALSE

-----------------------------------------------------------------------------
(* build_tree; rows and positions count from 1 and 0 *)

\* Mutant: the null node is put in front.
PaddedInFront(row) == IF Len(row) > 1 /\ Len(row) % 2 = 1 THEN <<NullHash>> \o row ELSE row

Padded(row) == IF Len(row) > 1 /\ Len(row) % 2 = 1 THEN Append(row, NullHash) ELSE row

PairUp(row) == [i \in 1 .. Len(row) \div 2 |-> pedersen_hash(row[2 * i - 1], row[2 * i])]

\* The rows above n leaves, and that of the leaves.
Depth(n) == CHOOSE d \in 1 .. n + 1 : 2^(d - 1) >= n /\ (d > 1 => 2^(d - 2) < n)

Tree(leaves) ==
  LET row[k \in 1 .. Depth(Len(leaves))] ==
        IF k = 1 THEN Padded(leaves) ELSE Padded(PairUp(row[k - 1]))
  IN  row

LowestNull(leaves) ==
  LET t == Tree(leaves)
      odd == {k \in DOMAIN t : t[k] # << >> /\ Last(t[k]) = NullHash}
  IN  IF odd = {} THEN NoRow ELSE CHOOSE k \in odd : \A j \in odd : k <= j

RootOf(t) == IF Last(t) = << >> THEN NullHash ELSE Last(t)[1]

\* inclusion_proof of the node in row k at position i: the other child, row by row.
inclusion_proof(k, i) ==
  [j \in 1 .. Len(tree) - k |->
    LET at == i \div 2^(j - 1)
    IN  tree[k + j - 1][IF at % 2 = 0 THEN at + 2 ELSE at]]

-----------------------------------------------------------------------------
(* The server *)

StartServer ==
  /\ pc = "off"
  /\ make_BTCAPI
  /\ pc' = "idle" /\ headers' = << >> /\ mixed' = FALSE
  /\ leaf_nodes' = << >> /\ tree' = << << >> >> /\ lowest_null_node' = NoRow /\ root' = NullHash
  /\ UNCHANGED wanted

StopServer ==
  /\ ~calm /\ pc # "off"
  /\ pc' = "off" /\ headers' = << >> /\ call' = NoCall
  /\ UNCHANGED <<best, node, api, rpc, hash_cache, header_cache, calm, wanted, bridgeVars, mixed>>

\* GET /create/{height}
Create(height) ==
  /\ pc = "idle"
  /\ pc' = "create" /\ wanted' = height
  /\ UNCHANGED <<apiVars, headers, bridgeVars, mixed>>

\* Mutant: the headers are always fetched from the first one.
NextFromGenesis == Len(headers)

\* The loop of get_block_headers(len(leaf_nodes), wanted).
NextHeight == Len(leaf_nodes) + Len(headers)

FetchHeader ==
  /\ pc = "create" /\ NextHeight < wanted
  /\ get_block_header(NextHeight)
  /\ UNCHANGED <<pc, wanted, headers, bridgeVars, mixed>>

AppendHeader ==
  /\ call.step = "returned"
  /\ headers' = Append(headers, call.block) /\ call' = NoCall
  /\ UNCHANGED <<best, node, api, rpc, hash_cache, header_cache, calm, pc, wanted, bridgeVars, mixed>>

\* add_nodes and build_tree.  The test for an existing leaf compares a number with
\* Node objects, and is never true.
BuildTree ==
  /\ pc = "create" /\ NextHeight >= wanted
  /\ leaf_nodes' = leaf_nodes \o [i \in DOMAIN headers |-> hash_block_header(headers[i])]
  /\ tree' = Tree(leaf_nodes')
  /\ lowest_null_node' = LowestNull(leaf_nodes')
  /\ root' = RootOf(tree')
  /\ pc' = "idle" /\ headers' = << >>
  /\ UNCHANGED <<apiVars, wanted, mixed>>

\* An exception in a handler ends the request, and its answer is empty.
CreateFails ==
  /\ call.step = "raised"
  /\ pc' = "idle" /\ headers' = << >> /\ call' = NoCall
  /\ UNCHANGED <<best, node, api, rpc, hash_cache, header_cache, calm, wanted, bridgeVars, mixed>>

\* SystemExit is no Exception: it ends the server.
ServerExits ==
  /\ call.step = "exited"
  /\ pc' = "off" /\ headers' = << >> /\ call' = NoCall
  /\ UNCHANGED <<best, node, api, rpc, hash_cache, header_cache, calm, wanted, bridgeVars, mixed>>

\* Mutant: the root is dropped as well, but not the null node.
ResetDropsRoot ==
  /\ pc = "idle"
  /\ leaf_nodes' = << >> /\ root' = NullHash
  /\ mixed' = (mixed /\ api = "esplora")
  /\ UNCHANGED <<apiVars, pc, wanted, headers, tree, lowest_null_node>>

\* GET /reset: the root, the tree and lowest_null_node stay.
Reset ==
  /\ pc = "idle"
  /\ leaf_nodes' = << >>
  /\ mixed' = (mixed /\ api = "esplora")
  /\ UNCHANGED <<apiVars, pc, wanted, headers, tree, lowest_null_node, root>>

Fetched == leaf_nodes # << >> \/ headers # << >> \/ call.block # NoBlock \/ hash_cache # << >>

\* Around the server.
Network ==
  \/ Reorganise /\ mixed' = (mixed \/ Fetched) /\ UNCHANGED <<pc, wanted, headers, bridgeVars>>
  \/ (NodeChanges \/ CalmDown) /\ UNCHANGED <<pc, wanted, headers, bridgeVars, mixed>>

Awaits == ApiStep /\ UNCHANGED <<pc, wanted, headers, bridgeVars, mixed>>

Next ==
  \/ StartServer \/ StopServer
  \/ \E height \in Wanted : Create(height)
  \/ Reset
  \/ FetchHeader \/ AppendHeader \/ BuildTree \/ CreateFails \/ ServerExits
  \/ Awaits
  \/ Network

\* A step of BuildTree, by its control alone.
CreateReturns == pc = "create" /\ NextHeight >= wanted /\ pc' = "idle"

\* The server is a process that runs, and a request to a node that answers is
\* answered; nobody has to send a request or start the server.
Fairness ==
  /\ WF_vars(FetchHeader) /\ WF_vars(Awaits) /\ WF_vars(AppendHeader)
  /\ WF_pc(CreateReturns) /\ WF_vars(CreateFails \/ ServerExits)

Spec == Init /\ [][Next]_vars /\ Fairness

-----------------------------------------------------------------------------
\* verify_inclusion_proof, for a path that begins with the leaf.
verify_inclusion_proof(index, path) ==
  LET hash[j \in 1 .. Len(path)] ==
        IF j = 1 THEN path[1]
        ELSE IF (index \div 2^(j - 2)) % 2 = 0 THEN pedersen_hash(hash[j - 1], path[j])
        ELSE pedersen_hash(path[j], hash[j - 1])
  IN  hash[Len(path)] = root

TypeOK ==
  /\ best \in Chains /\ node \in {"mainnet", "unfit", "down"} /\ api \in {"cli", "esplora"}
  /\ rpc \in {"idle", "waiting"} /\ header_cache \subseteq DOMAIN hash_cache
  /\ call.step \in {"none", "hash", "header", "returned", "raised", "exited"}
  /\ call.step # "none" => pc = "create"
  /\ pc \in {"off", "idle", "create"} /\ wanted \in Wanted \union {0}
  /\ Len(leaf_nodes) \in Wanted \union {0}
  /\ \E chain \in Chains : Len(leaf_nodes) + Len(headers) <= Len(chain)

\* Whatever was created on top of what, the path of every leaf leads to the root
\* the server hands out with it, however many null nodes are in the tree.
PathsLeadToRoot ==
  pc = "idle" => \A i \in 0 .. Len(leaf_nodes) - 1 :
    verify_inclusion_proof(i, <<leaf_nodes[i + 1]>> \o inclusion_proof(1, i))

\* GET /merkle_path/{len(leaf_nodes)} is answered with the path of the lowest null
\* node, after a reset too, which drops the leaves but keeps the node: its path
\* leads to the root the server has.  While there are leaves, the node is the first
\* one behind the last leaf on its row: a proof that there is nothing at this index.
NullPathIsBehindLastLeaf ==
  pc = "idle" =>
    /\ lowest_null_node # NoRow =>
         LET at == Len(tree[lowest_null_node]) - 1
         IN  verify_inclusion_proof(at, <<NullHash>> \o inclusion_proof(lowest_null_node, at))
    /\ leaf_nodes # << >> =>
         IF lowest_null_node = NoRow
           THEN \E k \in 0 .. Len(leaf_nodes) : Len(leaf_nodes) = 2^k
           ELSE Len(leaf_nodes) = (Len(tree[lowest_null_node]) - 1) * 2^(lowest_null_node - 1)

\* The leaves are the first headers of one chain, in order, each once, unless the
\* chain has changed: with BitcoinCLI since the last reset, with Esplora, whose
\* hashes are cached by height, since the server was started.
LeavesAreOneChain ==
  ~mixed /\ pc # "off" =>
    /\ \A i \in DOMAIN leaf_nodes : leaf_nodes[i] = hash_block_header(BlockAt(i - 1))
    /\ \A i \in DOMAIN headers : headers[i] = BlockAt(Len(leaf_nodes) + i - 1)

\* Whatever failed and timed out before: once nothing fails any more, a client
\* that resets the server and asks for headers there are gets the best chain's,
\* unless Esplora's cache has hashes of an earlier one.
CreateServesBestChain ==
  calm /\ Answers /\ ~mixed /\ pc = "create" /\ wanted <= Len(best)
  /\ leaf_nodes = << >> /\ headers = << >> /\ call = NoCall ~>
    /\ pc = "idle" /\ wanted <= Len(best)
    /\ leaf_nodes = [i \in 1 .. wanted |-> hash_block_header(BlockAt(i - 1))]
=============================================================================
