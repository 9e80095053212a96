----------------------------- MODULE BitcoinApi -----------------------------
(***************************************************************************)
(* One call of get_block_header (src/utils/btc_api.py), request by         *)
(* request, with the JSON-RPC client below it (src/utils/authproxy.py) and *)
(* the best chain, which may change between two requests.                  *)
(*                                                                         *)
(* A block is named by the chain up to it, and its header and its hash are *)
(* the block.  Height h has the block of h + 1 choices.                    *)
(***************************************************************************)
EXTENDS Naturals, Sequences

CONSTANT Chains   \* the chains the network may agree on, sequences of choices

VARIABLES
  best,         \* the chain it agrees on now
  node,         \* the local bitcoind: "mainnet", "down", or "unfit": another
                \* chain, or too short, or without -txindex
  api,          \* the class make_BTCAPI chose: "cli" or "esplora"
  rpc,          \* BitcoinCLI.rpc: whether its connection still waits for an answer
  hash_cache,   \* EsplorerAPI.get_block_hash: the cached blocks, by height
  header_cache, \* EsplorerAPI.get_block_header_raw: the cached heights
  call,         \* the call that is being made
  calm          \* from now on nothing fails

apiVars == <<best, node, api, rpc, hash_cache, header_cache, call, calm>>

NoBlock == << >>
NoCall == [step |-> "none", height |-> 0, block |-> NoBlock]

BlockAt(height) == SubSeq(best, 1, height + 1)
Exists(height) == height < Len(best)

ApiInit ==
  /\ best \in Chains
  /\ node \in {"mainnet", "unfit", "down"}
  /\ api = "cli" /\ rpc = "idle"
  /\ hash_cache = << >> /\ header_cache = {}
  /\ call = NoCall
  /\ calm = FALSE

\* make_BTCAPI: a wrong answer and no answer both lead to Esplora, for as long as
\* the process lives.
make_BTCAPI ==
  /\ api' = IF node = "mainnet" THEN "cli" ELSE "esplora"
  /\ rpc' = "idle"
  /\ hash_cache' = << >> /\ header_cache' = {}
  /\ call' = NoCall
  /\ UNCHANGED <<best, node, calm>>

-----------------------------------------------------------------------------
(* get_block_header *)

\* Mutant: one connection for all calls.
SameConnection == rpc

\* BitcoinCLI.get_block_hash makes a new AuthServiceProxy, with a new connection.
NewConnection == "idle"

\* A connection that waits for an answer takes no other request (CannotSendRequest).
StartCli(height) ==
  /\ api = "cli"
  /\ call' = [step |-> IF NewConnection = "idle" THEN "hash" ELSE "raised",
              height |-> height, block |-> NoBlock]
  /\ rpc' = "waiting"
  /\ UNCHANGED <<hash_cache, header_cache>>

StartEsplora(height) ==
  /\ api = "esplora"
  /\ call' = IF height \in header_cache
               THEN [step |-> "returned", height |-> height, block |-> hash_cache[height]]
             ELSE IF height \in DOMAIN hash_cache
               THEN [step |-> "header", height |-> height, block |-> hash_cache[height]]
             ELSE [step |-> "hash", height |-> height, block |-> NoBlock]
  /\ UNCHANGED <<rpc, hash_cache, header_cache>>

get_block_header(height) ==
  /\ call.step = "none"
  /\ StartCli(height) \/ StartEsplora(height)
  /\ UNCHANGED <<best, node, api, calm>>

Answers == api = "cli" => node = "mainnet"

\* The second request of the CLI goes over the same connection.
ReceiveHash ==
  /\ call.step = "hash" /\ Answers /\ Exists(call.height)
  /\ call' = [call EXCEPT !.step = "header", !.block = BlockAt(call.height)]
  /\ hash_cache' = IF api = "cli" THEN hash_cache
                   ELSE [h \in DOMAIN hash_cache \union {call.height} |->
                          IF h = call.height THEN BlockAt(h) ELSE hash_cache[h]]
  /\ UNCHANGED <<best, node, api, rpc, header_cache, calm>>

ReceiveHeader ==
  /\ call.step = "header" /\ Answers
  /\ call' = [call EXCEPT !.step = "returned"]
  /\ rpc' = "idle"
  /\ header_cache' = IF api = "cli" THEN header_cache ELSE header_cache \union {call.height}
  /\ UNCHANGED <<best, node, api, hash_cache, calm>>

Asking == call.step \in {"hash", "header"}

\* Nothing has this height, or this hash any more.
NotFound ==
  \/ call.step = "hash" /\ ~Exists(call.height)
  \/ call.step = "header" /\ call.block # BlockAt(call.height)

\* An answer with an error, with no result, that is not JSON, or with another
\* status than 200: JSONRPCException.
ErrorAnswer ==
  /\ Asking /\ api = "cli"
  /\ ~calm \/ NotFound
  /\ call' = [call EXCEPT !.step = "raised"]
  /\ rpc' = "idle"
  /\ UNCHANGED <<best, node, api, hash_cache, header_cache, calm>>

\* The answer takes longer than HTTP_TIMEOUT, or nobody takes the request: the
\* connection is left as it is.
Timeout ==
  /\ Asking /\ api = "cli" /\ (~calm \/ ~Answers)
  /\ call' = [call EXCEPT !.step = "raised"]
  /\ UNCHANGED <<best, node, api, rpc, hash_cache, header_cache, calm>>

\* urllib3 finds no server: MaxRetryError.
Unreachable ==
  /\ Asking /\ api = "esplora" /\ ~calm
  /\ call' = [call EXCEPT !.step = "raised"]
  /\ UNCHANGED <<best, node, api, rpc, hash_cache, header_cache, calm>>

\* exit(-1)
BadStatus ==
  /\ Asking /\ api = "esplora"
  /\ ~calm \/ NotFound
  /\ call' = [call EXCEPT !.step = "exited"]
  /\ UNCHANGED <<best, node, api, rpc, hash_cache, header_cache, calm>>

-----------------------------------------------------------------------------
(* The network. *)

Reorganise ==
  /\ ~calm
  /\ \E chain \in Chains \ {best} : best' = chain
  /\ UNCHANGED <<node, api, rpc, hash_cache, header_cache, call, calm>>

NodeChanges ==
  /\ ~calm
  /\ \E other \in {"mainnet", "down"} \ {node} : node' = other
  /\ UNCHANGED <<best, api, rpc, hash_cache, header_cache, call, calm>>

CalmDown ==
  /\ ~calm /\ calm' = TRUE
  /\ UNCHANGED <<best, node, api, rpc, hash_cache, header_cache, call>>

\* What the API's caller waits for, as far as it comes.
ApiStep == ReceiveHash \/ ReceiveHeader \/ ErrorAnswer \/ Timeout \/ Unreachable \/ BadStatus
=============================================================================
