----------------------------- MODULE UtxoProver -----------------------------
(***************************************************************************)
(* A chain-proof run and the bridge node it talks to: the accumulator of   *)
(* the Cairo program, whose hints send GET /add and GET /delete            *)
(* (src/utxo_set/utxo_set.cairo, utreexo.cairo), the server that answers,  *)
(* and what may happen around them: the server is stopped and loses its    *)
(* forest, another client (a test, a benchmark, a second driver) uses it,  *)
(* the run is killed, the driver (src/chain_proof/main.py) is run again.   *)
(***************************************************************************)
EXTENDS Utreexo, BridgeNode

VARIABLES
  up,      \* the bridge node is running
  excuse   \* history: since the driver was started, something happened that may
           \* make an honest run fail

vars == <<cairoVars, bridgeVars, up, excuse>>

ProverInit == Init /\ BridgeInit /\ up = TRUE /\ excuse = FALSE

\* The forest has a tree at every height.
Full == Cardinality(LeavesOf(roots)) = 2^Height - 1

-----------------------------------------------------------------------------
(* The Cairo run *)

\* utxo_set_insert: GET /add, whose answer is ignored, then utreexo_add.
Insert(x) ==
  /\ up
  /\ StartAdd(x)
  /\ Add(x) \/ AddExisting(x)
  /\ excuse' = (excuse \/ Full \/ x \in LeavesOf(roots))
  /\ UNCHANGED up

\* The request of utxo_set_insert is not answered: the hint raises.
InsertUnconnected ==
  /\ ~up
  /\ pc = "idle"
  /\ Abort
  /\ UNCHANGED <<bridgeVars, up, excuse>>

\* utxo_set_extract.  An invalid block may try to spend any output.
Extract(x) ==
  /\ StartDelete(x)
  /\ excuse' = (excuse \/ x \notin LeavesOf(roots))
  /\ UNCHANGED <<bridgeVars, up>>

\* GET /delete: the bridge node has already deleted the leaf when the Cairo
\* program checks the proof.
FetchProof ==
  /\ up
  /\ Delete(leaf)
  /\ IF Replies(leaf) THEN Fetch(Answer(leaf)) ELSE FetchFails
  /\ UNCHANGED <<up, excuse>>

\* The request raised a KeyError in the handler: the body of the answer is empty.
FetchMissing ==
  /\ up
  /\ DeleteMissing(leaf)
  /\ FetchFails
  /\ UNCHANGED <<up, excuse>>

FetchUnconnected ==
  /\ ~up
  /\ FetchFails
  /\ UNCHANGED <<bridgeVars, up, excuse>>

Run == Compute /\ UNCHANGED <<bridgeVars, up, excuse>>

-----------------------------------------------------------------------------
(* The world around it *)

Kill ==
  /\ pc # "aborted"
  /\ Abort
  /\ excuse' = TRUE
  /\ UNCHANGED <<bridgeVars, up>>

\* main.py: GET /reset, then the genesis state is copied to chain_state.json.
StartDriver ==
  /\ up
  /\ pc = "aborted"
  /\ Restart
  /\ Reset
  /\ excuse' = FALSE
  /\ UNCHANGED up

BridgeStops ==
  /\ up
  /\ up' = FALSE
  /\ Reset
  /\ excuse' = TRUE
  /\ UNCHANGED cairoVars

BridgeStarts ==
  /\ ~up
  /\ up' = TRUE
  /\ UNCHANGED <<cairoVars, bridgeVars, excuse>>

OtherClient ==
  /\ up
  /\ BridgeNext
  /\ excuse' = TRUE
  /\ UNCHANGED <<cairoVars, up>>

ProverStep ==
  \/ \E x \in Leaf : Insert(x) \/ Extract(x)
  \/ InsertUnconnected
  \/ FetchProof \/ FetchMissing \/ FetchUnconnected
  \/ Run
  \/ StartDriver

Faults == Kill \/ BridgeStops \/ BridgeStarts \/ OtherClient

ProverNext == ProverStep \/ Faults

\* A request is answered or refused at once, and a run that has what it needs
\* goes on: the runner is a process that nothing in the program suspends.
ProverSpec ==
  /\ ProverInit /\ [][ProverNext]_vars
  /\ WF_vars(Run) /\ WF_vars(FetchProof \/ FetchMissing \/ FetchUnconnected)

-----------------------------------------------------------------------------
\* Between two operations of an undisturbed run the bridge node's roots are the
\* accumulator's: the two implementations of the carry and delete loops agree.
Lockstep == pc = "idle" /\ ~excuse => root_nodes = roots

\* During an operation the bridge node is exactly one request ahead: it holds
\* the leaf being added, and no longer holds the leaf being deleted.
OneRequestAhead ==
  ~excuse =>
    leaf_nodes = CASE pc = "add" -> LeavesOf(roots) \union {leaf}
                   [] pc \in {"prove", "delete"} -> LeavesOf(roots) \ {leaf}
                   [] pc \in {"idle", "fetch"} -> LeavesOf(roots)
                   [] OTHER -> leaf_nodes

\* Every inclusion proof of an undisturbed bridge node is accepted and every
\* operation finds room: the run of a valid chain does not abort.
ValidRunNeverAborts == pc = "aborted" => excuse

\* The loops of an operation end, whatever proof they were given.
OperationEnds == pc # "idle" ~> pc \in {"idle", "aborted"}
=============================================================================
