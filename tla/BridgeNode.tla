------------------------------ MODULE BridgeNode ----------------------------
(***************************************************************************)
(* The Utreexo bridge node (src/utxo_set/bridge_node.py): an HTTP server   *)
(* that keeps the whole forest in memory and hands out inclusion proofs.   *)
(* It serves one request at a time, so a request is one action.            *)
(*                                                                         *)
(* A Node object is identified with its value: two live objects never have *)
(* the same one, because no leaf is added twice.  Objects that nothing     *)
(* refers to any more are dropped from parent.                             *)
(***************************************************************************)
EXTENDS Forest

VARIABLES
  root_nodes,   \* the roots of the forest; Zero stands for None
  leaf_nodes,   \* the keys of the dictionary of leaves
  parent        \* the attribute of every live Node; Zero stands for None

bridgeVars == <<root_nodes, leaf_nodes, parent>>

BridgeInit ==
  /\ root_nodes = EmptyRoots
  /\ leaf_nodes = {}
  /\ parent = << >>

\* parent_node(l, r): a new node above l and r, as an update of parent.
ParentNode(par, l, r) ==
  [t \in DOMAIN par \union {l, r, Hash(l, r)} |->
    IF t \in {l, r} THEN Hash(l, r) ELSE IF t = Hash(l, r) THEN Zero ELSE par[t]]

\* Node(x): a node of its own, below none.
NewLeaf(par, x) == [t \in DOMAIN par \union {<<x>>} |-> IF t = <<x>> THEN Zero ELSE par[t]]

-----------------------------------------------------------------------------
(* inclusion_proof *)

\* The nodes from leaf x up to the root of its tree, then Zero.
Path(x) ==
  LET up[i \in 0 .. Height + 1] ==
        IF i = 0 THEN <<x>> ELSE IF up[i - 1] = Zero THEN Zero ELSE parent[up[i - 1]]
  IN  up

\* Mutant: the leaf counts as a step of its own path.
PathLenCountsLeaf(x) == Cardinality({i \in DOMAIN Path(x) : Path(x)[i] # Zero})

PathLen(x) == Cardinality({i \in DOMAIN Path(x) : Path(x)[i] # Zero}) - 1

IsLeft(x, i) == Path(x)[i] = Left(Path(x)[i + 1])

ProofOf(x) ==
  [i \in 1 .. PathLen(x) |->
    IF IsLeft(x, i - 1) THEN Right(Path(x)[i]) ELSE Left(Path(x)[i])]

\* Mutant: left and right are confused.
IndexOfMirrored(x) ==
  LET at[i \in 0 .. PathLen(x)] ==
        IF i = PathLen(x) THEN 0 ELSE 2 * at[i + 1] + IF IsLeft(x, i) THEN 1 ELSE 0
  IN  at[0]

IndexOf(x) ==
  LET at[i \in 0 .. PathLen(x)] ==
        IF i = PathLen(x) THEN 0 ELSE 2 * at[i + 1] + IF IsLeft(x, i) THEN 0 ELSE 1
  IN  at[0]

-----------------------------------------------------------------------------
(* GET /add *)

\* The loop of utreexo_add after h rounds, each with a root in the way.
Carried(x) ==
  LET after[h \in 0 .. Height] ==
        IF h = 0 THEN [n |-> <<x>>, parent |-> NewLeaf(parent, x)]
        ELSE LET s == after[h - 1]
                 r == root_nodes[h - 1]
             IN  [n |-> Hash(r, s.n), parent |-> ParentNode(s.parent, r, s.n)]
  IN  after

\* The height where the loop of utreexo_add stops.
FirstFree ==
  CHOOSE h \in 0 .. Height :
    /\ h \in Levels => root_nodes[h] = Zero
    /\ \A i \in 0 .. h - 1 : root_nodes[i] # Zero

\* Mutant: the leaf is not entered in the dictionary.
AddForgetsKey(x) ==
  /\ x \notin leaf_nodes
  /\ leaf_nodes' = leaf_nodes
  /\ parent' = Carried(x)[FirstFree].parent
  /\ root_nodes' = [h \in Levels |-> IF h < FirstFree THEN Zero
                                     ELSE IF h = FirstFree THEN Carried(x)[h].n
                                     ELSE root_nodes[h]]

\* When no height is free, root_nodes[27] raises an IndexError after the roots
\* were taken away: the leaf stays in leaf_nodes, its tree is below no root.
Add(x) ==
  /\ x \notin leaf_nodes
  /\ leaf_nodes' = leaf_nodes \union {x}
  /\ parent' = Carried(x)[FirstFree].parent
  /\ root_nodes' = [h \in Levels |-> IF h < FirstFree THEN Zero
                                     ELSE IF h = FirstFree THEN Carried(x)[h].n
                                     ELSE root_nodes[h]]

\* 'Leaf exists already'
AddExisting(x) == x \in leaf_nodes /\ UNCHANGED bridgeVars

-----------------------------------------------------------------------------
(* GET /delete *)

\* Mutant: root_nodes[h] = None is missing.
UnlinkedKeepsRoot(x) ==
  LET Live == {t \in DOMAIN parent : \A i \in DOMAIN Path(x) : t # Path(x)[i]}
      after[h \in 0 .. PathLen(x)] ==
        IF h = 0 THEN [n |-> Zero, roots |-> root_nodes, parent |-> Restrict(parent, Live)]
        ELSE LET s == after[h - 1]
                 p == ProofOf(x)[h]
                 r == root_nodes[h - 1]
             IN  IF s.n # Zero
                   THEN [s EXCEPT !.n = Hash(p, s.n), !.parent = ParentNode(@, p, s.n)]
                 ELSE IF r = Zero
                   THEN [s EXCEPT !.roots[h - 1] = p, !.parent[p] = Zero]
                 ELSE [n |-> Hash(p, r),
                       roots |-> s.roots,
                       parent |-> ParentNode(s.parent, p, r)]
  IN  after

\* The loop of utreexo_delete after h rounds.
Unlinked(x) ==
  LET Live == {t \in DOMAIN parent : \A i \in DOMAIN Path(x) : t # Path(x)[i]}
      after[h \in 0 .. PathLen(x)] ==
        IF h = 0 THEN [n |-> Zero, roots |-> root_nodes, parent |-> Restrict(parent, Live)]
        ELSE LET s == after[h - 1]
                 p == ProofOf(x)[h]
                 r == root_nodes[h - 1]
             IN  IF s.n # Zero
                   THEN [s EXCEPT !.n = Hash(p, s.n), !.parent = ParentNode(@, p, s.n)]
                 ELSE IF r = Zero
                   THEN [s EXCEPT !.roots[h - 1] = p, !.parent[p] = Zero]
                 ELSE [n |-> Hash(p, r),
                       roots |-> [s.roots EXCEPT ![h - 1] = Zero],
                       parent |-> ParentNode(s.parent, p, r)]
  IN  after

\* A leaf whose tree is below no root has a proof of length 27, and the last
\* assignment raises an IndexError: what the loop did is done.
Delete(x) ==
  /\ x \in leaf_nodes
  /\ leaf_nodes' = leaf_nodes \ {x}
  /\ LET s == Unlinked(x)[PathLen(x)] IN
     /\ root_nodes' = [h \in Levels |-> IF h = PathLen(x) THEN s.n ELSE s.roots[h]]
     /\ parent' = IF s.n = Zero THEN s.parent ELSE [s.parent EXCEPT ![s.n] = Zero]

\* The request is answered with an inclusion proof; otherwise with nothing.
Replies(x) == x \in leaf_nodes /\ PathLen(x) \in Levels

Answer(x) == [leaf_index |-> IndexOf(x), proof |-> ProofOf(x)]

\* KeyError
DeleteMissing(x) == x \notin leaf_nodes /\ UNCHANGED bridgeVars

-----------------------------------------------------------------------------
\* GET /reset, and a server that is stopped and started again.
Reset ==
  /\ root_nodes' = EmptyRoots
  /\ leaf_nodes' = {}
  /\ parent' = << >>

Request(x) == Add(x) \/ AddExisting(x) \/ Delete(x) \/ DeleteMissing(x)

BridgeNext == (\E x \in Leaf : Request(x)) \/ Reset

BridgeSpec == BridgeInit /\ [][BridgeNext]_bridgeVars

-----------------------------------------------------------------------------
(* What every request keeps *)

\* The nodes that no node is above.
Tops(par) == {t \in DOMAIN par : par[t] = Zero}

\* A node is a perfect tree whose children are known by it, and a node that is
\* not a top is a child of its parent.
LinkedNode(par, t) ==
  /\ t \in Node /\ IsInjective(t)
  /\ \E k \in 0 .. Height : Len(t) = 2^k
  /\ par[t] # Zero => /\ par[t] \in DOMAIN par /\ Len(par[t]) = 2 * Len(t)
                      /\ t \in {Left(par[t]), Right(par[t])}
  /\ Len(t) # 1 => \A s \in {Left(t), Right(t)} : s \in DOMAIN par /\ par[s] = t

\* The parent attributes are those of a forest: no leaf is below two nodes of
\* the same height.
Linked(par) ==
  /\ \A t \in DOMAIN par : LinkedNode(par, t)
  /\ \A s, t \in DOMAIN par : s # t /\ Len(s) = Len(t) => Range(s) \intersect Range(t) = {}

\* A root is a top of its height.
RootsAreTops ==
  /\ root_nodes \in [Levels -> Node]
  /\ \A h \in Levels : root_nodes[h] # Zero => root_nodes[h] \in Tops(parent) /\ Len(root_nodes[h]) = 2^h

\* A top that is no root is a tree that ran out of roots.
TopsAreRoots ==
  \A t \in Tops(parent) : Len(t) = 2^Height \/ \E h \in Levels : t = root_nodes[h]

\* The keys of the dictionary are the leaves of the forest.
KeysAreLeaves ==
  /\ IsFiniteSet(leaf_nodes)
  /\ leaf_nodes = {x \in Leaf : <<x>> \in DOMAIN parent}

BridgeInv == Linked(parent) /\ RootsAreTops /\ TopsAreRoots /\ KeysAreLeaves

-----------------------------------------------------------------------------
\* As long as there are roots enough, the forest consists of one perfect tree
\* for every bit of the number of leaves, and each leaf of the dictionary is in
\* exactly one of them.  It fails after a carry that ran out of roots, and
\* holds again once the surplus leaf was deleted.
ForestPerfect ==
  Cardinality(leaf_nodes) < 2^Height =>
    /\ \A h \in Levels : root_nodes[h] # Zero => Len(root_nodes[h]) = 2^h
    /\ DistinctLeaves(root_nodes)
    /\ LeavesOf(root_nodes) = leaf_nodes

\* The root an inclusion proof leads to (_utreexo_prove_inclusion_loop).
ProofRoot(x, answer) ==
  LET node[i \in 0 .. Len(answer.proof)] ==
        IF i = 0 THEN <<x>>
        ELSE IF (answer.leaf_index \div 2^(i - 1)) % 2 = 0
             THEN Hash(node[i - 1], answer.proof[i])
             ELSE Hash(answer.proof[i], node[i - 1])
  IN  node[Len(answer.proof)]

\* Whatever was added and deleted before, the parent pointers of every leaf
\* lead to a proof that the accumulator's check accepts against the roots.
ProofsVerify ==
  \A x \in leaf_nodes :
    Replies(x) => ProofRoot(x, Answer(x)) = root_nodes[PathLen(x)]

\* Only the leaves of a tree that ran out of roots get no proof.
EveryLeafProvable ==
  Cardinality(leaf_nodes) < 2^Height => \A x \in leaf_nodes : Replies(x)
=============================================================================
