------------------------------- MODULE Forest -------------------------------
(***************************************************************************)
(* The nodes of a Utreexo forest, as the Cairo accumulator and the bridge  *)
(* node both see them.                                                     *)
(*                                                                         *)
(* The hash of a perfect tree is represented by the sequence of the leaves *)
(* below it, so hashing two nodes is concatenation.  For nodes of equal    *)
(* height, the only ones the program ever hashes, this is the usual        *)
(* symbolic hash: Hash(a, b) = Hash(c, d) iff a = c and b = d.  That only  *)
(* equal heights meet is itself checked (BridgeNode!ForestPerfect).        *)
(***************************************************************************)
EXTENDS Integers, Sequences, FiniteSets, Functions

CONSTANTS
  Leaf,    \* hashes of unspent outputs (hash_output), all distinct
  Height   \* UTREEXO_ROOTS_LEN: the number of roots the forest has room for

ASSUME HeightAssumption == Height \in Nat \ {0}

\* The heights that have a root: the indices of the array of roots.
Levels == 0 .. Height - 1

\* A felt that is a node's hash, or 0 (Python: None) where there is no node.
Node == Seq(Leaf)
Zero == << >>

Hash(l, r) == l \o r

\* The children of a node that is not a leaf.
Left(t)  == SubSeq(t, 1, Len(t) \div 2)
Right(t) == SubSeq(t, Len(t) \div 2 + 1, Len(t))

\* utreexo_init: an array of UTREEXO_ROOTS_LEN zeros.
EmptyRoots == [h \in Levels |-> Zero]

\* The leaves below the trees of an array of roots.
LeavesOf(trees) == UNION {Range(trees[h]) : h \in DOMAIN trees}

\* No leaf is below two of the trees, nor twice below one.
DistinctLeaves(trees) ==
  /\ \A i \in DOMAIN trees : IsInjective(trees[i])
  /\ \A i, j \in DOMAIN trees : i # j => Range(trees[i]) \intersect Range(trees[j]) = {}
=============================================================================
