------------------------- MODULE UtxoProverProofs ---------------------------
(***************************************************************************)
(* Proofs about the bridge node, and about the accumulator, alone and with *)
(* its bridge node.                                                        *)
(*   - Whatever is added and deleted, the bridge node's linked objects are *)
(*     a forest of perfect trees, and its inclusion proofs lead to a root. *)
(*   - Every action of Utreexo preserves the invariant of its loops, and a *)
(*     step that returns changes the set of leaves by the one leaf it was  *)
(*     called for.  So the accumulator is a set of outputs whatever        *)
(*     inclusion proofs it is given, for any number of outputs and of      *)
(*     roots; and this survives all that the bridge node, its other        *)
(*     clients and the operator may do.                                    *)
(*   - When outputs are created again while they are unspent it is a bag:  *)
(*     each operation counts one occurrence of its leaf up or down.        *)
(***************************************************************************)
EXTENDS AnyBridge, UtxoProver, DataLemmas


-----------------------------------------------------------------------------
(* Nodes and their children *)

\* A node of even size has two children of half its size and shares its leaves
\* out between them.
LEMMA Children ==
  ASSUME NEW t \in Node, NEW m \in Nat, Len(t) = 2 * m
  PROVE  /\ Left(t) \in Node /\ Len(Left(t)) = m
         /\ Right(t) \in Node /\ Len(Right(t)) = m
         /\ t = Hash(Left(t), Right(t))
         /\ Range(t) = Range(Left(t)) \union Range(Right(t))
         /\ IsInjective(t) => /\ IsInjective(Left(t)) /\ IsInjective(Right(t))
                              /\ Range(Left(t)) \intersect Range(Right(t)) = {}
<1>1. /\ Left(t) \in Node /\ Len(Left(t)) = m /\ Right(t) \in Node /\ Len(Right(t)) = m
      /\ t = Left(t) \o Right(t)
  BY Halves DEF Node, Left, Right
<1>2. ASSUME NEW l \in Node, NEW r \in Node, t = l \o r
      PROVE  /\ Range(t) = Range(l) \union Range(r)
             /\ IsInjective(t) => /\ IsInjective(l) /\ IsInjective(r)
                                  /\ Range(l) \intersect Range(r) = {}
  BY <1>2, ConcatRange, ConcatInjective DEF Node
<1> QED
  BY <1>1, <1>2 DEF Hash

\* The hash of two nodes of one size is a node with these children.
LEMMA HashOfEquals ==
  ASSUME NEW l \in Node, NEW r \in Node, Len(l) = Len(r)
  PROVE  /\ Hash(l, r) \in Node /\ Len(Hash(l, r)) = 2 * Len(l)
         /\ Left(Hash(l, r)) = l /\ Right(Hash(l, r)) = r
         /\ Range(Hash(l, r)) = Range(l) \union Range(r)
         /\ IsInjective(Hash(l, r)) <=>
              IsInjective(l) /\ IsInjective(r) /\ Range(l) \intersect Range(r) = {}
<1>1. /\ Hash(l, r) \in Node /\ Len(Hash(l, r)) = Len(l) + Len(r) /\ Len(l) \in Nat
  BY ConcatProperties, LenProperties DEF Node, Hash
<1>2. Left(Hash(l, r)) = l /\ Right(Hash(l, r)) = r
  BY HalvesOfConcat DEF Node, Hash, Left, Right
<1>3. Range(Hash(l, r)) = Range(l) \union Range(r)
  BY ConcatRange DEF Node, Hash
<1>4. IsInjective(Hash(l, r)) <=>
        IsInjective(l) /\ IsInjective(r) /\ Range(l) \intersect Range(r) = {}
  BY ConcatInjective DEF Node, Hash
<1> QED
  BY <1>1, <1>2, <1>3, <1>4

\* A node has a leaf unless it is Zero; a leaf alone is a node of size 1.
LEMMA NodeSize ==
  ASSUME NEW t \in Node
  PROVE  /\ Len(t) \in Nat /\ (t = Zero <=> Len(t) = 0) /\ Range(t) \subseteq Leaf
         /\ Len(t) # 0 => Range(t) # {}
         /\ Len(t) = 1 => \E x \in Leaf : t = <<x>> /\ Range(t) = {x}
<1>1. Len(t) \in Nat /\ t \in [1 .. Len(t) -> Leaf] /\ DOMAIN t = 1 .. Len(t)
  BY LenProperties DEF Node
<1>2. t = Zero <=> Len(t) = 0
  BY <1>1, SeqEqual, EmptySeq DEF Node, Zero
<1>3. Range(t) \subseteq Leaf /\ (Len(t) # 0 => Range(t) # {})
  <2>1. Len(t) # 0 => 1 \in DOMAIN t
    BY <1>1
  <2> QED
    BY <1>1, <2>1 DEF Range
<1>4. ASSUME Len(t) = 1 PROVE \E x \in Leaf : t = <<x>> /\ Range(t) = {x}
  <2>1. t[1] \in Leaf /\ DOMAIN t = {1}
    BY <1>1, <1>4
  <2>2. <<t[1]>> \in Seq(Leaf) /\ Len(<<t[1]>>) = 1 /\ <<t[1]>>[1] = t[1]
    BY <2>1
  <2>3. t = <<t[1]>>
    BY <1>1, <1>4, <2>2, SeqEqual DEF Node
  <2>4. Range(t) = {t[1]}
    BY <2>1 DEF Range
  <2> QED
    BY <2>1, <2>3, <2>4
<1> QED
  BY <1>1, <1>2, <1>3, <1>4

\* The tree of one leaf.
LEMMA LeafAlone ==
  ASSUME NEW x \in Leaf
  PROVE  <<x>> \in Node /\ Len(<<x>>) = 1 /\ Range(<<x>>) = {x} /\ IsInjective(<<x>>) /\ <<x>> # Zero
  BY DEF Node, Range, IsInjective, Zero

\* A node of a forest has the size of a level.
LEMMA SizeOfLinked ==
  ASSUME NEW par, Linked(par), NEW t \in DOMAIN par
  PROVE  /\ t \in Node /\ t # Zero /\ IsInjective(t) /\ Len(t) \in Nat \ {0}
         /\ \E k \in 0 .. Height : Len(t) = 2^k
<1>1. t \in Node /\ IsInjective(t)
  BY DEF Linked, LinkedNode
<1>2. PICK k \in 0 .. Height : Len(t) = 2^k
  BY DEF Linked, LinkedNode
<1>3. 2^k \in Nat \ {0}
  BY <1>2, HeightAssumption, PowersOfTwo
<1>4. t # Zero
  BY <1>1, <1>2, <1>3, NodeSize
<1> QED
  BY <1>1, <1>2, <1>3, <1>4

\* A node above the leaves has both its children in the forest.
LEMMA ChildrenOfLinked ==
  ASSUME NEW par, Linked(par), NEW t \in DOMAIN par, NEW i \in Nat, Len(t) = 2^(i + 1)
  PROVE  /\ Left(t) \in DOMAIN par /\ par[Left(t)] = t /\ Len(Left(t)) = 2^i
         /\ Right(t) \in DOMAIN par /\ par[Right(t)] = t /\ Len(Right(t)) = 2^i
         /\ t = Hash(Left(t), Right(t))
         /\ Range(t) = Range(Left(t)) \union Range(Right(t))
         /\ Range(Left(t)) \intersect Range(Right(t)) = {}
<1>1. 2^(i + 1) = 2 * 2^i /\ 2^i \in Nat \ {0}
  BY PowersOfTwo
<1>2. t \in Node /\ IsInjective(t)
  BY SizeOfLinked
<1>3. Len(t) # 1
  BY <1>1
<1>4. /\ Left(t) \in DOMAIN par /\ par[Left(t)] = t
      /\ Right(t) \in DOMAIN par /\ par[Right(t)] = t
  BY <1>3 DEF Linked, LinkedNode
<1> QED
  BY <1>1, <1>2, <1>4, Children

\* The parent of a node is one level higher and above the same leaves.
LEMMA ParentOfLinked ==
  ASSUME NEW par, Linked(par), NEW s \in DOMAIN par, par[s] # Zero, NEW i \in Nat, Len(s) = 2^i
  PROVE  /\ par[s] \in DOMAIN par /\ Len(par[s]) = 2^(i + 1)
         /\ s \in {Left(par[s]), Right(par[s])}
         /\ Range(s) \subseteq Range(par[s])
<1>1. PICK t \in DOMAIN par : t = par[s] /\ Len(t) = 2 * Len(s) /\ (s = Left(t) \/ s = Right(t))
  BY DEF Linked, LinkedNode
<1>2. Len(t) = 2^(i + 1)
  BY <1>1, PowersOfTwo
<1>3. Range(Left(t)) \subseteq Range(t) /\ Range(Right(t)) \subseteq Range(t)
  <2>1. Range(t) = Range(Left(t)) \union Range(Right(t))
    BY <1>2, ChildrenOfLinked
  <2> QED
    BY <2>1
<1>4. Range(s) \subseteq Range(t)
  <2>1. CASE s = Left(t)
    BY <1>3, <2>1
  <2>2. CASE s = Right(t)
    BY <1>3, <2>2
  <2> QED
    BY <1>1, <2>1, <2>2
<1> QED
  BY <1>1, <1>2, <1>4

-----------------------------------------------------------------------------
(* The path of a leaf *)

\* The path follows the parent attributes until there is none.
LEMMA PathSteps ==
  ASSUME Linked(parent), NEW x, <<x>> \in DOMAIN parent
  PROVE  /\ Path(x) \in [0 .. Height + 1 -> DOMAIN parent \union {Zero}]
         /\ Path(x)[0] = <<x>>
         /\ \A i \in 0 .. Height :
              Path(x)[i + 1] = IF Path(x)[i] = Zero THEN Zero ELSE parent[Path(x)[i]]
<1> DEFINE S == DOMAIN parent \union {Zero}
           next == [t \in S |-> IF t = Zero THEN Zero ELSE parent[t]]
           step == [i \in 1 .. Height + 1 |-> next]
           P(g) == g = [i \in 0 .. Height + 1 |->
                          IF i = 0 THEN <<x>>
                          ELSE IF g[i - 1] = Zero THEN Zero ELSE parent[g[i - 1]]]
<1>1. Height \in Nat /\ Height + 1 \in Nat
  BY HeightAssumption
<1>2. next \in [S -> S]
  BY DEF Linked, LinkedNode
<1>3. step \in [1 .. Height + 1 -> [S -> S]]
  BY <1>2
<1>4. PICK f \in [0 .. Height + 1 -> S] : Iterates(f, Height + 1, <<x>>, step)
  <2>1. <<x>> \in S
    OBVIOUS
  <2> HIDE DEF S, next, step
  <2> QED
    BY <1>1, <1>3, <2>1, Iteration
<1>5. P(f)
  <2>1. ASSUME NEW i \in 1 .. Height + 1
        PROVE  f[i] = IF f[i - 1] = Zero THEN Zero ELSE parent[f[i - 1]]
    <3>1. i - 1 \in 0 .. Height + 1
      BY <1>1
    <3> QED
      BY <1>4, <3>1 DEF Iterates
  <2> QED
    BY <1>1, <1>4, <2>1 DEF Iterates
<1>6. Path(x) = CHOOSE g : P(g)
  BY DEF Path
<1>7. P(Path(x))
  <2> HIDE DEF P
  <2> QED
    BY <1>5, <1>6, Zenon
<1>8. /\ Path(x)[0] = <<x>>
      /\ \A i \in 0 .. Height :
           Path(x)[i + 1] = IF Path(x)[i] = Zero THEN Zero ELSE parent[Path(x)[i]]
  <2>1. ASSUME NEW i \in 0 .. Height
        PROVE  Path(x)[i + 1] = IF Path(x)[i] = Zero THEN Zero ELSE parent[Path(x)[i]]
    <3>1. i + 1 \in 0 .. Height + 1 /\ i + 1 # 0 /\ (i + 1) - 1 = i
      BY <1>1
    <3> QED
      BY <1>7, <3>1
  <2> QED
    BY <1>1, <1>7, <2>1
<1>9. \A i \in 0 .. Height + 1 : Path(x)[i] \in S
  <2>1. ASSUME NEW i \in 0 .. (Height + 1) - 1, Path(x)[i] \in S PROVE Path(x)[i + 1] \in S
    <3>1. i \in 0 .. Height
      BY <1>1
    <3> QED
      BY <1>2, <1>8, <2>1, <3>1
  <2> HIDE DEF S
  <2> QED
    BY <1>1, <1>8, <2>1, Stays DEF S
<1> QED
  BY <1>7, <1>8, <1>9

\* The path of a leaf runs through every node it is below.
LEMMA PathThrough ==
  ASSUME Linked(parent), NEW t \in DOMAIN parent, NEW i \in 0 .. Height, Len(t) = 2^i,
         NEW y \in Range(t)
  PROVE  <<y>> \in DOMAIN parent /\ Path(y)[i] = t
<1> DEFINE T == {j \in 0 .. Height : \A s \in DOMAIN parent :
                   Len(s) = 2^j => \A z \in Range(s) : <<z>> \in DOMAIN parent /\ Path(z)[j] = s}
<1>1. 0 \in T
  <2> SUFFICES ASSUME NEW s \in DOMAIN parent, Len(s) = 2^0, NEW z \in Range(s)
               PROVE  <<z>> \in DOMAIN parent /\ Path(z)[0] = s
    BY HeightAssumption
  <2>1. s = <<z>>
    BY SizeOfLinked, NodeSize, PowersOfTwo
  <2> QED
    BY <2>1, PathSteps
<1>2. ASSUME NEW j \in 0 .. Height - 1, j \in T PROVE j + 1 \in T
  <2>1. j \in Nat /\ j \in 0 .. Height /\ j + 1 \in 0 .. Height
    BY HeightAssumption
  <2> SUFFICES ASSUME NEW s \in DOMAIN parent, Len(s) = 2^(j + 1), NEW z \in Range(s)
               PROVE  <<z>> \in DOMAIN parent /\ Path(z)[j + 1] = s
    BY <2>1
  <2>2. PICK c \in DOMAIN parent : parent[c] = s /\ Len(c) = 2^j /\ z \in Range(c)
    <3>1. Range(s) = Range(Left(s)) \union Range(Right(s))
      BY <2>1, ChildrenOfLinked
    <3>2. /\ Left(s) \in DOMAIN parent /\ parent[Left(s)] = s /\ Len(Left(s)) = 2^j
          /\ Right(s) \in DOMAIN parent /\ parent[Right(s)] = s /\ Len(Right(s)) = 2^j
      BY <2>1, ChildrenOfLinked
    <3> QED
      BY <3>1, <3>2
  <2>3. <<z>> \in DOMAIN parent /\ Path(z)[j] = c
    BY <1>2, <2>2
  <2>4. c # Zero
    BY <2>2, SizeOfLinked
  <2> QED
    BY <2>1, <2>2, <2>3, <2>4, PathSteps
<1>3. 0 .. Height \subseteq T
  <2>1. Height \in Nat
    BY HeightAssumption
  <2> HIDE DEF T
  <2> QED
    BY <1>1, <1>2, <2>1, IntervalInduction
<1> QED
  BY <1>3

\* A node on the path of a leaf is above it, at the level of its place.
LEMMA PathLevels ==
  ASSUME Linked(parent), NEW x, <<x>> \in DOMAIN parent, NEW i \in 0 .. Height + 1,
         Path(x)[i] # Zero
  PROVE  Path(x)[i] \in DOMAIN parent /\ Len(Path(x)[i]) = 2^i /\ x \in Range(Path(x)[i])
<1> DEFINE T == {j \in 0 .. Height + 1 : Path(x)[j] # Zero =>
                   Path(x)[j] \in DOMAIN parent /\ Len(Path(x)[j]) = 2^j /\ x \in Range(Path(x)[j])}
<1>1. Height \in Nat /\ Height + 1 \in Nat
  BY HeightAssumption
<1>2. \A j \in 0 .. Height + 1 : Path(x)[j] # Zero => Path(x)[j] \in DOMAIN parent
  <2>1. Path(x) \in [0 .. Height + 1 -> DOMAIN parent \union {Zero}]
    BY PathSteps
  <2> QED
    BY <2>1
<1>3. 0 \in T
  <2>1. x \in Range(<<x>>) /\ Len(<<x>>) = 2^0
    BY PowersOfTwo DEF Range
  <2> QED
    BY <1>1, <2>1, PathSteps
<1>4. ASSUME NEW j \in 0 .. (Height + 1) - 1, j \in T PROVE j + 1 \in T
  <2>1. j \in 0 .. Height /\ j \in Nat /\ j + 1 \in 0 .. Height + 1
    BY <1>1
  <2> SUFFICES ASSUME Path(x)[j + 1] # Zero
               PROVE  /\ Path(x)[j + 1] \in DOMAIN parent /\ Len(Path(x)[j + 1]) = 2^(j + 1)
                      /\ x \in Range(Path(x)[j + 1])
    BY <2>1
  <2>2. Path(x)[j] # Zero /\ Path(x)[j + 1] = parent[Path(x)[j]]
    BY <2>1, PathSteps
  <2>3. Path(x)[j] \in DOMAIN parent /\ Len(Path(x)[j]) = 2^j /\ x \in Range(Path(x)[j])
    BY <1>4, <2>2
  <2> QED
    BY <2>1, <2>2, <2>3, ParentOfLinked
<1>5. 0 .. Height + 1 \subseteq T
  <2> HIDE DEF T
  <2> QED
    BY <1>1, <1>3, <1>4, IntervalInduction
<1> QED
  BY <1>5

\* The path has a node at every level up to the root's and then none.
LEMMA PathShape ==
  ASSUME Linked(parent), NEW x, <<x>> \in DOMAIN parent
  PROVE  /\ PathLen(x) \in 0 .. Height
         /\ \A i \in 0 .. PathLen(x) : /\ Path(x)[i] \in DOMAIN parent
                                       /\ Len(Path(x)[i]) = 2^i /\ x \in Range(Path(x)[i])
         /\ \A i \in 0 .. PathLen(x) - 1 : parent[Path(x)[i]] = Path(x)[i + 1]
         /\ parent[Path(x)[PathLen(x)]] = Zero
         /\ \A i \in PathLen(x) + 1 .. Height + 1 : Path(x)[i] = Zero
<1> DEFINE Ends == {i \in 0 .. Height + 1 : Path(x)[i] = Zero}
<1>1. Height \in Nat /\ Height + 1 \in Nat /\ Height + 1 \in 0 .. Height + 1
  BY HeightAssumption
<1>2. Height + 1 \in Ends
  <2> SUFFICES ASSUME Path(x)[Height + 1] # Zero PROVE FALSE
    BY <1>1
  <2>1. Path(x)[Height + 1] \in DOMAIN parent /\ Len(Path(x)[Height + 1]) = 2^(Height + 1)
    BY <1>1, PathLevels
  <2>2. PICK k \in 0 .. Height : Len(Path(x)[Height + 1]) = 2^k
    BY <2>1, SizeOfLinked
  <2>3. k = Height + 1
    BY <1>1, <2>1, <2>2, PowersDiffer
  <2> QED
    BY <1>1, <2>3
<1>3. PICK e \in Ends : \A i \in Ends : e <= i
  <2>1. Ends \in SUBSET Nat /\ Ends # {}
    BY <1>2
  <2> HIDE DEF Ends
  <2> QED
    BY <2>1, LeastNumber
<1>4. e \in 1 .. Height + 1
  <2>1. Path(x)[0] # Zero
    <3>1. Path(x)[0] = <<x>>
      BY PathSteps
    <3> QED
      BY <3>1 DEF Zero
  <2> QED
    BY <1>1, <1>3, <2>1
<1>5. \A i \in 0 .. e - 1 : Path(x)[i] # Zero
  <2> SUFFICES ASSUME NEW i \in 0 .. e - 1, Path(x)[i] = Zero PROVE FALSE
    OBVIOUS
  <2>1. i \in Ends /\ i < e
    BY <1>1, <1>4
  <2> QED
    BY <1>3, <1>4, <2>1
<1>6. \A i \in e .. Height + 1 : Path(x)[i] = Zero
  <2> DEFINE f == [j \in 0 .. Height + 1 - e |-> Path(x)[e + j]]
             N == Height + 1 - e
             Z == {Zero}
  <2>1. N \in Nat /\ f[0] \in Z
    BY <1>1, <1>3, <1>4
  <2>2. ASSUME NEW j \in 0 .. N - 1, f[j] \in Z PROVE f[j + 1] \in Z
    <3>1. /\ e + j \in 0 .. Height /\ (e + j) + 1 = e + (j + 1)
          /\ j \in 0 .. Height + 1 - e /\ j + 1 \in 0 .. Height + 1 - e
      BY <1>1, <1>4
    <3>2. Path(x)[e + j] = Zero
      BY <2>2, <3>1
    <3>3. Path(x)[(e + j) + 1] = Zero
      BY <3>1, <3>2, PathSteps
    <3> QED
      BY <3>1, <3>3
  <2>3. \A j \in 0 .. N : f[j] \in Z
    <3> HIDE DEF f, N, Z
    <3> QED
      BY <2>1, <2>2, Stays
  <2>4. ASSUME NEW i \in e .. Height + 1 PROVE Path(x)[i] = Zero
    <3>1. i - e \in 0 .. N /\ e + (i - e) = i
      BY <1>1, <1>4
    <3> QED
      BY <2>3, <3>1
  <2> QED
    BY <2>4
<1>7. PathLen(x) = e - 1
  <2>1. DOMAIN Path(x) = 0 .. Height + 1
    BY PathSteps
  <2>2. {i \in DOMAIN Path(x) : Path(x)[i] # Zero} = 0 .. e - 1
    <3>1. \A i \in 0 .. Height + 1 : i \in 0 .. e - 1 \/ i \in e .. Height + 1
      BY <1>1, <1>4
    <3>2. 0 .. e - 1 \subseteq 0 .. Height + 1
      BY <1>1, <1>4
    <3> QED
      BY <1>5, <1>6, <2>1, <3>1, <3>2
  <2>3. Cardinality(0 .. e - 1) = e
    <3>1. Cardinality(0 .. e - 1) = IF 0 > e - 1 THEN 0 ELSE (e - 1) - 0 + 1
      BY <1>4, FS_Interval
    <3> QED
      BY <1>4, <3>1
  <2> QED
    BY <2>2, <2>3 DEF PathLen
<1>8. e - 1 \in 0 .. Height
  BY <1>1, <1>4
<1>9. \A i \in 0 .. e - 1 : i \in 0 .. Height + 1 /\ i \in 0 .. Height
  BY <1>1, <1>4
<1>10. \A i \in 0 .. e - 1 : /\ Path(x)[i] \in DOMAIN parent
                             /\ Len(Path(x)[i]) = 2^i /\ x \in Range(Path(x)[i])
  BY <1>5, <1>9, PathLevels
<1>11. \A i \in 0 .. e - 1 : parent[Path(x)[i]] = Path(x)[i + 1]
  BY <1>5, <1>9, PathSteps
<1>12. Path(x)[(e - 1) + 1] = Zero
  BY <1>3, <1>4
<1>13. \A i \in 0 .. (e - 1) - 1 : i \in 0 .. e - 1
  BY <1>4
<1>14. e - 1 \in 0 .. e - 1 /\ (e - 1) + 1 = e
  BY <1>4
<1> QED
  BY <1>6, <1>7, <1>8, <1>10, <1>11, <1>12, <1>13, <1>14

-----------------------------------------------------------------------------
(* The inclusion proof of a leaf *)

\* Sibling i of the proof is the other child of node i of the path.
LEMMA ProofSteps ==
  ASSUME Linked(parent), NEW x, <<x>> \in DOMAIN parent, NEW i \in 1 .. PathLen(x)
  PROVE  /\ ProofOf(x)[i] \in DOMAIN parent /\ Len(ProofOf(x)[i]) = 2^(i - 1)
         /\ parent[ProofOf(x)[i]] = Path(x)[i]
         /\ x \notin Range(ProofOf(x)[i])
         /\ Range(Path(x)[i]) = Range(Path(x)[i - 1]) \union Range(ProofOf(x)[i])
         /\ Range(Path(x)[i - 1]) \intersect Range(ProofOf(x)[i]) = {}
         /\ IsLeft(x, i - 1) => Path(x)[i] = Hash(Path(x)[i - 1], ProofOf(x)[i])
         /\ ~IsLeft(x, i - 1) => Path(x)[i] = Hash(ProofOf(x)[i], Path(x)[i - 1])
<1> DEFINE c == Path(x)[i - 1]
           t == Path(x)[i]
           p == ProofOf(x)[i]
<1>1. PathLen(x) \in 0 .. Height /\ Height \in Nat
  BY HeightAssumption, PathShape
<1>2. i - 1 \in Nat /\ i = (i - 1) + 1 /\ i - 1 \in 0 .. PathLen(x) - 1 /\ i - 1 \in 0 .. PathLen(x)
      /\ i \in 0 .. PathLen(x)
  BY <1>1
<1>3. /\ t \in DOMAIN parent /\ Len(t) = 2^((i - 1) + 1)
      /\ c \in DOMAIN parent /\ Len(c) = 2^(i - 1) /\ x \in Range(c)
  BY <1>2, PathShape
<1>4. parent[c] = t
  <2>1. parent[Path(x)[i - 1]] = Path(x)[(i - 1) + 1]
    BY <1>2, PathShape
  <2> QED
    BY <1>2, <2>1
<1>5. t # Zero /\ c \in {Left(t), Right(t)}
  <2>1. t # Zero
    BY <1>3, SizeOfLinked
  <2> QED
    BY <1>2, <1>3, <1>4, <2>1, ParentOfLinked
<1>6. p = IF c = Left(t) THEN Right(t) ELSE Left(t)
  <2>1. IsLeft(x, i - 1) <=> c = Left(t)
    BY <1>2 DEF IsLeft
  <2> QED
    BY <2>1 DEF ProofOf
<1>7. IsLeft(x, i - 1) <=> c = Left(t)
  BY <1>2 DEF IsLeft
<1>8. /\ Left(t) \in DOMAIN parent /\ parent[Left(t)] = t /\ Len(Left(t)) = 2^(i - 1)
      /\ Right(t) \in DOMAIN parent /\ parent[Right(t)] = t /\ Len(Right(t)) = 2^(i - 1)
      /\ t = Hash(Left(t), Right(t))
      /\ Range(t) = Range(Left(t)) \union Range(Right(t))
      /\ Range(Left(t)) \intersect Range(Right(t)) = {}
  BY <1>2, <1>3, ChildrenOfLinked
<1> HIDE DEF c, t, p
<1>9. CASE c = Left(t)
  <2>1. p = Right(t)
    BY <1>6, <1>9
  <2> QED
    BY <1>3, <1>7, <1>8, <1>9, <2>1 DEF c, t, p
<1>10. CASE c # Left(t)
  <2>1. p = Left(t) /\ c = Right(t)
    BY <1>5, <1>6, <1>10
  <2> QED
    BY <1>3, <1>7, <1>8, <1>10, <2>1 DEF c, t, p
<1> QED
  BY <1>9, <1>10

\* A proof is a sequence of nodes that are not on the path.
LEMMA ProofNodes ==
  ASSUME Linked(parent), NEW x, <<x>> \in DOMAIN parent
  PROVE  /\ ProofOf(x) \in Seq(Node \ {Zero}) /\ Len(ProofOf(x)) = PathLen(x)
         /\ \A i \in 1 .. PathLen(x), j \in DOMAIN Path(x) : ProofOf(x)[i] # Path(x)[j]
<1>1. PathLen(x) \in Nat /\ DOMAIN ProofOf(x) = 1 .. PathLen(x) /\ DOMAIN Path(x) = 0 .. Height + 1
  BY PathShape, PathSteps, HeightAssumption DEF ProofOf
<1>2. \A i \in 1 .. PathLen(x) : ProofOf(x)[i] \in DOMAIN parent /\ x \notin Range(ProofOf(x)[i])
  BY ProofSteps
<1>3. \A i \in 1 .. PathLen(x) : ProofOf(x)[i] \in Node \ {Zero}
  BY <1>2, SizeOfLinked
<1>4. ProofOf(x) = [i \in 1 .. PathLen(x) |-> ProofOf(x)[i]]
  BY DEF ProofOf
<1>5. ProofOf(x) \in Seq(Node \ {Zero})
  BY <1>1, <1>3, <1>4, IsASeq
<1>6. Len(ProofOf(x)) = PathLen(x)
  BY <1>1, <1>5, LenProperties
<1>7. ASSUME NEW i \in 1 .. PathLen(x), NEW j \in DOMAIN Path(x) PROVE ProofOf(x)[i] # Path(x)[j]
  <2>1. CASE Path(x)[j] = Zero
    BY <1>3, <2>1
  <2>2. CASE Path(x)[j] # Zero
    <3>1. x \in Range(Path(x)[j])
      BY <1>1, <2>2, PathLevels
    <3> QED
      BY <1>2, <3>1, Zenon
  <2> QED
    BY <2>1, <2>2
<1> QED
  BY <1>5, <1>6, <1>7

\* The digits of the index say on which side the path goes up.
LEMMA IndexDigits ==
  ASSUME Linked(parent), NEW x, <<x>> \in DOMAIN parent
  PROVE  /\ IndexOf(x) \in Nat
         /\ \A i \in 0 .. PathLen(x) - 1 :
              (IndexOf(x) \div 2^i) % 2 = IF IsLeft(x, i) THEN 0 ELSE 1
<1> DEFINE K == PathLen(x)
           bit == [i \in 0 .. K - 1 |-> IF IsLeft(x, i) THEN 0 ELSE 1]
           step == [j \in 1 .. K |-> [v \in Nat |-> 2 * v + bit[K - j]]]
           P(g) == g = [i \in 0 .. K |-> IF i = K THEN 0
                                         ELSE 2 * g[i + 1] + IF IsLeft(x, i) THEN 0 ELSE 1]
<1>1. K \in Nat
  BY PathShape, HeightAssumption
<1>2. bit \in [0 .. K - 1 -> {0, 1}]
  OBVIOUS
<1>3. step \in [1 .. K -> [Nat -> Nat]]
  <2>1. \A j \in 1 .. K : K - j \in 0 .. K - 1
    BY <1>1
  <2>2. \A j \in 1 .. K : bit[K - j] \in Nat
    BY <1>2, <2>1
  <2> HIDE DEF bit, K
  <2> QED
    BY <2>2
<1>4. PICK f \in [0 .. K -> Nat] : Iterates(f, K, 0, step)
  <2> HIDE DEF K, step
  <2> QED
    BY <1>1, <1>3, Iteration
<1> DEFINE at == [i \in 0 .. K |-> f[K - i]]
<1>5. at \in [0 .. K -> Nat] /\ at[K] = 0
  <2>1. \A i \in 0 .. K : K - i \in 0 .. K
    BY <1>1
  <2>2. K - K = 0 /\ K \in 0 .. K /\ f[0] = 0
    BY <1>1, <1>4 DEF Iterates
  <2> HIDE DEF K
  <2> QED
    BY <2>1, <2>2
<1>6. ASSUME NEW i \in 0 .. K - 1 PROVE at[i] = 2 * at[i + 1] + bit[i]
  <2>1. /\ K - i \in 1 .. K /\ K - (K - i) = i /\ (K - i) - 1 = K - (i + 1)
        /\ i \in 0 .. K /\ i + 1 \in 0 .. K /\ K - (i + 1) \in 0 .. K
    BY <1>1
  <2>2. f[K - i] = step[K - i][f[(K - i) - 1]]
    BY <1>4, <2>1 DEF Iterates
  <2>3. f[K - (i + 1)] \in Nat
    BY <2>1
  <2>4. step[K - i][f[K - (i + 1)]] = 2 * f[K - (i + 1)] + bit[K - (K - i)]
    <3> HIDE DEF K, bit
    <3> QED
      BY <2>1, <2>3
  <2> HIDE DEF K, bit, step
  <2> QED
    BY <2>1, <2>2, <2>4
<1>7. P(at)
  <2>1. \A i \in 0 .. K : i # K => i \in 0 .. K - 1
    BY <1>1
  <2>2. \A i \in 0 .. K : i # K => at[i] = 2 * at[i + 1] + IF IsLeft(x, i) THEN 0 ELSE 1
    BY <1>6, <2>1
  <2>3. at = [i \in 0 .. K |-> at[i]]
    OBVIOUS
  <2> HIDE DEF K, at
  <2> QED
    BY <1>5, <2>2, <2>3
<1> DEFINE g == CHOOSE ht : P(ht)
<1>8. IndexOf(x) = g[0]
  BY DEF IndexOf
<1>9. P(g)
  <2> HIDE DEF P, at
  <2> QED
    BY <1>7, Zenon
<1> HIDE DEF g
<1>10. g[K] = 0 /\ \A i \in 0 .. K - 1 : g[i] = 2 * g[i + 1] + bit[i]
  <2>1. K \in 0 .. K /\ \A i \in 0 .. K - 1 : i \in 0 .. K /\ i # K
    BY <1>1
  <2> HIDE DEF K
  <2> QED
    BY <1>9, <2>1
<1>11. g \in [0 .. K -> Nat]
  <2> DEFINE T == {i \in 0 .. K : g[i] \in Nat}
  <2>1. K \in T
    BY <1>1, <1>10
  <2>2. ASSUME NEW i \in 0 .. K - 1, i + 1 \in T PROVE i \in T
    <3>1. i \in 0 .. K /\ bit[i] \in Nat
      BY <1>1, <1>2
    <3> HIDE DEF bit, K
    <3> QED
      BY <1>10, <2>2, <3>1
  <2>3. 0 .. K \subseteq T
    <3> HIDE DEF T, K
    <3> QED
      BY <1>1, <2>1, <2>2, DownwardInduction
  <2> HIDE DEF K
  <2> QED
    BY <1>9, <2>3
<1>12. g[0] \in Nat /\ \A i \in 0 .. K - 1 : (g[0] \div 2^i) % 2 = bit[i]
  <2>1. 0 \in 0 .. K
    BY <1>1
  <2> HIDE DEF K, bit, P
  <2> QED
    BY <1>1, <1>2, <1>10, <1>11, <2>1, BinaryDigits
<1> QED
  BY <1>8, <1>12

\* The proof leads from the leaf to the node where its path ends.
LEMMA ProofLeads ==
  ASSUME Linked(parent), NEW x, <<x>> \in DOMAIN parent
  PROVE  ProofRoot(x, Answer(x)) = Path(x)[PathLen(x)]
<1> DEFINE K == PathLen(x)
           pf == ProofOf(x)
           ix == IndexOf(x)
           P(g) == g = [i \in 0 .. K |->
                          IF i = 0 THEN <<x>>
                          ELSE IF (ix \div 2^(i - 1)) % 2 = 0 THEN Hash(g[i - 1], pf[i])
                               ELSE Hash(pf[i], g[i - 1])]
           walk == [i \in 0 .. K |-> Path(x)[i]]
           g == CHOOSE ht : P(ht)
<1>1. K \in Nat /\ Len(pf) = K
  BY PathShape, ProofNodes, HeightAssumption
<1>2. walk[0] = <<x>>
  BY <1>1, PathSteps
<1>3. ASSUME NEW i \in 1 .. K
      PROVE  walk[i] = IF (ix \div 2^(i - 1)) % 2 = 0 THEN Hash(walk[i - 1], pf[i]) ELSE Hash(pf[i], walk[i - 1])
  <2>1. i - 1 \in 0 .. K - 1 /\ i \in 0 .. K /\ i - 1 \in 0 .. K
    BY <1>1
  <2>2. (ix \div 2^(i - 1)) % 2 = IF IsLeft(x, i - 1) THEN 0 ELSE 1
    BY <2>1, IndexDigits
  <2>3. /\ IsLeft(x, i - 1) => Path(x)[i] = Hash(Path(x)[i - 1], pf[i])
        /\ ~IsLeft(x, i - 1) => Path(x)[i] = Hash(pf[i], Path(x)[i - 1])
    BY ProofSteps
  <2>4. walk[i] = Path(x)[i] /\ walk[i - 1] = Path(x)[i - 1]
    BY <2>1
  <2> HIDE DEF walk, pf, ix, K
  <2> QED
    BY <2>2, <2>3, <2>4
<1>4. P(walk)
  <2>1. \A i \in 0 .. K : i # 0 => i \in 1 .. K
    BY <1>1
  <2>2. walk = [i \in 0 .. K |-> walk[i]]
    OBVIOUS
  <2> HIDE DEF walk, pf, ix, K
  <2> QED
    BY <1>2, <1>3, <2>1, <2>2
<1>5. P(g)
  <2> HIDE DEF P, walk
  <2> QED
    BY <1>4, Zenon
<1>6. ProofRoot(x, Answer(x)) = g[K]
  <2>1. Answer(x).proof = pf /\ Answer(x).leaf_index = ix
    BY DEF Answer
  <2>2. ProofRoot(x, Answer(x)) = (CHOOSE ht : ht = [i \in 0 .. Len(Answer(x).proof) |->
            IF i = 0 THEN <<x>>
            ELSE IF (Answer(x).leaf_index \div 2^(i - 1)) % 2 = 0
                 THEN Hash(ht[i - 1], Answer(x).proof[i])
                 ELSE Hash(Answer(x).proof[i], ht[i - 1])])[Len(Answer(x).proof)]
    BY DEF ProofRoot
  <2> QED
    BY <1>1, <2>1, <2>2
<1> HIDE DEF g
<1>7. \A i \in 0 .. K : g[i] = walk[i]
  <2> DEFINE T == {i \in 0 .. K : g[i] = walk[i]}
  <2>1. 0 \in T
    BY <1>1, <1>2, <1>5
  <2>2. ASSUME NEW i \in 0 .. K - 1, i \in T PROVE i + 1 \in T
    <3>1. i + 1 \in 1 .. K /\ i + 1 \in 0 .. K /\ (i + 1) - 1 = i /\ i + 1 # 0
      BY <1>1
    <3>2. g[i + 1] = IF (ix \div 2^i) % 2 = 0 THEN Hash(g[i], pf[i + 1]) ELSE Hash(pf[i + 1], g[i])
      <4> HIDE DEF K, pf, ix
      <4> QED
        BY <1>5, <3>1
    <3>3. walk[i + 1] = IF (ix \div 2^i) % 2 = 0 THEN Hash(walk[i], pf[i + 1]) ELSE Hash(pf[i + 1], walk[i])
      <4> HIDE DEF walk, K, pf, ix
      <4> QED
        BY <1>3, <3>1
    <3>4. g[i] = walk[i]
      BY <2>2
    <3> HIDE DEF walk, K, pf, ix
    <3> QED
      BY <3>1, <3>2, <3>3, <3>4
  <2>3. 0 .. K \subseteq T
    <3> HIDE DEF T, K
    <3> QED
      BY <1>1, <2>1, <2>2, IntervalInduction
  <2> QED
    BY <2>3
<1>8. K \in 0 .. K /\ walk[K] = Path(x)[K]
  BY <1>1
<1> HIDE DEF walk, K
<1> QED
  BY <1>6, <1>7, <1>8 DEF K

-----------------------------------------------------------------------------
(* The updates of a forest *)

\* Of two tops of forest old, forest new makes one.
Merged(old, l, r, top, new) ==
  /\ Linked(new)
  /\ top \notin DOMAIN old /\ DOMAIN new = DOMAIN old \union {top}
  /\ Tops(new) = (Tops(old) \ {l, r}) \union {top}

\* So does a new node above two tops of one height.
LEMMA Linking ==
  ASSUME NEW par, Linked(par), NEW l \in Tops(par), NEW r \in Tops(par), l # r,
         NEW i \in 0 .. Height - 1, Len(l) = 2^i, Len(r) = 2^i
  PROVE  /\ Merged(par, l, r, Hash(l, r), ParentNode(par, l, r))
         /\ Len(Hash(l, r)) = 2^(i + 1)
<1> DEFINE H == Hash(l, r)
           new == ParentNode(par, l, r)
<1>1. /\ l \in DOMAIN par /\ par[l] = Zero /\ r \in DOMAIN par /\ par[r] = Zero
      /\ i \in Nat /\ i + 1 \in 0 .. Height /\ 2^i \in Nat \ {0} /\ 2^(i + 1) = 2 * 2^i
  BY PowersOfTwo, HeightAssumption DEF Tops
<1>2. /\ l \in Node /\ l # Zero /\ IsInjective(l) /\ r \in Node /\ r # Zero /\ IsInjective(r)
  BY <1>1, SizeOfLinked
<1>3. Range(l) \intersect Range(r) = {}
  BY <1>1 DEF Linked
<1>4. /\ H \in Node /\ Len(H) = 2^(i + 1) /\ Left(H) = l /\ Right(H) = r /\ IsInjective(H)
      /\ Range(H) = Range(l) \union Range(r)
  BY <1>1, <1>2, <1>3, HashOfEquals
<1>5. H # Zero /\ Len(H) # 1
  BY <1>1, <1>4, NodeSize
<1>6. H \notin DOMAIN par
  <2> SUFFICES ASSUME H \in DOMAIN par PROVE FALSE
    OBVIOUS
  <2>1. par[Left(H)] = H
    BY <1>1, <1>4, ChildrenOfLinked
  <2> QED
    BY <1>1, <1>4, <1>5, <2>1
<1>7. /\ DOMAIN new = DOMAIN par \union {H} /\ new[l] = H /\ new[r] = H /\ new[H] = Zero
      /\ \A t \in DOMAIN par : t \notin {l, r} => new[t] = par[t]
  <2> HIDE DEF H
  <2> QED
    BY <1>1, <1>6 DEF H, ParentNode
<1> HIDE DEF H, new
<1>8. ASSUME NEW t \in DOMAIN new PROVE LinkedNode(new, t)
  <2>1. CASE t = H
    BY <1>1, <1>4, <1>7, <2>1 DEF LinkedNode
  <2>2. CASE t \in {l, r}
    <3>1. LinkedNode(par, t)
      BY <1>1, <2>2 DEF Linked
    <3>2. new[t] = H /\ Len(H) = 2 * Len(t) /\ t \in {Left(H), Right(H)} /\ H \in DOMAIN new
      BY <1>1, <1>4, <1>7, <2>2
    <3>3. Len(t) # 1 => \A s \in {Left(t), Right(t)} : s \in DOMAIN new /\ new[s] = t
      <4> SUFFICES ASSUME Len(t) # 1, NEW s \in {Left(t), Right(t)}
                   PROVE  s \in DOMAIN new /\ new[s] = t
        OBVIOUS
      <4>1. s \in DOMAIN par /\ par[s] = t
        BY <3>1 DEF LinkedNode
      <4>2. s \notin {l, r}
        BY <1>1, <1>2, <2>2, <4>1
      <4> QED
        BY <1>7, <4>1, <4>2
    <3> QED
      BY <3>1, <3>2, <3>3 DEF LinkedNode
  <2>3. CASE t # H /\ t \notin {l, r}
    <3>1. t \in DOMAIN par /\ LinkedNode(par, t) /\ new[t] = par[t]
      BY <1>7, <2>3 DEF Linked
    <3>2. new[t] # Zero => /\ new[t] \in DOMAIN new /\ Len(new[t]) = 2 * Len(t)
                           /\ t \in {Left(new[t]), Right(new[t])}
      BY <1>7, <3>1 DEF LinkedNode
    <3>3. t # Zero
      BY <3>1, SizeOfLinked
    <3>4. Len(t) # 1 => \A s \in {Left(t), Right(t)} : s \in DOMAIN new /\ new[s] = t
      <4> SUFFICES ASSUME Len(t) # 1, NEW s \in {Left(t), Right(t)}
                   PROVE  s \in DOMAIN new /\ new[s] = t
        OBVIOUS
      <4>1. s \in DOMAIN par /\ par[s] = t
        BY <3>1 DEF LinkedNode
      <4>2. s \notin {l, r}
        BY <1>1, <3>3, <4>1
      <4> QED
        BY <1>7, <4>1, <4>2
    <3> QED
      BY <3>1, <3>2, <3>4 DEF LinkedNode
  <2> QED
    BY <2>1, <2>2, <2>3
<1>9. ASSUME NEW t \in DOMAIN par, Len(t) = Len(H) PROVE Range(t) \intersect Range(H) = {}
  <2> SUFFICES ASSUME NEW y \in Range(t), y \in Range(H) PROVE FALSE
    OBVIOUS
  <2>1. PICK c \in DOMAIN par : par[c] = t /\ Len(c) = 2^i /\ y \in Range(c)
    <3>1. Len(t) = 2^(i + 1)
      BY <1>4, <1>9
    <3> QED
      BY <1>1, <3>1, ChildrenOfLinked
  <2>2. PICK s \in {l, r} : y \in Range(s)
    BY <1>4
  <2>3. s \in DOMAIN par /\ Len(s) = 2^i /\ par[s] = Zero
    BY <1>1
  <2>4. c = s
    BY <2>1, <2>2, <2>3 DEF Linked
  <2>5. t # Zero
    BY SizeOfLinked
  <2> QED
    BY <2>1, <2>3, <2>4, <2>5
<1>10. ASSUME NEW s \in DOMAIN new, NEW t \in DOMAIN new, s # t, Len(s) = Len(t)
       PROVE  Range(s) \intersect Range(t) = {}
  <2>1. CASE s = H
    BY <1>7, <1>9, <1>10, <2>1
  <2>2. CASE t = H
    BY <1>7, <1>9, <1>10, <2>2
  <2>3. CASE s # H /\ t # H
    BY <1>7, <1>10, <2>3 DEF Linked
  <2> QED
    BY <2>1, <2>2, <2>3
<1>11. Linked(new)
  BY <1>8, <1>10 DEF Linked
<1>12. Tops(new) = (Tops(par) \ {l, r}) \union {H}
  BY <1>1, <1>5, <1>6, <1>7 DEF Tops
<1> QED
  BY <1>4, <1>6, <1>7, <1>11, <1>12 DEF H, new, Merged

\* A new leaf is a top.
LEMMA AddingLeaf ==
  ASSUME NEW par, Linked(par), NEW x \in Leaf, <<x>> \notin DOMAIN par
  PROVE  /\ Linked(NewLeaf(par, x))
         /\ DOMAIN NewLeaf(par, x) = DOMAIN par \union {<<x>>}
         /\ Tops(NewLeaf(par, x)) = Tops(par) \union {<<x>>}
<1> DEFINE new == NewLeaf(par, x)
<1>1. /\ DOMAIN new = DOMAIN par \union {<<x>>} /\ new[<<x>>] = Zero
      /\ \A t \in DOMAIN par : t # <<x>> /\ new[t] = par[t]
  BY DEF NewLeaf
<1>2. <<x>> \in Node /\ IsInjective(<<x>>) /\ Len(<<x>>) = 2^0 /\ 2^0 = 1 /\ 0 \in 0 .. Height
      /\ Range(<<x>>) = {x}
  BY LeafAlone, PowersOfTwo, HeightAssumption
<1> HIDE DEF new
<1>3. ASSUME NEW t \in DOMAIN new PROVE LinkedNode(new, t)
  <2>1. CASE t = <<x>>
    BY <1>1, <1>2, <2>1 DEF LinkedNode
  <2>2. CASE t # <<x>>
    <3>1. LinkedNode(par, t) /\ new[t] = par[t]
      BY <1>1, <2>2 DEF Linked
    <3>2. \A s \in DOMAIN par : s \in DOMAIN new /\ new[s] = par[s]
      BY <1>1
    <3> QED
      BY <3>1, <3>2 DEF LinkedNode
  <2> QED
    BY <2>1, <2>2
<1>4. ASSUME NEW t \in DOMAIN par, Len(t) = 1 PROVE x \notin Range(t)
  <2>1. PICK y \in Leaf : t = <<y>> /\ Range(t) = {y}
    BY <1>4, SizeOfLinked, NodeSize
  <2>2. x # y
    BY <2>1
  <2> QED
    BY <2>1, <2>2
<1>5. ASSUME NEW s \in DOMAIN new, NEW t \in DOMAIN new, s # t, Len(s) = Len(t)
      PROVE  Range(s) \intersect Range(t) = {}
  <2>1. CASE s = <<x>>
    <3>1. t \in DOMAIN par /\ Len(t) = 1
      BY <1>1, <1>2, <1>5, <2>1
    <3> QED
      BY <1>2, <1>4, <2>1, <3>1
  <2>2. CASE t = <<x>>
    <3>1. s \in DOMAIN par /\ Len(s) = 1
      BY <1>1, <1>2, <1>5, <2>2
    <3> QED
      BY <1>2, <1>4, <2>2, <3>1
  <2>3. CASE s # <<x>> /\ t # <<x>>
    BY <1>1, <1>5, <2>3 DEF Linked
  <2> QED
    BY <2>1, <2>2, <2>3
<1>6. Tops(new) = Tops(par) \union {<<x>>}
  BY <1>1 DEF Tops
<1> QED
  BY <1>1, <1>3, <1>5, <1>6 DEF Linked, new

-----------------------------------------------------------------------------
(* GET /add *)

\* What a record of a loop's state ranges over.
Attributes == UNION {[D -> Node] : D \in SUBSET Node}

\* Attributes of a forest.
LEMMA AttributesOfLinked ==
  ASSUME NEW par, Linked(par)
  PROVE  /\ \A t \in DOMAIN par : t \in Node /\ par[t] \in Node
         /\ [t \in DOMAIN par |-> par[t]] \in Attributes
<1>1. \A t \in DOMAIN par : t \in Node /\ par[t] \in Node
  <2>1. Zero \in Node
    BY EmptySeq DEF Zero, Node
  <2> QED
    BY <2>1 DEF Linked, LinkedNode
<1> QED
  BY <1>1 DEF Attributes

\* A new node above two others leaves the attributes well formed.
LEMMA ParentNodeType ==
  ASSUME NEW par \in Attributes, NEW l \in Node, NEW r \in Node
  PROVE  Hash(l, r) \in Node /\ ParentNode(par, l, r) \in Attributes
<1>1. PICK D \in SUBSET Node : par \in [D -> Node]
  BY DEF Attributes
<1>2. Hash(l, r) \in Node /\ Zero \in Node
  BY ConcatProperties, EmptySeq DEF Node, Hash, Zero
<1>3. DOMAIN par \union {l, r, Hash(l, r)} \in SUBSET Node
  BY <1>1, <1>2
<1>4. ParentNode(par, l, r) \in [DOMAIN par \union {l, r, Hash(l, r)} -> Node]
  BY <1>1, <1>2 DEF ParentNode
<1> QED
  BY <1>2, <1>3, <1>4 DEF Attributes

\* There is a first height without a root, or none.
LEMMA FirstFreeIs ==
  /\ FirstFree \in 0 .. Height
  /\ FirstFree \in Levels => root_nodes[FirstFree] = Zero
  /\ \A i \in 0 .. FirstFree - 1 : root_nodes[i] # Zero
<1> DEFINE Free == {ht \in 0 .. Height : ht \in Levels => root_nodes[ht] = Zero}
<1>1. Free \in SUBSET Nat /\ Free # {}
  <2>1. Height \in Free
    BY HeightAssumption DEF Levels
  <2> QED
    BY <2>1, HeightAssumption
<1>2. PICK f \in Free : \A ht \in Free : f <= ht
  <2> HIDE DEF Free
  <2> QED
    BY <1>1, LeastNumber
<1>3. \A i \in 0 .. f - 1 : root_nodes[i] # Zero
  <2> SUFFICES ASSUME NEW i \in 0 .. f - 1, root_nodes[i] = Zero PROVE FALSE
    OBVIOUS
  <2>1. i \in Free /\ i < f
    BY HeightAssumption
  <2> QED
    BY <1>2, <2>1, HeightAssumption
<1>4. \E ht \in 0 .. Height : (ht \in Levels => root_nodes[ht] = Zero) /\ \A i \in 0 .. ht - 1 : root_nodes[i] # Zero
  BY <1>2, <1>3
<1> QED
  BY <1>4, Zenon DEF FirstFree

\* The loop of utreexo_add, round by round.
LEMMA CarriedSteps ==
  ASSUME Linked(parent), RootsAreTops, NEW x \in Leaf
  PROVE  /\ Carried(x)[0].n = <<x>> /\ Carried(x)[0].parent = NewLeaf(parent, x)
         /\ \A ht \in 0 .. Height - 1 :
              /\ Carried(x)[ht + 1].n = Hash(root_nodes[ht], Carried(x)[ht].n)
              /\ Carried(x)[ht + 1].parent =
                   ParentNode(Carried(x)[ht].parent, root_nodes[ht], Carried(x)[ht].n)
<1> DEFINE S == [n : Node, parent : Attributes]
           start == [n |-> <<x>>, parent |-> NewLeaf(parent, x)]
           Next1(s, r) == [n |-> Hash(r, s.n), parent |-> ParentNode(s.parent, r, s.n)]
           step == [ht \in 1 .. Height |-> [s \in S |-> Next1(s, root_nodes[ht - 1])]]
           P(g) == g = [ht \in 0 .. Height |->
                          IF ht = 0 THEN start ELSE Next1(g[ht - 1], root_nodes[ht - 1])]
<1>1. Height \in Nat
  BY HeightAssumption
<1>2. start \in S
  <2>1. <<x>> \in Node /\ Zero \in Node
    BY LeafAlone, EmptySeq DEF Zero, Node
  <2>2. NewLeaf(parent, x) \in [DOMAIN parent \union {<<x>>} -> Node]
    BY <2>1, AttributesOfLinked DEF NewLeaf
  <2>3. DOMAIN parent \union {<<x>>} \in SUBSET Node
    BY <2>1, AttributesOfLinked
  <2>4. NewLeaf(parent, x) \in Attributes
    BY <2>2, <2>3 DEF Attributes
  <2> QED
    BY <2>1, <2>4
<1>3. step \in [1 .. Height -> [S -> S]]
  <2>1. ASSUME NEW ht \in 1 .. Height, NEW s \in S PROVE Next1(s, root_nodes[ht - 1]) \in S
    <3>1. root_nodes[ht - 1] \in Node
      <4>1. ht - 1 \in Levels
        BY <1>1 DEF Levels
      <4> QED
        BY <4>1 DEF RootsAreTops
    <3> QED
      BY <3>1, ParentNodeType
  <2> HIDE DEF S, Next1
  <2> QED
    BY <2>1
<1>4. PICK f \in [0 .. Height -> S] : Iterates(f, Height, start, step)
  <2> HIDE DEF S, start, step
  <2> QED
    BY <1>1, <1>2, <1>3, Iteration
<1>5. P(f)
  <2>1. ASSUME NEW ht \in 1 .. Height PROVE f[ht] = Next1(f[ht - 1], root_nodes[ht - 1])
    <3>1. ht - 1 \in 0 .. Height
      BY <1>1
    <3>2. f[ht] = step[ht][f[ht - 1]] /\ f[ht - 1] \in S
      BY <1>4, <3>1 DEF Iterates
    <3> HIDE DEF S, Next1
    <3> QED
      BY <3>2
  <2>2. f[0] = start
    BY <1>4 DEF Iterates
  <2>3. \A ht \in 0 .. Height : ht # 0 => ht \in 1 .. Height
    BY <1>1
  <2>4. f = [ht \in 0 .. Height |-> f[ht]]
    OBVIOUS
  <2> HIDE DEF S, start, Next1
  <2> QED
    BY <2>1, <2>2, <2>3, <2>4
<1>6. Carried(x) = CHOOSE g : P(g)
  BY DEF Carried
<1>7. P(Carried(x))
  <2> HIDE DEF P
  <2> QED
    BY <1>5, <1>6, Zenon
<1>8. Carried(x)[0] = start
  BY <1>1, <1>7
<1>9. ASSUME NEW ht \in 0 .. Height - 1 PROVE Carried(x)[ht + 1] = Next1(Carried(x)[ht], root_nodes[ht])
  <2>1. ht + 1 \in 0 .. Height /\ ht + 1 # 0 /\ (ht + 1) - 1 = ht
    BY <1>1
  <2> HIDE DEF start, Next1
  <2> QED
    BY <1>7, <2>1
<1>10. /\ start.n = <<x>> /\ start.parent = NewLeaf(parent, x)
       /\ \A s, r : Next1(s, r).n = Hash(r, s.n) /\ Next1(s, r).parent = ParentNode(s.parent, r, s.n)
  OBVIOUS
<1> HIDE DEF start, Next1
<1> QED
  BY <1>8, <1>9, <1>10

\* Round by round, the node that is carried is the one new top, in place of the
\* roots that it has passed.
LEMMA CarriedIs ==
  ASSUME Linked(parent), RootsAreTops, NEW x \in Leaf, <<x>> \notin DOMAIN parent,
         NEW ht \in 0 .. FirstFree
  PROVE  LET s == Carried(x)[ht] IN
         /\ Linked(s.parent)
         /\ s.n \in Tops(s.parent) /\ Len(s.n) = 2^ht /\ s.n \notin DOMAIN parent
         /\ DOMAIN parent \subseteq DOMAIN s.parent
         /\ Tops(s.parent) = (Tops(parent) \ {root_nodes[i] : i \in 0 .. ht - 1}) \union {s.n}
         /\ \A y : <<y>> \in DOMAIN s.parent <=> <<y>> \in DOMAIN parent \/ y = x
<1> DEFINE Good(k) ==
             LET s == Carried(x)[k] IN
             /\ Linked(s.parent)
             /\ s.n \in Tops(s.parent) /\ Len(s.n) = 2^k /\ s.n \notin DOMAIN parent
             /\ DOMAIN parent \subseteq DOMAIN s.parent
             /\ Tops(s.parent) = (Tops(parent) \ {root_nodes[i] : i \in 0 .. k - 1}) \union {s.n}
             /\ \A y : <<y>> \in DOMAIN s.parent <=> <<y>> \in DOMAIN parent \/ y = x
           T == {k \in 0 .. FirstFree : Good(k)}
<1>1. FirstFree \in 0 .. Height /\ Height \in Nat /\ FirstFree \in Nat
  BY FirstFreeIs, HeightAssumption
<1>2. 0 \in T
  <2>1. Carried(x)[0].n = <<x>> /\ Carried(x)[0].parent = NewLeaf(parent, x)
    BY CarriedSteps
  <2>2. /\ Linked(NewLeaf(parent, x))
        /\ DOMAIN NewLeaf(parent, x) = DOMAIN parent \union {<<x>>}
        /\ Tops(NewLeaf(parent, x)) = Tops(parent) \union {<<x>>}
    BY AddingLeaf
  <2>3. Len(<<x>>) = 2^0 /\ {root_nodes[i] : i \in 0 .. 0 - 1} = {}
    BY PowersOfTwo
  <2>4. \A y : <<y>> = <<x>> <=> y = x
    OBVIOUS
  <2>5. Good(0)
    <3> DEFINE s == Carried(x)[0]
               past == {root_nodes[i] : i \in 0 .. 0 - 1}
    <3>1. Linked(s.parent) /\ s.n \in Tops(s.parent) /\ Len(s.n) = 2^0 /\ s.n \notin DOMAIN parent
      BY <2>1, <2>2, <2>3
    <3>2. /\ DOMAIN parent \subseteq DOMAIN s.parent
          /\ \A y : <<y>> \in DOMAIN s.parent <=> <<y>> \in DOMAIN parent \/ y = x
      BY <2>1, <2>2, <2>4
    <3>3. Tops(s.parent) = (Tops(parent) \ past) \union {s.n}
      <4> HIDE DEF past
      <4> QED
        BY <2>1, <2>2, <2>3 DEF past
    <3> HIDE DEF s, past
    <3> QED
      BY <3>1, <3>2, <3>3 DEF s, past
  <2> QED
    BY <1>1, <2>5
<1>3. ASSUME NEW k \in 0 .. FirstFree - 1, k \in T PROVE k + 1 \in T
  <2> DEFINE s == Carried(x)[k]
             s2 == Carried(x)[k + 1]
             r == root_nodes[k]
             past == {root_nodes[i] : i \in 0 .. k - 1}
             past2 == {root_nodes[i] : i \in 0 .. (k + 1) - 1}
  <2>1. k \in 0 .. Height - 1 /\ k \in Levels /\ k \in Nat /\ k + 1 \in 0 .. FirstFree
    BY <1>1 DEF Levels
  <2>2. s2.n = Hash(r, s.n) /\ s2.parent = ParentNode(s.parent, r, s.n)
    BY <2>1, CarriedSteps
  <2>3. /\ Linked(s.parent)
        /\ s.n \in Tops(s.parent) /\ Len(s.n) = 2^k /\ s.n \notin DOMAIN parent
        /\ DOMAIN parent \subseteq DOMAIN s.parent
        /\ Tops(s.parent) = (Tops(parent) \ past) \union {s.n}
        /\ \A y : <<y>> \in DOMAIN s.parent <=> <<y>> \in DOMAIN parent \/ y = x
    BY <1>3
  <2>4. r # Zero
    BY FirstFreeIs
  <2> HIDE DEF T, Good, s, s2
  <2>5. r \in Tops(parent) /\ Len(r) = 2^k
    BY <2>1, <2>4 DEF RootsAreTops
  <2>6. \A i \in 0 .. k - 1 : root_nodes[i] # r
    <3> SUFFICES ASSUME NEW i \in 0 .. k - 1, root_nodes[i] = r PROVE FALSE
      OBVIOUS
    <3>1. i \in Levels /\ i \in Nat /\ i # k
      BY <1>1, <2>1 DEF Levels
    <3>2. Len(r) = 2^i
      BY <2>4, <3>1 DEF RootsAreTops
    <3> QED
      BY <2>1, <2>5, <3>1, <3>2, PowersDiffer
  <2>7. r \notin past /\ past2 = past \union {r}
    <3>1. 0 .. (k + 1) - 1 = (0 .. k - 1) \union {k}
      BY <2>1
    <3> QED
      BY <2>6, <3>1
  <2> HIDE DEF r, past, past2
  <2>8. r \in Tops(s.parent) /\ r \in DOMAIN parent
    BY <2>3, <2>5, <2>7 DEF Tops
  <2>9. s.n # r
    BY <2>3, <2>8
  <2>10. Merged(s.parent, r, s.n, s2.n, s2.parent) /\ Len(s2.n) = 2^(k + 1)
    <3>1. /\ Merged(s.parent, r, s.n, Hash(r, s.n), ParentNode(s.parent, r, s.n))
          /\ Len(Hash(r, s.n)) = 2^(k + 1)
      BY <2>1, <2>3, <2>5, <2>8, <2>9, Linking
    <3> QED
      BY <2>2, <3>1
  <2>11. s2.n \in Tops(s2.parent) /\ s2.n \notin DOMAIN parent /\ DOMAIN parent \subseteq DOMAIN s2.parent
    BY <2>3, <2>10 DEF Merged
  <2>12. Tops(s2.parent) = (Tops(parent) \ past2) \union {s2.n}
    <3>1. s.n \notin Tops(parent)
      BY <2>3 DEF Tops
    <3> QED
      BY <2>3, <2>7, <2>10, <3>1 DEF Merged
  <2>13. ASSUME NEW y, <<y>> = s2.n PROVE FALSE
    <3>1. 2^(k + 1) # 1 /\ Len(<<y>>) = 1
      <4>1. 2^(k + 1) = 2 * 2^k /\ 2^k \in Nat \ {0}
        BY <2>1, PowersOfTwo
      <4> QED
        BY <4>1
    <3>2. Len(s2.n) = 1
      BY <2>13, <3>1, Zenon
    <3>3. Len(s2.n) = 2^(k + 1)
      BY <2>10, Zenon
    <3> QED
      BY <3>1, <3>2, <3>3, Zenon
  <2>14. \A y : <<y>> \in DOMAIN s2.parent <=> <<y>> \in DOMAIN parent \/ y = x
    BY <2>3, <2>10, <2>13 DEF Merged
  <2>15. Good(k + 1)
    BY <2>10, <2>11, <2>12, <2>14 DEF Good, s2, past2, Merged
  <2> QED
    BY <2>1, <2>15 DEF T
<1>4. 0 .. FirstFree \subseteq T
  <2> HIDE DEF T
  <2> QED
    BY <1>1, <1>2, <1>3, IntervalInduction
<1> QED
  BY <1>4

\* A leaf is added at the first height without a root, or ends below no root.
LEMMA AddInv ==
  ASSUME BridgeInv, NEW x \in Leaf, Add(x)
  PROVE  BridgeInv'
<1> DEFINE f == FirstFree
           s == Carried(x)[f]
           past == {root_nodes[i] : i \in 0 .. f - 1}
<1>1. f \in 0 .. Height /\ f \in Nat /\ Height \in Nat /\ f \in 0 .. f
  BY FirstFreeIs, HeightAssumption
<1>2. x \notin leaf_nodes /\ <<x>> \notin DOMAIN parent
  BY DEF Add, BridgeInv, KeysAreLeaves
<1>3. /\ Linked(s.parent)
      /\ s.n \in Tops(s.parent) /\ Len(s.n) = 2^f /\ s.n \notin DOMAIN parent
      /\ Tops(s.parent) = (Tops(parent) \ past) \union {s.n}
      /\ \A y : <<y>> \in DOMAIN s.parent <=> <<y>> \in DOMAIN parent \/ y = x
  BY <1>1, <1>2, CarriedIs DEF BridgeInv
<1>4. /\ leaf_nodes' = leaf_nodes \union {x} /\ parent' = s.parent
      /\ root_nodes' = [ht \in Levels |-> IF ht < f THEN Zero ELSE IF ht = f THEN s.n ELSE root_nodes[ht]]
  BY DEF Add
<1> HIDE DEF s
<1>5. s.n \in Node
  BY <1>3, SizeOfLinked DEF Tops
<1>6. /\ root_nodes \in [Levels -> Node]
      /\ \A ht \in Levels : root_nodes[ht] # Zero => root_nodes[ht] \in Tops(parent) /\ Len(root_nodes[ht]) = 2^ht
  BY DEF BridgeInv, RootsAreTops
<1>7. \A ht \in Levels : ht \in Nat /\ (ht < f => ht \in 0 .. f - 1)
  BY <1>1 DEF Levels
<1>8. \A i \in 0 .. f - 1 : i \in Levels /\ i \in Nat /\ root_nodes[i] # Zero
  BY <1>1, FirstFreeIs DEF Levels
<1>9. Zero \in Node
  BY EmptySeq DEF Zero, Node
<1>10. ASSUME NEW ht \in Levels, ht > f, root_nodes[ht] # Zero PROVE root_nodes[ht] \notin past
  <2> SUFFICES ASSUME NEW i \in 0 .. f - 1, root_nodes[i] = root_nodes[ht] PROVE FALSE
    BY DEF past
  <2>1. Len(root_nodes[ht]) = 2^i /\ Len(root_nodes[ht]) = 2^ht
    BY <1>6, <1>8, <1>10
  <2>2. i = ht
    BY <1>7, <1>8, <2>1, PowersDiffer
  <2> QED
    BY <1>1, <1>10, <2>2
<1>11. RootsAreTops'
  <2>1. root_nodes' \in [Levels -> Node]
    BY <1>4, <1>5, <1>6, <1>9
  <2>2. ASSUME NEW ht \in Levels, root_nodes'[ht] # Zero
        PROVE  root_nodes'[ht] \in Tops(parent') /\ Len(root_nodes'[ht]) = 2^ht
    <3>1. CASE ht < f
      BY <1>4, <2>2, <3>1
    <3>2. CASE ht = f
      BY <1>3, <1>4, <3>2, <1>1
    <3>3. CASE ht > f
      <4>1. root_nodes'[ht] = root_nodes[ht]
        BY <1>1, <1>4, <1>7, <3>3
      <4>2. root_nodes[ht] \notin past
        BY <1>10, <2>2, <3>3, <4>1
      <4> HIDE DEF past
      <4> QED
        BY <1>3, <1>4, <1>6, <2>2, <4>1, <4>2
    <3> QED
      BY <1>1, <1>7, <3>1, <3>2, <3>3
  <2> QED
    BY <2>1, <2>2 DEF RootsAreTops
<1>12. TopsAreRoots'
  <2> SUFFICES ASSUME NEW t \in Tops(parent')
               PROVE  Len(t) = 2^Height \/ \E ht \in Levels : t = root_nodes'[ht]
    BY DEF TopsAreRoots
  <2>1. CASE t = s.n
    <3>1. CASE f = Height
      BY <1>3, <2>1, <3>1
    <3>2. CASE f # Height
      <4>1. f \in Levels /\ ~(f < f)
        BY <1>1, <3>2 DEF Levels
      <4>2. root_nodes'[f] = s.n
        BY <1>4, <4>1
      <4> QED
        BY <2>1, <4>1, <4>2
    <3> QED
      BY <3>1, <3>2
  <2>2. CASE t # s.n
    <3>1. t \in Tops(parent) /\ t \notin past
      <4> HIDE DEF past
      <4> QED
        BY <1>3, <1>4, <2>2
    <3>2. Len(t) = 2^Height \/ \E ht \in Levels : t = root_nodes[ht]
      BY <3>1 DEF BridgeInv, TopsAreRoots
    <3>3. ASSUME NEW ht \in Levels, t = root_nodes[ht] PROVE root_nodes'[ht] = t
      <4>1. ~(ht < f)
        BY <1>7, <3>1, <3>3 DEF past
      <4>2. ht # f
        <5>1. t # Zero
          BY <3>1, SizeOfLinked DEF Tops, BridgeInv
        <5> QED
          BY <3>3, <5>1, FirstFreeIs
      <4> QED
        BY <1>4, <3>3, <4>1, <4>2
    <3> QED
      BY <3>2, <3>3
  <2> QED
    BY <2>1, <2>2
<1>13. KeysAreLeaves'
  <2>1. IsFiniteSet(leaf_nodes')
    BY <1>4, FS_AddElement DEF BridgeInv, KeysAreLeaves
  <2>2. leaf_nodes' = {y \in Leaf : <<y>> \in DOMAIN parent'}
    BY <1>3, <1>4 DEF BridgeInv, KeysAreLeaves
  <2> QED
    BY <2>1, <2>2 DEF KeysAreLeaves
<1> QED
  BY <1>3, <1>4, <1>11, <1>12, <1>13 DEF BridgeInv

-----------------------------------------------------------------------------
(* GET /delete *)

\* The siblings that the loop of utreexo_delete has yet to visit, and what the
\* attributes will be once they point to nothing.
Pending(x, ht) == {ProofOf(x)[i] : i \in ht + 1 .. PathLen(x)}
Masked(par, P) == [t \in DOMAIN par |-> IF t \in P THEN Zero ELSE par[t]]

\* What the loop keeps: without the leaf's path, the trees that were built, the
\* roots, and the siblings still to come are the tops of a forest.
UnlinkedInv(x, ht, s) ==
  LET P == Pending(x, ht)
      m == Masked(s.parent, P)
  IN  /\ Linked(m) /\ P \subseteq DOMAIN m
      /\ s.n # Zero => /\ s.n \in Tops(m) \ P /\ Len(s.n) = 2^ht
                       /\ \A i \in Levels : i # PathLen(x) => s.roots[i] # s.n
      /\ \A i \in Levels : i # PathLen(x) /\ s.roots[i] # Zero =>
           s.roots[i] \in Tops(m) \ P /\ Len(s.roots[i]) = 2^i
      /\ \A i \in Levels : i >= ht => s.roots[i] = root_nodes[i]
      /\ \A t \in Tops(m) \ P : \/ t = s.n \/ Len(t) = 2^Height
                                \/ \E i \in Levels : i # PathLen(x) /\ t = s.roots[i]
      /\ \A y : <<y>> \in DOMAIN m <=> <<y>> \in DOMAIN parent /\ y # x

\* The node at the end of a path is a root, or below none.
LEMMA PathEnd ==
  ASSUME BridgeInv, NEW x \in leaf_nodes
  PROVE  /\ <<x>> \in DOMAIN parent /\ x \in Leaf
         /\ PathLen(x) \in 0 .. Height
         /\ PathLen(x) \in Levels => root_nodes[PathLen(x)] = Path(x)[PathLen(x)]
<1> DEFINE K == PathLen(x)
           t == Path(x)[K]
<1>1. <<x>> \in DOMAIN parent /\ x \in Leaf /\ Linked(parent)
  BY DEF BridgeInv, KeysAreLeaves
<1>2. K \in 0 .. Height /\ K \in Nat /\ K \in 0 .. K /\ Height \in Nat
  BY <1>1, PathShape, HeightAssumption
<1>3. t \in Tops(parent) /\ Len(t) = 2^K
  BY <1>1, <1>2, PathShape DEF Tops
<1> HIDE DEF K, t
<1>4. ASSUME K \in Levels PROVE root_nodes[K] = t
  <2>1. Len(t) # 2^Height
    <3> SUFFICES ASSUME Len(t) = 2^Height PROVE FALSE
      OBVIOUS
    <3>1. K = Height
      BY <1>2, <1>3, PowersDiffer
    <3> QED
      BY <1>2, <1>4, <3>1 DEF Levels
  <2>2. PICK ht \in Levels : t = root_nodes[ht]
    BY <1>3, <2>1 DEF BridgeInv, TopsAreRoots
  <2>3. t # Zero
    BY <1>1, <1>3, SizeOfLinked DEF Tops
  <2>4. Len(t) = 2^ht /\ ht \in Nat
    BY <1>2, <2>2, <2>3 DEF BridgeInv, RootsAreTops, Levels
  <2>5. ht = K
    BY <1>2, <1>3, <2>4, PowersDiffer
  <2> QED
    BY <2>2, <2>5
<1> QED
  BY <1>1, <1>2, <1>4 DEF K, t

\* A child of a node on the path is on the path or in the proof.
LEMMA PathChildren ==
  ASSUME Linked(parent), NEW x, <<x>> \in DOMAIN parent, NEW j \in 1 .. PathLen(x),
         NEW c \in {Left(Path(x)[j]), Right(Path(x)[j])}
  PROVE  c = Path(x)[j - 1] \/ c = ProofOf(x)[j]
<1> DEFINE t == Path(x)[j]
           d == Path(x)[j - 1]
           p == ProofOf(x)[j]
<1>1. PathLen(x) \in 0 .. Height /\ PathLen(x) \in Nat /\ j - 1 \in 0 .. PathLen(x)
  BY PathShape, HeightAssumption
<1>2. /\ p \in DOMAIN parent /\ Len(p) = 2^(j - 1)
      /\ d \in DOMAIN parent /\ Len(d) = 2^(j - 1)
      /\ t = Hash(d, p) \/ t = Hash(p, d)
  BY <1>1, ProofSteps, PathShape
<1>3. p \in Node /\ d \in Node
  BY <1>2, SizeOfLinked
<1>4. /\ Left(Hash(d, p)) = d /\ Right(Hash(d, p)) = p
      /\ Left(Hash(p, d)) = p /\ Right(Hash(p, d)) = d
  BY <1>2, <1>3, HashOfEquals
<1>5. c = Left(t) \/ c = Right(t)
  OBVIOUS
<1> HIDE DEF t, d, p
<1>6. c = d \/ c = p
  <2>1. CASE t = Hash(d, p)
    BY <1>4, <1>5, <2>1
  <2>2. CASE t = Hash(p, d)
    BY <1>4, <1>5, <2>2
  <2> QED
    BY <1>2, <2>1, <2>2
<1> QED
  BY <1>6 DEF d, p

\* The nodes of the path.
OnPath(x) == {Path(x)[i] : i \in DOMAIN Path(x)}

\* A node that is neither on the path nor a sibling has its parent off the path,
\* and the children of a node off the path are neither.
LEMMA OffPath ==
  ASSUME Linked(parent), NEW x, <<x>> \in DOMAIN parent, NEW t \in DOMAIN parent, t \notin OnPath(x)
  PROVE  /\ t \notin Pending(x, 0) => parent[t] \notin OnPath(x) \/ parent[t] = Zero
         /\ \A s \in DOMAIN parent : parent[s] = t => s \notin OnPath(x) /\ s \notin Pending(x, 0)
<1> DEFINE K == PathLen(x)
<1>1. /\ DOMAIN Path(x) = 0 .. Height + 1 /\ K \in 0 .. Height /\ Height \in Nat /\ K \in Nat
      /\ K \in DOMAIN Path(x)
  BY PathSteps, PathShape, HeightAssumption
<1>2. \A i \in 0 .. Height + 1 : i \in 0 .. K \/ i \in K + 1 .. Height + 1
  BY <1>1
<1>3. \A i \in 0 .. K - 1 : parent[Path(x)[i]] = Path(x)[i + 1]
  BY PathShape
<1>4. parent[Path(x)[K]] = Zero
  BY PathShape
<1>5. \A i \in K + 1 .. Height + 1 : Path(x)[i] = Zero
  BY PathShape
<1>6. t # Zero
  BY SizeOfLinked
<1>7. ASSUME t \notin Pending(x, 0), parent[t] \in OnPath(x), parent[t] # Zero PROVE FALSE
  <2>1. PICK i \in 0 .. Height + 1 : parent[t] = Path(x)[i]
    BY <1>1, <1>7 DEF OnPath
  <2>2. i \in 0 .. K
    BY <1>2, <1>5, <1>7, <2>1
  <2>3. t \in {Left(Path(x)[i]), Right(Path(x)[i])} /\ Len(Path(x)[i]) = 2 * Len(t)
    BY <1>7, <2>1 DEF Linked, LinkedNode
  <2>4. i # 0
    <3> SUFFICES ASSUME i = 0 PROVE FALSE
      OBVIOUS
    <3>1. Len(Path(x)[i]) = 1 /\ Len(t) \in Nat
      BY <2>2, PathShape, PowersOfTwo, SizeOfLinked
    <3>2. 2 * Len(t) = 1
      BY <2>3, <3>1, Zenon
    <3> QED
      BY <3>1, <3>2
  <2>5. i \in 1 .. K /\ i - 1 \in DOMAIN Path(x) /\ i \in 0 + 1 .. K
    BY <1>1, <2>2, <2>4
  <2>6. t = Path(x)[i - 1] \/ t = ProofOf(x)[i]
    BY <2>3, <2>5, PathChildren
  <2> QED
    BY <1>7, <2>5, <2>6 DEF OnPath, Pending
<1>8. ASSUME NEW s \in DOMAIN parent, parent[s] = t, s \in OnPath(x) PROVE FALSE
  <2>1. PICK i \in 0 .. Height + 1 : s = Path(x)[i]
    BY <1>1, <1>8 DEF OnPath
  <2>2. i \in 0 .. K
    <3>1. s # Zero
      BY SizeOfLinked
    <3> QED
      BY <1>2, <1>5, <2>1, <3>1
  <2>3. CASE i = K
    BY <1>4, <1>6, <1>8, <2>1, <2>3
  <2>4. CASE i # K
    <3>1. i \in 0 .. K - 1 /\ i + 1 \in DOMAIN Path(x)
      BY <1>1, <2>2, <2>4
    <3>2. t = Path(x)[i + 1]
      BY <1>3, <1>8, <2>1, <3>1
    <3> QED
      BY <3>1, <3>2 DEF OnPath
  <2> QED
    BY <2>3, <2>4
<1>9. ASSUME NEW s \in DOMAIN parent, parent[s] = t, s \in Pending(x, 0) PROVE FALSE
  <2>1. PICK i \in 0 + 1 .. K : s = ProofOf(x)[i]
    BY <1>9 DEF Pending
  <2>2. i \in 1 .. K /\ i \in DOMAIN Path(x)
    BY <1>1
  <2>3. parent[s] = Path(x)[i]
    BY <2>1, <2>2, ProofSteps
  <2> QED
    BY <1>9, <2>2, <2>3 DEF OnPath
<1> QED
  BY <1>7, <1>8, <1>9

\* Taking the path away leaves a forest whose new tops are the siblings.
LEMMA Cutting ==
  ASSUME BridgeInv, NEW x \in leaf_nodes, NEW s, s.n = Zero, s.roots = root_nodes,
         s.parent = [t \in DOMAIN parent \ OnPath(x) |-> parent[t]]
  PROVE  UnlinkedInv(x, 0, s)
<1> DEFINE K == PathLen(x)
           P == Pending(x, 0)
           m == Masked(s.parent, P)
<1>1. <<x>> \in DOMAIN parent /\ x \in Leaf /\ Linked(parent) /\ K \in 0 .. Height /\ Height \in Nat
  BY PathEnd, HeightAssumption DEF BridgeInv
<1>2. /\ DOMAIN m = DOMAIN parent \ OnPath(x)
      /\ \A t \in DOMAIN m : m[t] = IF t \in P THEN Zero ELSE parent[t]
  BY DEF Masked
<1>3. \A t \in P : \E i \in 1 .. K : t = ProofOf(x)[i]
  BY DEF Pending
<1>4. /\ \A t \in P : /\ t \in DOMAIN parent /\ t \notin OnPath(x) /\ parent[t] # Zero
                      /\ t # Zero
  <2> SUFFICES ASSUME NEW i \in 1 .. K
               PROVE  LET t == ProofOf(x)[i] IN
                      t \in DOMAIN parent /\ t \notin OnPath(x) /\ parent[t] # Zero /\ t # Zero
    BY <1>3
  <2>1. ProofOf(x)[i] \in DOMAIN parent /\ parent[ProofOf(x)[i]] = Path(x)[i]
    BY <1>1, ProofSteps
  <2>2. Path(x)[i] # Zero
    <3>1. i \in 0 .. K
      BY <1>1
    <3>2. Path(x)[i] \in DOMAIN parent
      BY <1>1, <3>1, PathShape
    <3> QED
      BY <1>1, <3>2, SizeOfLinked
  <2>3. ProofOf(x)[i] \notin OnPath(x)
    BY <1>1, ProofNodes DEF OnPath
  <2> QED
    BY <1>1, <2>1, <2>2, <2>3, SizeOfLinked
<1> HIDE DEF m, P, K
<1>5. ASSUME NEW t \in DOMAIN m PROVE LinkedNode(m, t)
  <2>1. t \in DOMAIN parent /\ t \notin OnPath(x) /\ LinkedNode(parent, t) /\ t # Zero
    BY <1>1, <1>2, SizeOfLinked DEF Linked
  <2>2. m[t] # Zero => /\ m[t] \in DOMAIN m /\ Len(m[t]) = 2 * Len(t)
                       /\ t \in {Left(m[t]), Right(m[t])}
    <3> SUFFICES ASSUME m[t] # Zero
                 PROVE  /\ m[t] \in DOMAIN m /\ Len(m[t]) = 2 * Len(t)
                        /\ t \in {Left(m[t]), Right(m[t])}
      OBVIOUS
    <3>1. t \notin P /\ m[t] = parent[t]
      BY <1>2
    <3>2. parent[t] \notin OnPath(x)
      BY <1>1, <2>1, <3>1, OffPath DEF P
    <3> QED
      BY <1>2, <2>1, <3>1, <3>2 DEF LinkedNode
  <2>3. Len(t) # 1 => \A c \in {Left(t), Right(t)} : c \in DOMAIN m /\ m[c] = t
    <3> SUFFICES ASSUME Len(t) # 1, NEW c \in {Left(t), Right(t)}
                 PROVE  c \in DOMAIN m /\ m[c] = t
      OBVIOUS
    <3>1. c \in DOMAIN parent /\ parent[c] = t
      BY <2>1 DEF LinkedNode
    <3>2. c \notin OnPath(x) /\ c \notin P
      BY <1>1, <2>1, <3>1, OffPath DEF P
    <3> QED
      BY <1>2, <3>1, <3>2
  <2> QED
    BY <2>1, <2>2, <2>3 DEF LinkedNode
<1>6. Linked(m)
  BY <1>1, <1>2, <1>5 DEF Linked
<1>7. P \subseteq DOMAIN m
  BY <1>2, <1>4
<1>8. \A t \in DOMAIN m : t \in Tops(m) \ P <=> t \in Tops(parent)
  BY <1>2, <1>4 DEF Tops
<1>9. ASSUME NEW i \in DOMAIN Path(x), Path(x)[i] \in Tops(parent) PROVE Path(x)[i] = Path(x)[K] /\ Len(Path(x)[i]) = 2^K
  <2>1. i \in 0 .. Height + 1
    BY <1>1, PathSteps
  <2>2. Path(x)[i] # Zero
    BY <1>1, <1>9, SizeOfLinked DEF Tops
  <2>3. i \in 0 .. K
    BY <1>1, <2>1, <2>2, PathShape DEF K
  <2>4. i = K
    <3> SUFFICES ASSUME i # K PROVE FALSE
      OBVIOUS
    <3>1. i \in 0 .. K - 1 /\ i + 1 \in 0 .. K
      BY <1>1, <2>3
    <3>2. parent[Path(x)[i]] = Path(x)[i + 1] /\ Path(x)[i + 1] \in DOMAIN parent
      BY <1>1, <3>1, PathShape DEF K
    <3> QED
      BY <1>1, <1>9, <3>2, SizeOfLinked DEF Tops
  <2> QED
    BY <1>1, <2>3, <2>4, PathShape DEF K
<1>10. ASSUME NEW i \in Levels, i # K, root_nodes[i] # Zero
       PROVE  root_nodes[i] \in Tops(m) \ P /\ Len(root_nodes[i]) = 2^i
  <2>1. root_nodes[i] \in Tops(parent) /\ Len(root_nodes[i]) = 2^i /\ i \in Nat
    BY <1>1, <1>10 DEF BridgeInv, RootsAreTops, Levels
  <2>2. root_nodes[i] \notin OnPath(x)
    <3> SUFFICES ASSUME NEW j \in DOMAIN Path(x), root_nodes[i] = Path(x)[j] PROVE FALSE
      BY DEF OnPath
    <3>1. Len(root_nodes[i]) = 2^K
      BY <1>9, <2>1
    <3> QED
      BY <1>1, <1>10, <2>1, <3>1, PowersDiffer
  <2>3. root_nodes[i] \in DOMAIN m
    BY <1>2, <2>1, <2>2 DEF Tops
  <2> QED
    BY <1>8, <2>1, <2>3
<1>11. ASSUME NEW t \in Tops(m) \ P
       PROVE  Len(t) = 2^Height \/ \E i \in Levels : i # K /\ t = root_nodes[i]
  <2>1. t \in DOMAIN m /\ t \in Tops(parent) /\ t \notin OnPath(x)
    BY <1>2, <1>8 DEF Tops
  <2>2. CASE Len(t) = 2^Height
    BY <2>2
  <2>3. CASE Len(t) # 2^Height
    <3>1. PICK i \in Levels : t = root_nodes[i]
      BY <2>1, <2>3 DEF BridgeInv, TopsAreRoots
    <3>2. i # K
      <4> SUFFICES ASSUME i = K PROVE FALSE
        OBVIOUS
      <4>1. t = Path(x)[K]
        BY <3>1, PathEnd DEF K
      <4>2. K \in DOMAIN Path(x)
        BY <1>1, PathSteps
      <4> QED
        BY <2>1, <4>1, <4>2 DEF OnPath
    <3> QED
      BY <3>1, <3>2
  <2> QED
    BY <2>2, <2>3
<1>12. ASSUME NEW y PROVE <<y>> \in OnPath(x) <=> y = x
  <2>1. y = x => <<y>> \in OnPath(x)
    <3>1. 0 \in DOMAIN Path(x) /\ Path(x)[0] = <<x>>
      BY <1>1, PathSteps
    <3> QED
      BY <3>1 DEF OnPath
  <2>2. ASSUME NEW j \in DOMAIN Path(x), <<y>> = Path(x)[j] PROVE y = x
    <3>1. Path(x)[j] # Zero
      <4>1. <<y>> # Zero
        BY DEF Zero
      <4> QED
        BY <2>2, <4>1, Zenon
    <3>2. x \in Range(Path(x)[j])
      <4>1. j \in 0 .. Height + 1
        BY <1>1, PathSteps
      <4> QED
        BY <1>1, <3>1, <4>1, PathLevels
    <3>3. Range(<<y>>) = {y}
      BY DEF Range
    <3>4. x \in Range(<<y>>)
      BY <2>2, <3>2, Zenon
    <3> QED
      BY <3>3, <3>4
  <2> QED
    BY <2>1, <2>2 DEF OnPath
<1>13. \A y : <<y>> \in DOMAIN m <=> <<y>> \in DOMAIN parent /\ y # x
  BY <1>2, <1>12
<1>14. \A i \in Levels : s.roots[i] = root_nodes[i]
  OBVIOUS
<1> QED
  BY <1>6, <1>7, <1>10, <1>11, <1>13, <1>14 DEF UnlinkedInv, m, P, K

\* A round of the loop of utreexo_delete at height ht: p is the sibling, r the
\* root that was there, s and s2 what the loop works on before and after it.
UnlinkedRound(ht, p, r, s, s2) ==
  /\ s.n # Zero => /\ s2.n = Hash(p, s.n) /\ s2.roots = s.roots
                   /\ s2.parent = ParentNode(s.parent, p, s.n)
  /\ s.n = Zero /\ r = Zero => /\ s2.n = Zero /\ s2.roots = [s.roots EXCEPT ![ht] = p]
                               /\ s2.parent = [s.parent EXCEPT ![p] = Zero]
  /\ s.n = Zero /\ r # Zero => /\ s2.n = Hash(p, r) /\ s2.roots = [s.roots EXCEPT ![ht] = Zero]
                               /\ s2.parent = ParentNode(s.parent, p, r)

UnlinkedType(s) == s.n \in Node /\ s.roots \in [Levels -> Node] /\ s.parent \in Attributes

\* The loop of utreexo_delete, round by round.
LEMMA UnlinkedSteps ==
  ASSUME BridgeInv, NEW x \in leaf_nodes
  PROVE  /\ Unlinked(x)[0].n = Zero /\ Unlinked(x)[0].roots = root_nodes
         /\ Unlinked(x)[0].parent = [t \in DOMAIN parent \ OnPath(x) |-> parent[t]]
         /\ \A ht \in 0 .. PathLen(x) : UnlinkedType(Unlinked(x)[ht])
         /\ \A ht \in 0 .. PathLen(x) - 1 :
              UnlinkedRound(ht, ProofOf(x)[ht + 1], root_nodes[ht], Unlinked(x)[ht], Unlinked(x)[ht + 1])
<1> DEFINE K == PathLen(x)
           S == [n : Node, roots : [Levels -> Node], parent : Attributes]
           Live == {t \in DOMAIN parent : \A i \in DOMAIN Path(x) : t # Path(x)[i]}
           start == [n |-> Zero, roots |-> root_nodes, parent |-> Restrict(parent, Live)]
           Next1(s, p, r, i) ==
             IF s.n # Zero
               THEN [s EXCEPT !.n = Hash(p, s.n), !.parent = ParentNode(@, p, s.n)]
             ELSE IF r = Zero
               THEN [s EXCEPT !.roots[i] = p, !.parent[p] = Zero]
             ELSE [n |-> Hash(p, r),
                   roots |-> [s.roots EXCEPT ![i] = Zero],
                   parent |-> ParentNode(s.parent, p, r)]
           step == [ht \in 1 .. K |-> [s \in S |-> Next1(s, ProofOf(x)[ht], root_nodes[ht - 1], ht - 1)]]
           P(g) == g = [ht \in 0 .. K |->
                          IF ht = 0 THEN start
                          ELSE Next1(g[ht - 1], ProofOf(x)[ht], root_nodes[ht - 1], ht - 1)]
<1>1. /\ K \in Nat /\ K \in 0 .. Height /\ Height \in Nat /\ Linked(parent) /\ <<x>> \in DOMAIN parent
      /\ Zero \in Node
  BY PathEnd, HeightAssumption, EmptySeq DEF BridgeInv, Zero, Node
<1>2. start \in S
  <2>1. \A t \in DOMAIN parent : t \in Node /\ parent[t] \in Node
    BY <1>1, AttributesOfLinked
  <2>2. Restrict(parent, Live) \in [Live -> Node] /\ Live \in SUBSET Node
    BY <2>1 DEF Restrict
  <2>3. Restrict(parent, Live) \in Attributes
    BY <2>2 DEF Attributes
  <2>4. root_nodes \in [Levels -> Node]
    BY DEF BridgeInv, RootsAreTops
  <2> HIDE DEF Live
  <2> QED
    BY <1>1, <2>3, <2>4
<1>3. ASSUME NEW s \in S, NEW p \in Node, NEW r \in Node, NEW i \in Levels
      PROVE  Next1(s, p, r, i) \in S
  <2>1. s.n \in Node /\ s.roots \in [Levels -> Node] /\ s.parent \in Attributes
    OBVIOUS
  <2>2. \A q \in Node : Hash(p, q) \in Node /\ ParentNode(s.parent, p, q) \in Attributes
    BY <2>1, ParentNodeType
  <2>3. [s.parent EXCEPT ![p] = Zero] \in Attributes
    BY <1>1, <2>1 DEF Attributes
  <2>4. [s.roots EXCEPT ![i] = p] \in [Levels -> Node] /\ [s.roots EXCEPT ![i] = Zero] \in [Levels -> Node]
    BY <1>1, <2>1
  <2>5. CASE s.n # Zero
    BY <2>1, <2>2, <2>5
  <2>6. CASE s.n = Zero /\ r = Zero
    BY <2>1, <2>3, <2>4, <2>6
  <2>7. CASE s.n = Zero /\ r # Zero
    BY <2>1, <2>2, <2>4, <2>7
  <2> QED
    BY <2>5, <2>6, <2>7
<1>4. \A ht \in 1 .. K : /\ ProofOf(x)[ht] \in Node /\ root_nodes[ht - 1] \in Node /\ ht - 1 \in Levels
  <2> SUFFICES ASSUME NEW ht \in 1 .. K
               PROVE  ProofOf(x)[ht] \in Node /\ root_nodes[ht - 1] \in Node /\ ht - 1 \in Levels
    OBVIOUS
  <2>1. ht - 1 \in Levels
    BY <1>1 DEF Levels
  <2>2. ProofOf(x)[ht] \in DOMAIN parent
    BY <1>1, ProofSteps
  <2> QED
    BY <1>1, <2>1, <2>2, SizeOfLinked DEF BridgeInv, RootsAreTops
<1>5. step \in [1 .. K -> [S -> S]]
  <2> HIDE DEF S, Next1, K
  <2> QED
    BY <1>3, <1>4
<1>6. PICK f \in [0 .. K -> S] : Iterates(f, K, start, step)
  <2> HIDE DEF S, start, step, K
  <2> QED
    BY <1>1, <1>2, <1>5, Iteration
<1>7. P(f)
  <2>1. ASSUME NEW ht \in 1 .. K
        PROVE  f[ht] = Next1(f[ht - 1], ProofOf(x)[ht], root_nodes[ht - 1], ht - 1)
    <3>1. ht - 1 \in 0 .. K
      BY <1>1
    <3>2. f[ht] = step[ht][f[ht - 1]] /\ f[ht - 1] \in S
      BY <1>6, <3>1 DEF Iterates
    <3> HIDE DEF S, Next1, K
    <3> QED
      BY <3>2
  <2>2. f[0] = start
    BY <1>6 DEF Iterates
  <2>3. \A ht \in 0 .. K : ht # 0 => ht \in 1 .. K
    BY <1>1
  <2>4. f = [ht \in 0 .. K |-> f[ht]]
    OBVIOUS
  <2> HIDE DEF S, start, Next1, K
  <2> QED
    BY <2>1, <2>2, <2>3, <2>4
<1>8. Unlinked(x) = CHOOSE g : P(g)
  BY DEF Unlinked
<1> DEFINE U == Unlinked(x)
<1>9. P(U)
  <2> HIDE DEF P
  <2> QED
    BY <1>7, <1>8, Zenon
<1> HIDE DEF U
<1>10. U[0] = start
  <2>1. 0 \in 0 .. K
    BY <1>1
  <2> HIDE DEF start, Next1, K
  <2> QED
    BY <1>9, <2>1
<1>11. ASSUME NEW ht \in 0 .. K - 1
       PROVE  U[ht + 1] = Next1(U[ht], ProofOf(x)[ht + 1], root_nodes[ht], ht)
  <2>1. ht + 1 \in 0 .. K /\ ht + 1 # 0 /\ (ht + 1) - 1 = ht
    BY <1>1
  <2> HIDE DEF start, Next1, K
  <2> QED
    BY <1>9, <2>1
<1>12. \A ht \in 0 .. K : U[ht] \in S
  <2>1. ASSUME NEW ht \in 0 .. K - 1, U[ht] \in S PROVE U[ht + 1] \in S
    <3>1. ht + 1 \in 1 .. K /\ (ht + 1) - 1 = ht
      BY <1>1
    <3>2. ProofOf(x)[ht + 1] \in Node /\ root_nodes[ht] \in Node /\ ht \in Levels
      BY <1>4, <3>1
    <3> HIDE DEF S, Next1, K
    <3> QED
      BY <1>3, <1>11, <2>1, <3>2
  <2> HIDE DEF S, start, K
  <2> QED
    BY <1>1, <1>2, <1>10, <2>1, Stays
<1>13. ASSUME NEW ht \in 0 .. K PROVE UnlinkedType(U[ht])
  BY <1>12 DEF UnlinkedType
<1>14. ASSUME NEW s \in S, NEW p, NEW r, NEW ht
       PROVE  UnlinkedRound(ht, p, r, s, Next1(s, p, r, ht))
  <2>1. CASE s.n # Zero
    BY <2>1 DEF UnlinkedRound
  <2>2. CASE s.n = Zero /\ r = Zero
    BY <2>2 DEF UnlinkedRound
  <2>3. CASE s.n = Zero /\ r # Zero
    BY <2>3 DEF UnlinkedRound
  <2> QED
    BY <2>1, <2>2, <2>3
<1>15. ASSUME NEW ht \in 0 .. K - 1
       PROVE  UnlinkedRound(ht, ProofOf(x)[ht + 1], root_nodes[ht], U[ht], U[ht + 1])
  <2>1. ht \in 0 .. K
    BY <1>1
  <2> HIDE DEF S, Next1, K
  <2> QED
    BY <1>11, <1>12, <1>14, <2>1
<1>16. Restrict(parent, Live) = [t \in DOMAIN parent \ OnPath(x) |-> parent[t]]
  BY DEF Restrict, OnPath
<1>17. start.n = Zero /\ start.roots = root_nodes /\ start.parent = [t \in DOMAIN parent \ OnPath(x) |-> parent[t]]
  BY <1>16
<1> HIDE DEF start
<1> QED
  BY <1>10, <1>13, <1>15, <1>17 DEF U

\* The sibling of the next round, and the ones after it.
LEMMA NextPending ==
  ASSUME Linked(parent), NEW x, <<x>> \in DOMAIN parent, NEW ht \in 0 .. PathLen(x) - 1
  PROVE  /\ Pending(x, ht) = Pending(x, ht + 1) \union {ProofOf(x)[ht + 1]}
         /\ ProofOf(x)[ht + 1] \notin Pending(x, ht + 1)
         /\ Len(ProofOf(x)[ht + 1]) = 2^ht /\ ProofOf(x)[ht + 1] \in Node
<1> DEFINE K == PathLen(x)
<1>1. K \in 0 .. Height /\ Height \in Nat /\ K \in Nat /\ ht \in Nat /\ ht + 1 \in 1 .. K /\ (ht + 1) - 1 = ht
  BY PathShape, HeightAssumption
<1>2. ProofOf(x)[ht + 1] \in DOMAIN parent /\ Len(ProofOf(x)[ht + 1]) = 2^ht
  <2>1. Len(ProofOf(x)[ht + 1]) = 2^((ht + 1) - 1)
    BY <1>1, ProofSteps
  <2> QED
    BY <1>1, <2>1, ProofSteps
<1>3. ASSUME NEW i \in (ht + 1) + 1 .. K, ProofOf(x)[i] = ProofOf(x)[ht + 1] PROVE FALSE
  <2>1. i \in 1 .. K /\ i - 1 \in Nat /\ i - 1 # ht
    BY <1>1
  <2>2. Len(ProofOf(x)[i]) = 2^(i - 1)
    BY <2>1, ProofSteps
  <2>3. 2^(i - 1) = 2^ht
    BY <1>2, <1>3, <2>2
  <2> QED
    BY <1>1, <2>1, <2>3, PowersDiffer
<1>4. ht + 1 .. K = ((ht + 1) + 1 .. K) \union {ht + 1}
  BY <1>1
<1> HIDE DEF K
<1>5. Pending(x, ht) = Pending(x, ht + 1) \union {ProofOf(x)[ht + 1]}
  BY <1>4 DEF Pending, K
<1>6. ProofOf(x)[ht + 1] \notin Pending(x, ht + 1)
  BY <1>3 DEF Pending, K
<1> QED
  BY <1>2, <1>5, <1>6, SizeOfLinked

\* A new node above a pending top and another top, seen without what is pending.
LEMMA MaskedLink ==
  ASSUME NEW par, NEW P, NEW p \in DOMAIN par \intersect P, NEW q \in DOMAIN par \ P,
         Hash(p, q) \notin DOMAIN par
  PROVE  Masked(ParentNode(par, p, q), P \ {p}) = ParentNode(Masked(par, P), p, q)
<1> DEFINE H == Hash(p, q)
           a == Masked(ParentNode(par, p, q), P \ {p})
           b == ParentNode(Masked(par, P), p, q)
           D == DOMAIN par \union {p, q, H}
<1>1. a = [t \in D |-> IF t \in P \ {p} THEN Zero
                       ELSE IF t \in {p, q} THEN H ELSE IF t = H THEN Zero ELSE par[t]]
  BY DEF Masked, ParentNode
<1>2. b = [t \in D |-> IF t \in {p, q} THEN H ELSE IF t = H THEN Zero
                       ELSE IF t \in P THEN Zero ELSE par[t]]
  <2> HIDE DEF H
  <2> QED
    BY DEF Masked, ParentNode, H
<1>3. H # p /\ H # q
  OBVIOUS
<1> HIDE DEF a, b, H
<1>4. ASSUME NEW t \in D PROVE a[t] = b[t]
  <2>1. CASE t \in {p, q}
    BY <1>1, <1>2, <2>1
  <2>2. CASE t = H
    BY <1>1, <1>2, <1>3, <2>2
  <2>3. CASE t \notin {p, q, H}
    BY <1>1, <1>2, <2>3
  <2> QED
    BY <2>1, <2>2, <2>3
<1> QED
  BY <1>1, <1>2, <1>4 DEF a, b

\* The roots after tree q was used up: if q was the root of height ht, it is none.
RootUsed(ht, q, old, new) ==
  \A i \in Levels : new[i] = old[i] \/ (i = ht /\ old[i] = q /\ new[i] = Zero)

\* A round that links the sibling with another top q, be it the node that the
\* loop carries or the root that was there.
LEMMA LinkingRound ==
  ASSUME BridgeInv, NEW x \in leaf_nodes, NEW ht \in 0 .. PathLen(x) - 1, NEW s, NEW s2, NEW q,
         UnlinkedInv(x, ht, s),
         q \in Tops(Masked(s.parent, Pending(x, ht))) \ Pending(x, ht), Len(q) = 2^ht,
         s2.n = Hash(ProofOf(x)[ht + 1], q), s2.parent = ParentNode(s.parent, ProofOf(x)[ht + 1], q),
         RootUsed(ht, q, s.roots, s2.roots),
         \A i \in Levels : i # PathLen(x) => s2.roots[i] # q,
         s.n = q \/ (s.n = Zero /\ s.roots[ht] = q)
  PROVE  UnlinkedInv(x, ht + 1, s2)
<1> DEFINE K == PathLen(x)
           p == ProofOf(x)[ht + 1]
           P == Pending(x, ht)
           Q == Pending(x, ht + 1)
           m == Masked(s.parent, P)
           m2 == Masked(s2.parent, Q)
<1>1. /\ <<x>> \in DOMAIN parent /\ Linked(parent) /\ K \in 0 .. Height /\ Height \in Nat /\ K \in Nat
      /\ ht \in Nat /\ ht \in 0 .. Height - 1 /\ ht \in Levels /\ ht # K
  BY PathEnd, HeightAssumption DEF BridgeInv, Levels
<1>2. P = Q \union {p} /\ p \notin Q /\ Len(p) = 2^ht
  BY <1>1, NextPending
<1>3. /\ Linked(m) /\ P \subseteq DOMAIN m
      /\ \A i \in Levels : i # K /\ s.roots[i] # Zero => s.roots[i] \in Tops(m) \ P /\ Len(s.roots[i]) = 2^i
      /\ \A i \in Levels : i >= ht => s.roots[i] = root_nodes[i]
      /\ \A t \in Tops(m) \ P : \/ t = s.n \/ Len(t) = 2^Height
                                \/ \E i \in Levels : i # K /\ t = s.roots[i]
      /\ \A y : <<y>> \in DOMAIN m <=> <<y>> \in DOMAIN parent /\ y # x
  BY DEF UnlinkedInv
<1>4. q \in Tops(m) \ P
  OBVIOUS
<1>5. /\ DOMAIN m = DOMAIN s.parent
      /\ \A t \in P : m[t] = Zero
  BY <1>3 DEF Masked
<1> HIDE DEF K, p, P, Q, m, m2
<1>6. p \in Tops(m) /\ p # q
  BY <1>2, <1>3, <1>4, <1>5 DEF Tops
<1>7. Merged(m, p, q, Hash(p, q), ParentNode(m, p, q)) /\ Len(Hash(p, q)) = 2^(ht + 1)
  BY <1>1, <1>2, <1>3, <1>4, <1>6, Linking
<1>8. s2.n = Hash(p, q) /\ s2.parent = ParentNode(s.parent, p, q)
  BY DEF p
<1>9. m2 = ParentNode(m, p, q)
  <2>1. Hash(p, q) \notin DOMAIN s.parent
    BY <1>5, <1>7 DEF Merged
  <2>2. p \in DOMAIN s.parent \intersect P /\ q \in DOMAIN s.parent \ P
    BY <1>2, <1>4, <1>5, <1>6 DEF Tops
  <2>3. Q = P \ {p}
    BY <1>2
  <2>4. Masked(ParentNode(s.parent, p, q), P \ {p}) = ParentNode(Masked(s.parent, P), p, q)
    BY <2>1, <2>2, MaskedLink
  <2> QED
    BY <1>8, <2>3, <2>4, Zenon DEF m, m2
<1>10. /\ Linked(m2) /\ s2.n \notin DOMAIN m /\ DOMAIN m2 = DOMAIN m \union {s2.n}
       /\ Tops(m2) = (Tops(m) \ {p, q}) \union {s2.n} /\ Len(s2.n) = 2^(ht + 1)
  BY <1>7, <1>8, <1>9 DEF Merged
<1>11. Q \subseteq DOMAIN m2
  BY <1>2, <1>3, <1>10
<1>12. s2.n \in DOMAIN m2 /\ s2.n # Zero
  BY <1>10, SizeOfLinked
<1>13. s2.n \in Tops(m2) \ Q
  BY <1>2, <1>3, <1>10
<1>14. ASSUME NEW i \in Levels, i # K, s2.roots[i] # Zero
       PROVE  /\ s2.roots[i] \in Tops(m2) \ Q /\ Len(s2.roots[i]) = 2^i
              /\ s2.roots[i] # s2.n
  <2>1. s2.roots[i] = s.roots[i] /\ s2.roots[i] # q
    BY <1>14 DEF K, RootUsed
  <2>2. s2.roots[i] \in Tops(m) \ P /\ Len(s2.roots[i]) = 2^i
    BY <1>3, <1>14, <2>1
  <2> QED
    BY <1>2, <1>10, <2>1, <2>2 DEF Tops
<1>15. \A i \in Levels : i # K => s2.roots[i] # s2.n
  BY <1>12, <1>14
<1>16. ASSUME NEW i \in Levels, i >= ht + 1 PROVE s2.roots[i] = root_nodes[i]
  <2>1. i # ht /\ i >= ht
    BY <1>1, <1>16 DEF Levels
  <2> QED
    BY <1>3, <2>1 DEF RootUsed
<1>17. ASSUME NEW t \in Tops(m2) \ Q
       PROVE  \/ t = s2.n \/ Len(t) = 2^Height
              \/ \E i \in Levels : i # K /\ t = s2.roots[i]
  <2> SUFFICES ASSUME t # s2.n, Len(t) # 2^Height
               PROVE  \E i \in Levels : i # K /\ t = s2.roots[i]
    OBVIOUS
  <2>1. t \in Tops(m) \ P /\ t # q /\ t # Zero
    <3>1. t \in Tops(m) /\ t # p /\ t # q
      BY <1>10
    <3>2. t # Zero
      BY <1>3, <3>1, SizeOfLinked DEF Tops
    <3> QED
      BY <1>2, <3>1, <3>2
  <2>2. t # s.n
    BY <2>1
  <2>3. PICK i \in Levels : i # K /\ t = s.roots[i]
    BY <1>3, <2>1, <2>2
  <2>4. s2.roots[i] = t
    BY <2>1, <2>3 DEF RootUsed
  <2> QED
    BY <2>3, <2>4
<1>18. ASSUME NEW y PROVE <<y>> \in DOMAIN m2 <=> <<y>> \in DOMAIN parent /\ y # x
  <2>1. <<y>> # s2.n
    <3> SUFFICES ASSUME <<y>> = s2.n PROVE FALSE
      OBVIOUS
    <3>1. 2^(ht + 1) # 1 /\ Len(<<y>>) = 1
      <4>1. 2^(ht + 1) = 2 * 2^ht /\ 2^ht \in Nat \ {0}
        BY <1>1, PowersOfTwo
      <4> QED
        BY <4>1
    <3>2. Len(s2.n) = 1
      BY <3>1, Zenon
    <3> QED
      BY <1>10, <3>1, <3>2, Zenon
  <2> QED
    BY <1>3, <1>10, <2>1
<1> QED
  BY <1>10, <1>11, <1>13, <1>14, <1>15, <1>16, <1>17, <1>18 DEF UnlinkedInv, K, Q, m2

\* A round that makes the sibling the root of its height.
LEMMA RootlessRound ==
  ASSUME BridgeInv, NEW x \in leaf_nodes, NEW ht \in 0 .. PathLen(x) - 1, NEW s, NEW s2,
         UnlinkedInv(x, ht, s), UnlinkedType(s), s.n = Zero, root_nodes[ht] = Zero, s2.n = Zero,
         s2.roots = [s.roots EXCEPT ![ht] = ProofOf(x)[ht + 1]],
         s2.parent = [s.parent EXCEPT ![ProofOf(x)[ht + 1]] = Zero]
  PROVE  UnlinkedInv(x, ht + 1, s2)
<1> DEFINE K == PathLen(x)
           p == ProofOf(x)[ht + 1]
           P == Pending(x, ht)
           Q == Pending(x, ht + 1)
           m == Masked(s.parent, P)
           m2 == Masked(s2.parent, Q)
<1>1. /\ <<x>> \in DOMAIN parent /\ Linked(parent) /\ K \in 0 .. Height /\ Height \in Nat /\ K \in Nat
      /\ ht \in Nat /\ ht \in 0 .. Height - 1 /\ ht \in Levels /\ ht # K
  BY PathEnd, HeightAssumption DEF BridgeInv, Levels
<1>2. P = Q \union {p} /\ p \notin Q /\ Len(p) = 2^ht
  BY <1>1, NextPending
<1>3. /\ Linked(m) /\ P \subseteq DOMAIN m
      /\ \A i \in Levels : i # K /\ s.roots[i] # Zero => s.roots[i] \in Tops(m) \ P /\ Len(s.roots[i]) = 2^i
      /\ \A i \in Levels : i >= ht => s.roots[i] = root_nodes[i]
      /\ \A t \in Tops(m) \ P : \/ t = s.n \/ Len(t) = 2^Height
                                \/ \E i \in Levels : i # K /\ t = s.roots[i]
      /\ \A y : <<y>> \in DOMAIN m <=> <<y>> \in DOMAIN parent /\ y # x
  BY DEF UnlinkedInv
<1>4. DOMAIN m = DOMAIN s.parent /\ \A t \in P : m[t] = Zero
  BY <1>3 DEF Masked
<1>5. s2.parent = [s.parent EXCEPT ![p] = Zero] /\ s2.roots = [s.roots EXCEPT ![ht] = p]
      /\ s.roots \in [Levels -> Node]
  BY DEF p, UnlinkedType
<1> HIDE DEF K, p, P, Q
<1>6. m2 = m
  <2>1. m = [t \in DOMAIN s.parent |-> IF t \in P THEN Zero ELSE s.parent[t]]
    BY DEF Masked
  <2>2. m2 = [t \in DOMAIN s.parent |-> IF t \in Q THEN Zero ELSE s2.parent[t]]
    BY <1>5 DEF Masked
  <2> HIDE DEF m, m2
  <2>3. ASSUME NEW t \in DOMAIN s.parent PROVE m2[t] = m[t]
    <3>1. CASE t = p
      BY <1>2, <1>5, <2>1, <2>2, <3>1
    <3>2. CASE t # p
      BY <1>2, <1>5, <2>1, <2>2, <3>2
    <3> QED
      BY <3>1, <3>2
  <2> QED
    BY <2>1, <2>2, <2>3
<1> HIDE DEF m, m2
<1>7. p \in Tops(m)
  BY <1>2, <1>3, <1>4 DEF Tops
<1>8. s2.roots[ht] = p /\ \A i \in Levels : i # ht => s2.roots[i] = s.roots[i]
  BY <1>1, <1>5
<1>9. Q \subseteq DOMAIN m
  BY <1>2, <1>3
<1>10. ASSUME NEW i \in Levels, i # K, s2.roots[i] # Zero
       PROVE  s2.roots[i] \in Tops(m) \ Q /\ Len(s2.roots[i]) = 2^i
  BY <1>2, <1>3, <1>7, <1>8, <1>10
<1>11. ASSUME NEW i \in Levels, i >= ht + 1 PROVE s2.roots[i] = root_nodes[i]
  <2>1. i # ht /\ i >= ht
    BY <1>1, <1>11 DEF Levels
  <2> QED
    BY <1>3, <1>8, <2>1
<1>12. ASSUME NEW t \in Tops(m) \ Q
       PROVE  Len(t) = 2^Height \/ \E i \in Levels : i # K /\ t = s2.roots[i]
  <2>1. CASE t = p
    BY <1>1, <1>8, <2>1
  <2>2. CASE t # p /\ Len(t) # 2^Height
    <3>1. t \in Tops(m) \ P
      BY <1>2, <2>2
    <3>2. t # Zero
      BY <1>3, SizeOfLinked DEF Tops
    <3>3. PICK i \in Levels : i # K /\ t = s.roots[i]
      BY <1>3, <2>2, <3>1, <3>2
    <3>4. s.roots[ht] = Zero
      <4>1. ht >= ht
        BY <1>1
      <4> QED
        BY <1>1, <1>3, <4>1
    <3>5. i # ht
      BY <3>2, <3>3, <3>4
    <3> QED
      BY <1>8, <3>3, <3>5
  <2> QED
    BY <2>1, <2>2
<1> QED
  BY <1>3, <1>6, <1>9, <1>10, <1>11, <1>12 DEF UnlinkedInv, K, Q, m2

\* So what the loop keeps holds after every round.
LEMMA UnlinkedIs ==
  ASSUME BridgeInv, NEW x \in leaf_nodes, NEW ht \in 0 .. PathLen(x)
  PROVE  UnlinkedInv(x, ht, Unlinked(x)[ht])
<1> DEFINE K == PathLen(x)
           T == {i \in 0 .. K : UnlinkedInv(x, i, Unlinked(x)[i])}
<1>1. K \in Nat /\ K \in 0 .. Height /\ Height \in Nat
  <2>1. K \in 0 .. Height
    BY PathEnd
  <2> HIDE DEF K
  <2> QED
    BY <2>1, HeightAssumption
<1>2. 0 \in T
  <2>1. /\ Unlinked(x)[0].n = Zero /\ Unlinked(x)[0].roots = root_nodes
        /\ Unlinked(x)[0].parent = [t \in DOMAIN parent \ OnPath(x) |-> parent[t]]
    BY UnlinkedSteps
  <2>2. UnlinkedInv(x, 0, Unlinked(x)[0])
    BY <2>1, Cutting
  <2> QED
    BY <1>1, <2>2
<1>3. ASSUME NEW i \in 0 .. K - 1, i \in T PROVE i + 1 \in T
  <2> DEFINE s == Unlinked(x)[i]
             s2 == Unlinked(x)[i + 1]
             p == ProofOf(x)[i + 1]
             r == root_nodes[i]
             P == Pending(x, i)
             m == Masked(s.parent, P)
  <2>1. i \in 0 .. K /\ i + 1 \in 0 .. K /\ i \in Levels /\ i # K /\ i \in Nat /\ i >= i
    BY <1>1 DEF Levels
  <2>2. UnlinkedRound(i, p, r, s, s2) /\ UnlinkedType(s)
    BY <2>1, UnlinkedSteps
  <2>3. UnlinkedInv(x, i, s)
    BY <1>3
  <2>4. s.roots \in [Levels -> Node]
    BY <2>2 DEF UnlinkedType
  <2>5. /\ s.roots[i] = r
        /\ s.n # Zero => /\ s.n \in Tops(m) \ P /\ Len(s.n) = 2^i
                         /\ \A j \in Levels : j # K => s.roots[j] # s.n
        /\ \A j \in Levels : j # K /\ s.roots[j] # Zero => s.roots[j] \in Tops(m) \ P /\ Len(s.roots[j]) = 2^j
    BY <2>1, <2>3 DEF UnlinkedInv
  <2> HIDE DEF s, s2, T
  <2>6. UnlinkedInv(x, i + 1, s2)
    <3>1. CASE s.n # Zero
      <4>1. s2.n = Hash(p, s.n) /\ s2.roots = s.roots /\ s2.parent = ParentNode(s.parent, p, s.n)
        BY <2>2, <3>1 DEF UnlinkedRound
      <4>2. s.n \in Tops(m) \ P /\ Len(s.n) = 2^i /\ \A j \in Levels : j # K => s2.roots[j] # s.n
        BY <2>5, <3>1, <4>1
      <4>3. RootUsed(i, s.n, s.roots, s2.roots)
        BY <4>1 DEF RootUsed
      <4> QED
        BY <2>3, <4>1, <4>2, <4>3, LinkingRound
    <3>2. CASE s.n = Zero /\ r = Zero
      <4>1. /\ s2.n = Zero /\ s2.roots = [s.roots EXCEPT ![i] = p]
            /\ s2.parent = [s.parent EXCEPT ![p] = Zero]
        BY <2>2, <3>2 DEF UnlinkedRound
      <4> QED
        BY <2>2, <2>3, <3>2, <4>1, RootlessRound
    <3>3. CASE s.n = Zero /\ r # Zero
      <4>1. /\ s2.n = Hash(p, r) /\ s2.roots = [s.roots EXCEPT ![i] = Zero]
            /\ s2.parent = ParentNode(s.parent, p, r)
        BY <2>2, <3>3 DEF UnlinkedRound
      <4>2. r \in Tops(m) \ P /\ Len(r) = 2^i
        BY <2>1, <2>5, <3>3
      <4>3. s2.roots[i] = Zero /\ \A j \in Levels : j # i => s2.roots[j] = s.roots[j]
        BY <2>1, <2>4, <4>1
      <4>4. ASSUME NEW j \in Levels, j # K PROVE s2.roots[j] # r
        <5>1. CASE j = i
          BY <3>3, <4>3, <5>1
        <5>2. CASE j # i
          <6> SUFFICES ASSUME s.roots[j] = r PROVE FALSE
            BY <4>3, <5>2
          <6>1. Len(r) = 2^j /\ j \in Nat
            BY <1>1, <2>5, <3>3, <4>4 DEF Levels
          <6> QED
            BY <2>1, <4>2, <5>2, <6>1, PowersDiffer
        <5> QED
          BY <5>1, <5>2
      <4>5. RootUsed(i, r, s.roots, s2.roots)
        BY <2>5, <4>3 DEF RootUsed
      <4>6. s.n = Zero /\ s.roots[i] = r
        BY <2>5, <3>3
      <4> HIDE DEF r, p
      <4> QED
        BY <2>3, <4>1, <4>2, <4>4, <4>5, <4>6, LinkingRound DEF p
    <3> QED
      BY <3>1, <3>2, <3>3
  <2> QED
    BY <2>1, <2>6 DEF s2, T
<1>4. 0 .. K \subseteq T
  <2> HIDE DEF T, K
  <2> QED
    BY <1>1, <1>2, <1>3, IntervalInduction
<1> QED
  BY <1>4

\* Deleting a leaf, be it of a tree below no root, leaves a forest of its roots.
LEMMA DeleteInv ==
  ASSUME BridgeInv, NEW x, Delete(x)
  PROVE  BridgeInv'
<1> DEFINE K == PathLen(x)
           s == Unlinked(x)[K]
<1>1. x \in leaf_nodes
  BY DEF Delete
<1>2. K \in 0 .. Height /\ Height \in Nat /\ K \in 0 .. K /\ K \in Nat
  <2>1. K \in 0 .. Height
    BY <1>1, PathEnd
  <2> HIDE DEF K
  <2> QED
    BY <2>1, HeightAssumption
<1>3. UnlinkedInv(x, K, s) /\ UnlinkedType(s)
  BY <1>1, <1>2, UnlinkedIs, UnlinkedSteps
<1>4. Pending(x, K) = {}
  <2>1. K + 1 .. K = {}
    BY <1>2
  <2> QED
    BY <2>1 DEF Pending
<1>5. Masked(s.parent, {}) = s.parent
  <2>1. s.parent = [t \in DOMAIN s.parent |-> s.parent[t]]
    BY <1>3 DEF UnlinkedType, Attributes
  <2>2. Masked(s.parent, {}) = [t \in DOMAIN s.parent |-> s.parent[t]]
    BY DEF Masked
  <2> QED
    BY <2>1, <2>2, Zenon
<1>6. /\ leaf_nodes' = leaf_nodes \ {x}
      /\ root_nodes' = [ht \in Levels |-> IF ht = K THEN s.n ELSE s.roots[ht]]
      /\ parent' = IF s.n = Zero THEN s.parent ELSE [s.parent EXCEPT ![s.n] = Zero]
  BY DEF Delete
<1> HIDE DEF s
<1>7. /\ Linked(s.parent)
      /\ s.n # Zero => s.n \in Tops(s.parent) /\ Len(s.n) = 2^K
      /\ \A i \in Levels : i # K /\ s.roots[i] # Zero => s.roots[i] \in Tops(s.parent) /\ Len(s.roots[i]) = 2^i
      /\ \A t \in Tops(s.parent) : \/ t = s.n \/ Len(t) = 2^Height
                                   \/ \E i \in Levels : i # K /\ t = s.roots[i]
      /\ \A y : <<y>> \in DOMAIN s.parent <=> <<y>> \in DOMAIN parent /\ y # x
  <2>1. \A T : T \ {} = T
    OBVIOUS
  <2> QED
    BY <1>3, <1>4, <1>5, <2>1 DEF UnlinkedInv
<1>8. parent' = s.parent
  <2>1. CASE s.n = Zero
    BY <1>6, <2>1
  <2>2. CASE s.n # Zero
    <3>1. s.n \in DOMAIN s.parent /\ s.parent[s.n] = Zero
      BY <1>7, <2>2 DEF Tops
    <3>2. s.parent = [t \in DOMAIN s.parent |-> s.parent[t]]
      BY <1>3 DEF UnlinkedType, Attributes
    <3> QED
      BY <1>6, <2>2, <3>1, <3>2
  <2> QED
    BY <2>1, <2>2
<1>9. RootsAreTops'
  <2>1. root_nodes' \in [Levels -> Node]
    BY <1>3, <1>6 DEF UnlinkedType
  <2>2. ASSUME NEW ht \in Levels, root_nodes'[ht] # Zero
        PROVE  root_nodes'[ht] \in Tops(parent') /\ Len(root_nodes'[ht]) = 2^ht
    <3>1. CASE ht = K
      BY <1>6, <1>7, <1>8, <2>2, <3>1
    <3>2. CASE ht # K
      BY <1>6, <1>7, <1>8, <2>2, <3>2
    <3> QED
      BY <3>1, <3>2
  <2> QED
    BY <2>1, <2>2 DEF RootsAreTops
<1>10. TopsAreRoots'
  <2> SUFFICES ASSUME NEW t \in Tops(parent')
               PROVE  Len(t) = 2^Height \/ \E ht \in Levels : t = root_nodes'[ht]
    BY DEF TopsAreRoots
  <2>1. CASE t = s.n
    <3>1. Len(t) = 2^K
      <4>1. t # Zero
        BY <1>7, <1>8, SizeOfLinked DEF Tops
      <4> QED
        BY <1>7, <2>1, <4>1
    <3>2. CASE K = Height
      BY <3>1, <3>2
    <3>3. CASE K # Height
      <4>1. K \in Levels
        BY <1>2, <3>3 DEF Levels
      <4> QED
        BY <1>6, <2>1, <4>1
    <3> QED
      BY <3>2, <3>3
  <2>2. CASE t # s.n
    BY <1>6, <1>7, <1>8, <2>2
  <2> QED
    BY <2>1, <2>2
<1>11. KeysAreLeaves'
  <2>1. IsFiniteSet(leaf_nodes')
    BY <1>6, FS_RemoveElement DEF BridgeInv, KeysAreLeaves
  <2>2. leaf_nodes' = {y \in Leaf : <<y>> \in DOMAIN parent'}
    BY <1>6, <1>7, <1>8 DEF BridgeInv, KeysAreLeaves
  <2> QED
    BY <2>1, <2>2 DEF KeysAreLeaves
<1> QED
  BY <1>7, <1>8, <1>9, <1>10, <1>11 DEF BridgeInv

-----------------------------------------------------------------------------
(* What every request keeps *)

\* A server that starts has a forest with nothing in it.
LEMMA EmptyForest ==
  ASSUME BridgeInit
  PROVE  BridgeInv
<1>1. root_nodes = [ht \in Levels |-> Zero] /\ leaf_nodes = {} /\ parent = << >> /\ DOMAIN parent = {}
  BY DEF BridgeInit, EmptyRoots
<1>2. Linked(parent) /\ TopsAreRoots
  BY <1>1 DEF Linked, TopsAreRoots, Tops
<1>3. RootsAreTops
  <2>1. Zero \in Node
    BY EmptySeq DEF Zero, Node
  <2> QED
    BY <1>1, <2>1 DEF RootsAreTops
<1>4. KeysAreLeaves
  BY <1>1, FS_EmptySet DEF KeysAreLeaves
<1> QED
  BY <1>2, <1>3, <1>4 DEF BridgeInv

\* A request that changes nothing, and a server that is started again.
LEMMA IdleRequestInv ==
  ASSUME BridgeInv, UNCHANGED bridgeVars
  PROVE  BridgeInv'
BY DEF BridgeInv, bridgeVars, Linked, LinkedNode, RootsAreTops, TopsAreRoots, KeysAreLeaves, Tops

\* GET /reset leaves the empty forest, whatever was there.
LEMMA ResetInv ==
  ASSUME Reset
  PROVE  BridgeInv'
<1>1. /\ root_nodes' = [ht \in Levels |-> Zero] /\ leaf_nodes' = {} /\ parent' = << >>
      /\ DOMAIN parent' = {}
  BY DEF Reset, EmptyRoots
<1>2. Linked(parent') /\ TopsAreRoots'
  BY <1>1 DEF Linked, TopsAreRoots, Tops
<1>3. RootsAreTops'
  <2>1. Zero \in Node
    BY EmptySeq DEF Zero, Node
  <2> QED
    BY <1>1, <2>1 DEF RootsAreTops
<1>4. KeysAreLeaves'
  BY <1>1, FS_EmptySet DEF KeysAreLeaves
<1> QED
  BY <1>2, <1>3, <1>4 DEF BridgeInv

\* Every GET /add and GET /delete keeps the forest linked, also those that end
\* in an IndexError or a KeyError.
LEMMA RequestInv ==
  ASSUME BridgeInv, NEW x \in Leaf, Request(x)
  PROVE  BridgeInv'
<1>1. CASE Add(x)
  BY <1>1, AddInv
<1>2. CASE Delete(x)
  BY <1>2, DeleteInv
<1>3. CASE AddExisting(x) \/ DeleteMissing(x)
  BY <1>3, IdleRequestInv DEF AddExisting, DeleteMissing
<1> QED
  BY <1>1, <1>2, <1>3 DEF Request

\* Every request keeps the forest linked.
LEMMA BridgeNextInv ==
  ASSUME BridgeInv, [BridgeNext]_bridgeVars
  PROVE  BridgeInv'
BY RequestInv, ResetInv, IdleRequestInv DEF BridgeNext

\* The leaves below a node of the forest are in the dictionary, so there are at
\* least as many of those as the node has.
LEMMA LeavesBelow ==
  ASSUME BridgeInv, NEW t \in DOMAIN parent
  PROVE  Range(t) \subseteq leaf_nodes /\ Len(t) <= Cardinality(leaf_nodes)
<1>1. Linked(parent) /\ IsFiniteSet(leaf_nodes) /\ leaf_nodes = {x \in Leaf : <<x>> \in DOMAIN parent}
  BY DEF BridgeInv, KeysAreLeaves
<1>2. t \in Node /\ IsInjective(t) /\ Len(t) \in Nat \ {0}
  BY <1>1, SizeOfLinked
<1>3. PICK k \in 0 .. Height : Len(t) = 2^k
  BY <1>1, SizeOfLinked
<1>4. Range(t) \subseteq leaf_nodes
  <2> SUFFICES ASSUME NEW y \in Range(t) PROVE y \in leaf_nodes
    OBVIOUS
  <2>1. y \in Leaf
    BY <1>2, NodeSize
  <2>2. <<y>> \in DOMAIN parent
    BY <1>1, <1>3, PathThrough
  <2> QED
    BY <1>1, <2>1, <2>2
<1>5. t \in [1 .. Len(t) -> leaf_nodes]
  <2>1. t \in [1 .. Len(t) -> Leaf] /\ DOMAIN t = 1 .. Len(t)
    BY <1>2, LenProperties DEF Node
  <2>2. \A i \in 1 .. Len(t) : t[i] \in leaf_nodes
    BY <1>4, <2>1 DEF Range
  <2> QED
    BY <2>1, <2>2
<1>6. t \in Injection(1 .. Len(t), leaf_nodes)
  BY <1>2, <1>5 DEF Injection
<1>7. Cardinality(1 .. Len(t)) <= Cardinality(leaf_nodes)
  BY <1>1, <1>6, FS_Injection
<1>8. Cardinality(1 .. Len(t)) = Len(t)
  <2>1. Cardinality(1 .. Len(t)) = IF 1 > Len(t) THEN 0 ELSE Len(t) - 1 + 1
    BY <1>2, FS_Interval
  <2> QED
    BY <1>2, <2>1
<1> QED
  BY <1>4, <1>7, <1>8

\* The path of a leaf below a top ends there.
LEMMA PathToTop ==
  ASSUME BridgeInv, NEW t \in Tops(parent), NEW i \in 0 .. Height, Len(t) = 2^i, NEW y \in Range(t)
  PROVE  y \in leaf_nodes /\ PathLen(y) = i /\ Path(y)[i] = t
<1>1. Linked(parent) /\ t \in DOMAIN parent /\ parent[t] = Zero
  BY DEF BridgeInv, Tops
<1>2. <<y>> \in DOMAIN parent /\ Path(y)[i] = t /\ y \in leaf_nodes
  BY <1>1, PathThrough, LeavesBelow
<1> DEFINE K == PathLen(y)
<1>3. K \in 0 .. Height
  BY <1>1, <1>2, PathShape
<1>4. t # Zero
  BY <1>1, SizeOfLinked
<1>5. ~(i < K)
  <2> SUFFICES ASSUME i < K PROVE FALSE
    OBVIOUS
  <2>1. i \in 0 .. K - 1 /\ i + 1 \in 0 .. K
    <3> HIDE DEF K
    <3> QED
      BY <1>3, HeightAssumption
  <2>2. Path(y)[i + 1] = Zero /\ Path(y)[i + 1] \in DOMAIN parent
    BY <1>1, <1>2, <2>1, PathShape
  <2> QED
    BY <1>1, <2>2, SizeOfLinked
<1>6. ~(K < i)
  <2> SUFFICES ASSUME K < i PROVE FALSE
    OBVIOUS
  <2>1. i \in K + 1 .. Height + 1
    <3> HIDE DEF K
    <3> QED
      BY <1>3, HeightAssumption
  <2> QED
    BY <1>1, <1>2, <1>4, <2>1, PathShape
<1>7. K = i
  <2> HIDE DEF K
  <2> QED
    BY <1>3, <1>5, <1>6, HeightAssumption
<1> QED
  BY <1>2, <1>7

\* A leaf without a proof would be in a tree of 2^Height leaves.
LEMMA EveryLeafProvableHolds ==
  ASSUME BridgeInv
  PROVE  EveryLeafProvable
<1> SUFFICES ASSUME Cardinality(leaf_nodes) < 2^Height, NEW x \in leaf_nodes, PathLen(x) \notin Levels
             PROVE  FALSE
  BY DEF EveryLeafProvable, Replies
<1> DEFINE t == Path(x)[Height]
<1>1. PathLen(x) = Height
  <2>1. PathLen(x) \in 0 .. Height
    BY PathEnd
  <2> QED
    BY <2>1, HeightAssumption DEF Levels
<1>2. t \in DOMAIN parent /\ Len(t) = 2^Height
  <2>1. Linked(parent) /\ <<x>> \in DOMAIN parent /\ Height \in 0 .. PathLen(x)
    BY <1>1, PathEnd, HeightAssumption DEF BridgeInv
  <2> QED
    BY <2>1, PathShape
<1>3. Len(t) <= Cardinality(leaf_nodes) /\ Cardinality(leaf_nodes) \in Nat
  <2>1. IsFiniteSet(leaf_nodes)
    BY DEF BridgeInv, KeysAreLeaves
  <2> QED
    BY <1>2, <2>1, LeavesBelow, FS_CardinalityType
<1>4. 2^Height \in Nat
  BY HeightAssumption, PowersOfTwo
<1> QED
  BY <1>2, <1>3, <1>4

\* The siblings on a leaf's path and the bits of its index rebuild that path.
LEMMA ProofsVerifyHolds ==
  ASSUME BridgeInv
  PROVE  ProofsVerify
<1> SUFFICES ASSUME NEW x \in leaf_nodes, Replies(x)
             PROVE  ProofRoot(x, Answer(x)) = root_nodes[PathLen(x)]
  BY DEF ProofsVerify
<1>1. Linked(parent) /\ <<x>> \in DOMAIN parent /\ root_nodes[PathLen(x)] = Path(x)[PathLen(x)]
  BY PathEnd DEF Replies, BridgeInv
<1> QED
  BY <1>1, ProofLeads

\* Every top is a root, so every leaf is below one root.
LEMMA ForestPerfectHolds ==
  ASSUME BridgeInv
  PROVE  ForestPerfect
<1> SUFFICES ASSUME Cardinality(leaf_nodes) < 2^Height
             PROVE  /\ \A ht \in Levels : root_nodes[ht] # Zero => Len(root_nodes[ht]) = 2^ht
                    /\ DistinctLeaves(root_nodes)
                    /\ LeavesOf(root_nodes) = leaf_nodes
  BY DEF ForestPerfect
<1>1. /\ root_nodes \in [Levels -> Node] /\ DOMAIN root_nodes = Levels
      /\ \A ht \in Levels : root_nodes[ht] # Zero => /\ root_nodes[ht] \in Tops(parent)
                                                   /\ root_nodes[ht] \in DOMAIN parent
                                                   /\ Len(root_nodes[ht]) = 2^ht
      /\ Linked(parent)
  BY DEF BridgeInv, RootsAreTops, Tops
<1>2. \A ht \in Levels : ht \in 0 .. Height
  BY HeightAssumption DEF Levels
<1>3. ASSUME NEW ht \in Levels, NEW y \in Range(root_nodes[ht])
      PROVE  y \in leaf_nodes /\ PathLen(y) = ht /\ Path(y)[ht] = root_nodes[ht]
  <2>1. root_nodes[ht] # Zero
    BY <1>3 DEF Zero, Range
  <2> QED
    BY <1>1, <1>2, <2>1, PathToTop
<1>4. DistinctLeaves(root_nodes)
  <2>1. ASSUME NEW ht \in Levels PROVE IsInjective(root_nodes[ht])
    <3>1. CASE root_nodes[ht] = Zero
      BY <3>1 DEF Zero, IsInjective
    <3>2. CASE root_nodes[ht] # Zero
      BY <1>1, <3>2, SizeOfLinked
    <3> QED
      BY <3>1, <3>2
  <2>2. ASSUME NEW i \in Levels, NEW j \in Levels, i # j
        PROVE  Range(root_nodes[i]) \intersect Range(root_nodes[j]) = {}
    BY <1>3, <2>2
  <2> QED
    BY <1>1, <2>1, <2>2 DEF DistinctLeaves
<1>5. LeavesOf(root_nodes) \subseteq leaf_nodes
  BY <1>1, <1>3 DEF LeavesOf
<1>6. ASSUME NEW x \in leaf_nodes PROVE x \in LeavesOf(root_nodes)
  <2>1. PathLen(x) \in Levels
    BY EveryLeafProvableHolds DEF EveryLeafProvable, Replies
  <2>2. Path(x)[PathLen(x)] = root_nodes[PathLen(x)] /\ <<x>> \in DOMAIN parent
    BY <2>1, PathEnd
  <2>3. PathLen(x) \in 0 .. PathLen(x)
    BY <2>1, HeightAssumption DEF Levels
  <2>4. x \in Range(Path(x)[PathLen(x)])
    BY <1>1, <2>2, <2>3, PathShape
  <2> QED
    BY <1>1, <2>1, <2>2, <2>4 DEF LeavesOf
<1> QED
  BY <1>1, <1>4, <1>5, <1>6

-----------------------------------------------------------------------------
(* What a request does to the roots *)

\* Adding x carries c past the trees below height f, which has none.
CarryTo(trees, x, f, c) ==
  /\ f \in Levels /\ trees[f] = Zero
  /\ c[0] = <<x>>
  /\ \A i \in 0 .. f - 1 : trees[i] # Zero /\ c[i + 1] = Hash(trees[i], c[i])

AfterAdd(trees, f, c) ==
  [i \in Levels |-> IF i < f THEN Zero ELSE IF i = f THEN c[f] ELSE trees[i]]

\* Proof pf of x, with index i0, leads up through nodes c.
LeadsUp(x, pf, i0, c) ==
  /\ i0 \in Nat
  /\ c[0] = <<x>>
  /\ \A i \in 0 .. Len(pf) - 1 :
       c[i + 1] = IF (i0 \div 2^i) % 2 = 0 THEN Hash(c[i], pf[i + 1]) ELSE Hash(pf[i + 1], c[i])

\* Deleting a leaf with proof pf carries d past the trees.
CarriesOff(trees, pf, d) ==
  /\ d[0] = Zero
  /\ \A i \in 0 .. Len(pf) - 1 :
       d[i + 1] = IF d[i] # Zero THEN Hash(pf[i + 1], d[i])
                  ELSE IF trees[i] = Zero THEN Zero ELSE Hash(pf[i + 1], trees[i])

LeftAt(trees, pf, d, i) ==
  IF d[i] # Zero THEN trees[i] ELSE IF trees[i] = Zero THEN pf[i + 1] ELSE Zero

AfterDelete(trees, pf, d) ==
  [i \in Levels |-> IF i < Len(pf) THEN LeftAt(trees, pf, d, i)
                    ELSE IF i = Len(pf) THEN d[Len(pf)] ELSE trees[i]]

\* No node has more leaves than there are, also after a request.
NodesFit == \A t \in DOMAIN parent : Len(t) <= Cardinality(leaf_nodes)

\* The leaves of a node are keys of the dictionary, and different ones.
LEMMA NodesFitNow == BridgeInv => NodesFit
BY LeavesBelow DEF NodesFit

\* The same of the state after a request.
LEMMA NodesFitNext == BridgeInv' => NodesFit'
BY NodesFitNow, PTL

\* As long as there are roots enough, a leaf is added below one.
LEMMA AddEffect ==
  ASSUME BridgeInv, NEW x \in Leaf, Add(x), Cardinality(leaf_nodes') < 2^Height
  PROVE  \E f, c : CarryTo(root_nodes, x, f, c) /\ root_nodes' = AfterAdd(root_nodes, f, c)
<1> DEFINE f == FirstFree
           c == [k \in 0 .. Height |-> Carried(x)[k].n]
<1>1. f \in 0 .. Height /\ f \in Nat /\ Height \in Nat /\ f \in 0 .. f
  BY FirstFreeIs, HeightAssumption
<1>2. x \notin leaf_nodes /\ <<x>> \notin DOMAIN parent /\ Linked(parent) /\ RootsAreTops
  BY DEF Add, BridgeInv, KeysAreLeaves
<1>3. f \in Levels
  <2> SUFFICES ASSUME f \notin Levels PROVE FALSE
    OBVIOUS
  <2>1. f = Height
    BY <1>1 DEF Levels
  <2>2. Carried(x)[f].n \in Tops(Carried(x)[f].parent) /\ Len(Carried(x)[f].n) = 2^f
    BY <1>1, <1>2, CarriedIs
  <2>3. Carried(x)[f].n \in DOMAIN parent'
    BY <2>2 DEF Add, Tops
  <2>4. BridgeInv' => \A t \in DOMAIN parent' : Len(t) <= Cardinality(leaf_nodes')
    BY NodesFitNext DEF NodesFit
  <2>5. BridgeInv' /\ IsFiniteSet(leaf_nodes')
    <3>1. BridgeInv'
      BY AddInv, Zenon
    <3> QED
      BY <3>1 DEF BridgeInv, KeysAreLeaves
  <2>6. 2^Height <= Cardinality(leaf_nodes')
    BY <2>1, <2>2, <2>3, <2>4, <2>5
  <2>7. 2^Height \in Nat /\ Cardinality(leaf_nodes') \in Nat
    BY <1>1, <2>5, PowersOfTwo, FS_CardinalityType
  <2> QED
    BY <2>6, <2>7
<1>4. root_nodes[f] = Zero /\ \A i \in 0 .. f - 1 : root_nodes[i] # Zero
  BY <1>3, FirstFreeIs
<1>5. c[0] = <<x>>
  BY <1>1, <1>2, CarriedSteps
<1>6. ASSUME NEW i \in 0 .. f - 1 PROVE c[i + 1] = Hash(root_nodes[i], c[i])
  <2>1. i \in 0 .. Height - 1 /\ i \in 0 .. Height /\ i + 1 \in 0 .. Height
    BY <1>1
  <2> QED
    BY <1>2, <2>1, CarriedSteps
<1>7. root_nodes' = AfterAdd(root_nodes, f, c)
  <2>1. c[f] = Carried(x)[f].n
    BY <1>1
  <2> QED
    BY <2>1 DEF Add, AfterAdd
<1>8. CarryTo(root_nodes, x, f, c)
  <2> HIDE DEF f, c
  <2> QED
    BY <1>3, <1>4, <1>5, <1>6 DEF CarryTo
<1> QED
  BY <1>7, <1>8

\* The proof leads from the leaf to the root of its tree.
LEMMA ProofEffect ==
  ASSUME BridgeInv, NEW x \in leaf_nodes, PathLen(x) \in Levels
  PROVE  /\ Len(ProofOf(x)) = PathLen(x)
         /\ LeadsUp(x, ProofOf(x), IndexOf(x), Path(x))
         /\ Path(x)[Len(ProofOf(x))] = root_nodes[Len(ProofOf(x))]
<1>1. Linked(parent) /\ <<x>> \in DOMAIN parent /\ root_nodes[PathLen(x)] = Path(x)[PathLen(x)]
  BY PathEnd DEF BridgeInv
<1>2. Len(ProofOf(x)) = PathLen(x)
  BY <1>1, ProofNodes
<1>3. IndexOf(x) \in Nat /\ Path(x)[0] = <<x>>
  BY <1>1, IndexDigits, PathSteps
<1>4. ASSUME NEW i \in 0 .. PathLen(x) - 1
      PROVE  Path(x)[i + 1] = IF (IndexOf(x) \div 2^i) % 2 = 0
                              THEN Hash(Path(x)[i], ProofOf(x)[i + 1])
                              ELSE Hash(ProofOf(x)[i + 1], Path(x)[i])
  <2>1. i + 1 \in 1 .. PathLen(x) /\ (i + 1) - 1 = i
    BY HeightAssumption DEF Levels
  <2>2. /\ IsLeft(x, i) => Path(x)[i + 1] = Hash(Path(x)[i], ProofOf(x)[i + 1])
        /\ ~IsLeft(x, i) => Path(x)[i + 1] = Hash(ProofOf(x)[i + 1], Path(x)[i])
    <3>1. /\ IsLeft(x, (i + 1) - 1) => Path(x)[i + 1] = Hash(Path(x)[(i + 1) - 1], ProofOf(x)[i + 1])
          /\ ~IsLeft(x, (i + 1) - 1) => Path(x)[i + 1] = Hash(ProofOf(x)[i + 1], Path(x)[(i + 1) - 1])
      BY <1>1, <2>1, ProofSteps
    <3> QED
      BY <2>1, <3>1
  <2>3. (IndexOf(x) \div 2^i) % 2 = IF IsLeft(x, i) THEN 0 ELSE 1
    BY <1>1, IndexDigits
  <2> QED
    BY <2>2, <2>3
<1> QED
  BY <1>1, <1>2, <1>3, <1>4 DEF LeadsUp

\* The roots that the loop of utreexo_delete has written, and those above.
LEMMA UnlinkedRoots ==
  ASSUME BridgeInv, NEW x \in leaf_nodes, PathLen(x) \in Levels
  PROVE  LET K == PathLen(x)
             d == [i \in 0 .. K |-> Unlinked(x)[i].n]
         IN  /\ \A i \in 0 .. K - 1 :
                  Unlinked(x)[K].roots[i] = LeftAt(root_nodes, ProofOf(x), d, i)
             /\ \A i \in Levels : i >= K => Unlinked(x)[K].roots[i] = root_nodes[i]
<1> DEFINE K == PathLen(x)
           d == [i \in 0 .. K |-> Unlinked(x)[i].n]
           Kept(i) == LeftAt(root_nodes, ProofOf(x), d, i)
           T == {j \in 0 .. K : \A i \in 0 .. j - 1 : Unlinked(x)[j].roots[i] = Kept(i)}
<1>1. K \in Nat /\ Height \in Nat /\ K < Height
  BY HeightAssumption DEF Levels
<1>2. 0 \in T
  BY <1>1
<1>3. ASSUME NEW j \in 0 .. K - 1, j \in T PROVE j + 1 \in T
  <2> DEFINE s == Unlinked(x)[j]
             s2 == Unlinked(x)[j + 1]
             p == ProofOf(x)[j + 1]
             r == root_nodes[j]
  <2>1. j \in 0 .. K /\ j \in Nat /\ j + 1 \in 0 .. K /\ j \in Levels /\ j >= j
    BY <1>1 DEF Levels
  <2>2. /\ UnlinkedRound(j, p, r, s, s2)
        /\ UnlinkedType(s)
    BY <2>1, UnlinkedSteps
  <2>3. s.roots[j] = r
    BY <2>1, UnlinkedIs DEF UnlinkedInv
  <2>4. d[j] = s.n
    BY <2>1
  <2>5. \A i \in 0 .. j - 1 : s.roots[i] = Kept(i) /\ i # j
    BY <1>3, <2>1
  <2>6. s.roots \in [Levels -> Node] /\ \A i \in 0 .. j - 1 : i \in Levels
    BY <1>1, <2>1, <2>2 DEF UnlinkedType, Levels
  <2> HIDE DEF s, s2, d, T
  <2>7. s2.roots[j] = Kept(j) /\ \A i \in 0 .. j - 1 : s2.roots[i] = s.roots[i]
    <3>1. CASE s.n # Zero
      BY <2>2, <2>3, <2>4, <3>1 DEF UnlinkedRound, LeftAt
    <3>2. CASE s.n = Zero /\ r = Zero
      BY <2>1, <2>2, <2>4, <2>5, <2>6, <3>2 DEF UnlinkedRound, LeftAt
    <3>3. CASE s.n = Zero /\ r # Zero
      BY <2>1, <2>2, <2>4, <2>5, <2>6, <3>3 DEF UnlinkedRound, LeftAt
    <3> QED
      BY <3>1, <3>2, <3>3
  <2>8. ASSUME NEW i \in 0 .. (j + 1) - 1 PROVE s2.roots[i] = Kept(i)
    <3>1. i = j \/ i \in 0 .. j - 1
      BY <2>1
    <3> HIDE DEF Kept
    <3> QED
      BY <2>5, <2>7, <3>1
  <2> QED
    BY <2>1, <2>8 DEF s2, T
<1>4. K \in T
  <2>1. 0 .. K \subseteq T
    <3> HIDE DEF T, K
    <3> QED
      BY <1>1, <1>2, <1>3, IntervalInduction
  <2>2. K \in 0 .. K
    BY <1>1
  <2> QED
    BY <2>1, <2>2
<1>5. \A i \in Levels : i >= K => Unlinked(x)[K].roots[i] = root_nodes[i]
  <2>1. K \in 0 .. K
    BY <1>1
  <2> QED
    BY <2>1, UnlinkedIs DEF UnlinkedInv
<1> QED
  BY <1>4, <1>5

\* Deleting a leaf of a tree below a root.
LEMMA DeleteEffect ==
  ASSUME BridgeInv, NEW x \in leaf_nodes, PathLen(x) \in Levels, Delete(x)
  PROVE  \E d : /\ CarriesOff(root_nodes, ProofOf(x), d)
                /\ root_nodes' = AfterDelete(root_nodes, ProofOf(x), d)
<1> DEFINE K == PathLen(x)
           d == [i \in 0 .. K |-> Unlinked(x)[i].n]
<1>1. K \in Nat /\ Height \in Nat /\ K < Height /\ Len(ProofOf(x)) = K
  BY ProofEffect, HeightAssumption DEF Levels
<1>2. d[0] = Zero
  <2>1. 0 \in 0 .. K
    BY <1>1
  <2>2. Unlinked(x)[0].n = Zero
    BY UnlinkedSteps, Zenon
  <2> HIDE DEF K
  <2> QED
    BY <2>1, <2>2
<1>3. ASSUME NEW i \in 0 .. K - 1
      PROVE  d[i + 1] = IF d[i] # Zero THEN Hash(ProofOf(x)[i + 1], d[i])
                        ELSE IF root_nodes[i] = Zero THEN Zero
                        ELSE Hash(ProofOf(x)[i + 1], root_nodes[i])
  <2>1. i \in 0 .. K /\ i + 1 \in 0 .. K
    BY <1>1
  <2>2. UnlinkedRound(i, ProofOf(x)[i + 1], root_nodes[i], Unlinked(x)[i], Unlinked(x)[i + 1])
    BY UnlinkedSteps
  <2>3. d[i] = Unlinked(x)[i].n /\ d[i + 1] = Unlinked(x)[i + 1].n
    BY <2>1
  <2> HIDE DEF d
  <2> QED
    BY <2>2, <2>3 DEF UnlinkedRound
<1>4. CarriesOff(root_nodes, ProofOf(x), d)
  <2> HIDE DEF d, K
  <2> QED
    BY <1>1, <1>2, <1>3 DEF CarriesOff
<1>5. root_nodes' = [i \in Levels |-> IF i = K THEN Unlinked(x)[K].n ELSE Unlinked(x)[K].roots[i]]
  BY DEF Delete
<1>6. d[K] = Unlinked(x)[K].n
  BY <1>1
<1>7. /\ \A i \in 0 .. K - 1 : Unlinked(x)[K].roots[i] = LeftAt(root_nodes, ProofOf(x), d, i)
      /\ \A i \in Levels : i >= K => Unlinked(x)[K].roots[i] = root_nodes[i]
  BY UnlinkedRoots
<1>8. root_nodes' = AfterDelete(root_nodes, ProofOf(x), d)
  <2>1. \A i \in Levels : i < K => i \in 0 .. K - 1 /\ i # K
    BY <1>1 DEF Levels
  <2>2. \A i \in Levels : i < K \/ i = K \/ (i >= K /\ i # K /\ ~(i < K))
    BY <1>1 DEF Levels
  <2> HIDE DEF d, K
  <2>3. AfterDelete(root_nodes, ProofOf(x), d) =
          [i \in Levels |-> IF i < K THEN LeftAt(root_nodes, ProofOf(x), d, i)
                            ELSE IF i = K THEN d[K] ELSE root_nodes[i]]
    BY <1>1 DEF AfterDelete
  <2> QED
    BY <1>1, <1>5, <1>6, <1>7, <2>1, <2>2, <2>3
<1> QED
  BY <1>4, <1>8

-----------------------------------------------------------------------------
(* What the server guarantees *)

\* The parent attributes are those of a forest, whatever requests came.
THEOREM BridgeInvariant ==
  BridgeSpec => []BridgeInv
<1>1. BridgeInit => BridgeInv
  BY EmptyForest
<1>2. BridgeInv /\ [BridgeNext]_bridgeVars => BridgeInv'
  BY BridgeNextInv
<1> QED
  BY <1>1, <1>2, PTL DEF BridgeSpec

\* After any number of adds and deletes there is one perfect tree at a height or
\* none, and the trees share out the leaves of the dictionary.
THEOREM ForestStaysPerfect ==
  BridgeSpec => []ForestPerfect
<1>1. BridgeInv => ForestPerfect
  BY ForestPerfectHolds
<1> QED
  BY <1>1, BridgeInvariant, PTL

\* Every inclusion proof that the server hands out leads to the root of its
\* height, whatever was added and deleted before.
THEOREM EveryProofVerifies ==
  BridgeSpec => []ProofsVerify
<1>1. BridgeInv => ProofsVerify
  BY ProofsVerifyHolds
<1> QED
  BY <1>1, BridgeInvariant, PTL

\* Every leaf of the dictionary gets a proof while there are roots enough.
THEOREM EveryLeafGetsAProof ==
  BridgeSpec => []EveryLeafProvable
<1>1. BridgeInv => EveryLeafProvable
  BY EveryLeafProvableHolds
<1> QED
  BY <1>1, BridgeInvariant, PTL

-----------------------------------------------------------------------------
(* Nodes *)

\* The hash of two nodes is a node, and not zero.
LEMMA HashType ==
  ASSUME NEW s \in Node, NEW t \in Node
  PROVE  /\ Hash(s, t) \in Node
         /\ s # Zero => Hash(s, t) # Zero
  BY ConcatProperties, ConcatEqualIffEmpty DEF Node, Hash, Zero

\* The leaves below a node are those below its children.
LEMMA RangeHash ==
  ASSUME NEW s \in Node, NEW t \in Node
  PROVE  Range(Hash(s, t)) = Range(s) \union Range(t)
BY ConcatRange DEF Node, Hash

\* No leaf is twice below a node iff none is twice below a child and the
\* children share none.
LEMMA InjectiveHash ==
  ASSUME NEW s \in Node, NEW t \in Node
  PROVE  IsInjective(Hash(s, t)) <=>
           IsInjective(s) /\ IsInjective(t) /\ Range(s) \intersect Range(t) = {}
BY ConcatInjective DEF Node, Hash

\* A leaf alone is a node.
LEMMA LeafNode ==
  ASSUME NEW x \in Leaf
  PROVE  <<x>> \in Node /\ Range(<<x>>) = {x} /\ IsInjective(<<x>>)
  BY DEF Node, Range, IsInjective

\* Zero is a node without leaves.
LEMMA ZeroNode == Zero \in Node /\ Range(Zero) = {} /\ IsInjective(Zero)
  BY DEF Node, Zero, Range, IsInjective

-----------------------------------------------------------------------------
(* The sets the loops collect *)

\* One more root passed.
LEMMA BelowStep ==
  ASSUME NEW trees, NEW k \in Nat
  PROVE  /\ Below(trees, 0) = {}
         /\ Below(trees, k + 1) = Below(trees, k) \union Range(trees[k])
<1>1. 0 .. (k + 1) - 1 = (0 .. k - 1) \union {k}
  OBVIOUS
<1>2. 0 .. 0 - 1 = {}
  OBVIOUS
<1> QED BY <1>1, <1>2 DEF Below

\* One more sibling passed.
LEMMA SiblingsStep ==
  ASSUME NEW k \in Nat
  PROVE  /\ Siblings(0) = {}
         /\ Siblings(k + 1) = Siblings(k) \union Range(proof[k + 1])
<1>1. 1 .. k + 1 = (1 .. k) \union {k + 1}
  OBVIOUS
<1>2. 1 .. 0 = {}
  OBVIOUS
<1> QED BY <1>1, <1>2 DEF Siblings

\* What is below a root is below some root.
LEMMA BelowLeaves ==
  ASSUME TypeOK, NEW k \in 0 .. Height
  PROVE  /\ Below(roots, k) \subseteq LeavesOf(roots)
         /\ \A i \in Levels : Range(roots[i]) \subseteq LeavesOf(roots)
<1>1. DOMAIN roots = Levels /\ 0 .. k - 1 \subseteq Levels
  BY HeightAssumption DEF TypeOK, Levels
<1> QED BY <1>1 DEF Below, LeavesOf

\* A root shares no leaf with the roots before it.
LEMMA BelowApart ==
  ASSUME TypeOK, NoLeafTwice, NEW i \in Levels, NEW k \in 0 .. i
  PROVE  Range(roots[i]) \intersect Below(roots, k) = {}
<1>1. DOMAIN roots = Levels /\ 0 .. k - 1 \subseteq Levels \ {i}
  BY HeightAssumption DEF TypeOK, Levels
<1> QED BY <1>1 DEF Below, NoLeafTwice, DistinctLeaves

\* A sibling shares no leaf with the ones before it.
LEMMA SiblingApart ==
  ASSUME NEW m \in Nat, DistinctSiblings(m), NEW k \in Nat, k < m
  PROVE  /\ IsInjective(proof[k + 1])
         /\ leaf \notin Range(proof[k + 1])
         /\ Range(proof[k + 1]) \intersect Siblings(k) = {}
         /\ Range(proof[k + 1]) \subseteq Siblings(m)
         /\ Siblings(k) \subseteq Siblings(m)
<1>1. k + 1 \in 1 .. m /\ 1 .. k \subseteq (1 .. m) \ {k + 1}
  OBVIOUS
<1> QED BY <1>1 DEF DistinctSiblings, Siblings

\* A sibling is a node, and not zero.
LEMMA SiblingType ==
  ASSUME TypeOK, NEW k \in 1 .. Len(proof)
  PROVE  proof[k] \in Node /\ proof[k] # Zero
<1>1. proof[k] \in Node \ {Zero}
  BY ElementOfSeq DEF TypeOK
<1> QED BY <1>1

-----------------------------------------------------------------------------
(* The initial state, and steps that leave a function *)

\* utreexo_init returns a forest without leaves.
LEMMA EmptyRootsOK ==
  EmptyRoots \in [Levels -> Node] /\ DistinctLeaves(EmptyRoots) /\ LeavesOf(EmptyRoots) = {}
  BY ZeroNode DEF EmptyRoots, DistinctLeaves, LeavesOf

\* The genesis state satisfies the invariant.
LEMMA InitInv == Init => IInv
  BY EmptyRootsOK, ZeroNode, EmptySeq
     DEF Init, IInv, TypeOK, NoLeafTwice, LoopInvariant, AddLoopInv, ProveLoopInv,
         DeleteLoopInv, ProgramCounters

\* So does the end of a function that returns roots without repetition, ...
LEMMA LeaveInv ==
  ASSUME NEW next \in {"idle", "aborted"}, Leave(next),
         roots' \in [Levels -> Node], DistinctLeaves(roots')
  PROVE  IInv'
  BY EmptyRootsOK, ZeroNode, EmptySeq
     DEF Leave, IInv, TypeOK, NoLeafTwice, LoopInvariant, AddLoopInv, ProveLoopInv,
         DeleteLoopInv, ProgramCounters

\* ... a run that stops with an error, ...
LEMMA AbortInv ==
  ASSUME IInv, Abort
  PROVE  IInv'
  BY LeaveInv DEF Abort, IInv, TypeOK, NoLeafTwice

\* ... and a new start of the driver.
LEMMA RestartInv ==
  ASSUME Restart
  PROVE  IInv'
  BY LeaveInv, EmptyRootsOK DEF Restart

-----------------------------------------------------------------------------
(* utreexo_add *)

\* utreexo_add enters its loop with the new leaf alone.
LEMMA StartAddInv ==
  ASSUME IInv, Duplicates = {}, NEW x \in Leaf, StartAdd(x)
  PROVE  IInv'
<1>1. /\ x \notin LeavesOf(roots) /\ pc' = "add" /\ leaf' = x /\ n' = <<x>> /\ h' = 0
      /\ UNCHANGED <<roots, out, index, proof>>
  BY DEF StartAdd
<1>2. TypeOK'
  BY <1>1, LeafNode DEF IInv, TypeOK, ProgramCounters
<1>3. NoLeafTwice'
  BY <1>1 DEF IInv, NoLeafTwice
<1>4. AddLoopInv'
  <2>1. Below(roots, 0) = {} /\ 0 .. 0 - 1 = {} /\ 0 \in 0 .. Height
    BY BelowStep, HeightAssumption
  <2> QED BY <1>1, <2>1, LeafNode DEF AddLoopInv, LeavesOf, Below
<1>5. ProveLoopInv' /\ DeleteLoopInv'
  BY <1>1 DEF ProveLoopInv, DeleteLoopInv
<1> QED BY <1>2, <1>3, <1>4, <1>5 DEF IInv, LoopInvariant

\* A carry takes in the root it passes.
LEMMA AddCarryInv ==
  ASSUME IInv, AddCarry
  PROVE  IInv'
<1>1. /\ pc = "add" /\ h \in Levels /\ n' = Hash(roots[h], n) /\ h' = h + 1
      /\ out' = [out EXCEPT ![h] = Zero] /\ UNCHANGED <<roots, pc, leaf, index, proof>>
  BY DEF AddCarry
<1>2. /\ roots[h] \in Node /\ n \in Node /\ out \in [Levels -> Node] /\ h \in Nat
  BY <1>1 DEF IInv, TypeOK
<1>3. TypeOK'
  BY <1>1, <1>2, HashType, ZeroNode DEF IInv, TypeOK
<1>4. AddLoopInv'
  <2>1. /\ leaf \notin LeavesOf(roots) /\ IsInjective(n)
        /\ Range(n) = {leaf} \union Below(roots, h) /\ \A i \in 0 .. h - 1 : out[i] = Zero
    BY <1>1 DEF IInv, LoopInvariant, AddLoopInv
  <2>2. h' \in 0 .. Height /\ h \in 0 .. Height
    BY <1>1, HeightAssumption DEF Levels
  <2>3. IsInjective(roots[h]) /\ Range(roots[h]) \intersect Below(roots, h) = {}
    <3>1. h \in 0 .. h
      BY <1>2
    <3>2. DOMAIN roots = Levels
      BY DEF IInv, TypeOK
    <3> QED BY <3>1, <3>2, <1>1, BelowApart DEF IInv, NoLeafTwice, DistinctLeaves
  <2>4. leaf \notin Range(roots[h])
    BY <2>1, <2>2, <1>1, BelowLeaves DEF IInv
  <2>5. IsInjective(n')
    BY <1>1, <1>2, <2>1, <2>3, <2>4, InjectiveHash
  <2>6. Range(n') = {leaf} \union Below(roots, h + 1)
    BY <1>1, <1>2, <2>1, RangeHash, BelowStep
  <2>7. \A i \in 0 .. h' - 1 : out'[i] = Zero
    BY <1>1, <1>2, <2>1
  <2> QED BY <1>1, <2>1, <2>2, <2>5, <2>6, <2>7 DEF AddLoopInv, LeavesOf, Below
<1>5. NoLeafTwice' /\ ProveLoopInv' /\ DeleteLoopInv'
  BY <1>1 DEF IInv, NoLeafTwice, ProveLoopInv, DeleteLoopInv
<1> QED BY <1>3, <1>4, <1>5 DEF IInv, LoopInvariant

\* What a loop returns is an array of nodes.
LEMMA ResultType ==
  ASSUME TypeOK
  PROVE  Result \in [Levels -> Node]
  BY DEF TypeOK, Result

\* The roots an addition returns: the old leaves and the new one, none twice.
LEMMA AddResult ==
  ASSUME IInv, AddPlace
  PROVE  /\ leaf \in Leaf \ LeavesOf(roots)
         /\ DistinctLeaves(Result)
         /\ LeavesOf(Result) = LeavesOf(roots) \union {leaf}
<1>1. /\ pc = "add" /\ h \in Levels /\ roots[h] = Zero /\ DOMAIN roots = Levels
      /\ DOMAIN Result = Levels /\ h \in 0 .. Height /\ h \in Nat
  BY HeightAssumption DEF AddPlace, IInv, TypeOK, Result, Levels
<1>2. /\ leaf \in Leaf \ LeavesOf(roots) /\ IsInjective(n)
      /\ Range(n) = {leaf} \union Below(roots, h) /\ \A i \in 0 .. h - 1 : out[i] = Zero
  BY <1>1 DEF IInv, TypeOK, LoopInvariant, AddLoopInv
<1>3. \A i \in Levels :
        /\ i < h => Result[i] = Zero
        /\ i = h => Result[i] = n
        /\ i > h => Result[i] = roots[i]
  BY <1>1, <1>2 DEF Result, Levels
<1>4. \A i \in Levels : IsInjective(roots[i]) /\ Range(roots[i]) \subseteq LeavesOf(roots)
  BY <1>1 DEF IInv, NoLeafTwice, DistinctLeaves, LeavesOf
<1>5. \A i \in Levels : i > h => Range(roots[i]) \intersect Range(n) = {}
  <2> SUFFICES ASSUME NEW i \in Levels, i > h
               PROVE  Range(roots[i]) \intersect Range(n) = {}
    OBVIOUS
  <2>1. h \in 0 .. i
    BY <1>1 DEF Levels
  <2>2. Range(roots[i]) \intersect Below(roots, h) = {}
    BY <2>1, BelowApart DEF IInv
  <2> QED BY <2>2, <1>2, <1>4
<1>6. \A i \in Levels : i < h \/ i = h \/ i > h
  BY <1>1 DEF Levels
<1>7. DistinctLeaves(Result)
  <2>1. \A i \in Levels : IsInjective(Result[i])
    BY <1>2, <1>3, <1>4, <1>6, ZeroNode
  <2>2. ASSUME NEW i \in Levels, NEW j \in Levels, i # j
        PROVE  Range(Result[i]) \intersect Range(Result[j]) = {}
    <3>1. CASE i < h \/ j < h
      BY <3>1, <1>3, ZeroNode
    <3>2. CASE i = h /\ j > h
      BY <3>2, <1>3, <1>5
    <3>3. CASE i > h /\ j = h
      BY <3>3, <1>3, <1>5
    <3>4. CASE i > h /\ j > h
      BY <3>4, <2>2, <1>1, <1>3 DEF IInv, NoLeafTwice, DistinctLeaves
    <3> QED BY <3>1, <3>2, <3>3, <3>4, <2>2, <1>6
  <2> QED BY <2>1, <2>2, <1>1 DEF DistinctLeaves
<1>8. LeavesOf(Result) = LeavesOf(roots) \union {leaf}
  <2>1. Below(roots, h) \subseteq LeavesOf(roots)
    BY <1>1, BelowLeaves DEF IInv
  <2>2. LeavesOf(Result) \subseteq LeavesOf(roots) \union {leaf}
    <3>1. \A i \in Levels : Range(Result[i]) \subseteq LeavesOf(roots) \union {leaf}
      BY <1>2, <1>3, <1>4, <1>6, <2>1, ZeroNode
    <3> QED BY <3>1, <1>1 DEF LeavesOf
  <2>3. Range(n) \subseteq LeavesOf(Result)
    BY <1>1, <1>3 DEF LeavesOf
  <2>4. \A i \in Levels : Range(roots[i]) \subseteq LeavesOf(Result)
    <3> SUFFICES ASSUME NEW i \in Levels
                 PROVE  Range(roots[i]) \subseteq LeavesOf(Result)
      OBVIOUS
    <3>1. CASE i < h
      <4>1. i \in 0 .. h - 1
        BY <3>1, <1>1 DEF Levels
      <4>2. Range(roots[i]) \subseteq Below(roots, h)
        BY <4>1 DEF Below
      <4> QED BY <4>2, <1>2, <2>3
    <3>2. CASE i = h
      BY <3>2, <1>1, ZeroNode
    <3>3. CASE i > h
      BY <3>3, <1>1, <1>3 DEF LeavesOf
    <3> QED BY <3>1, <3>2, <3>3, <1>6
  <2>5. LeavesOf(roots) \subseteq LeavesOf(Result)
    BY <2>4, <1>1 DEF LeavesOf
  <2> QED BY <2>2, <2>3, <2>5, <1>2
<1> QED BY <1>2, <1>7, <1>8

\* utreexo_add returns.
LEMMA AddPlaceInv ==
  ASSUME IInv, AddPlace
  PROVE  IInv'
<1>1. roots' = Result /\ Leave("idle")
  BY DEF AddPlace
<1> QED BY <1>1, AddResult, ResultType, LeaveInv DEF IInv

\* utreexo_add runs out of roots.
LEMMA AddOverflowInv ==
  ASSUME IInv, AddOverflow
  PROVE  IInv'
  BY AbortInv DEF AddOverflow

-----------------------------------------------------------------------------
(* fetch_inclusion_proof and utreexo_prove_inclusion *)

\* utreexo_delete is called.
LEMMA StartDeleteInv ==
  ASSUME IInv, NEW x \in Leaf, StartDelete(x)
  PROVE  IInv'
  BY DEF StartDelete, IInv, TypeOK, ProgramCounters, NoLeafTwice, LoopInvariant, AddLoopInv,
         ProveLoopInv, DeleteLoopInv

\* fetch_inclusion_proof returns an index and some nodes.
LEMMA FetchInv ==
  ASSUME IInv, NEW answer, Fetch(answer)
  PROVE  IInv'
<1>1. /\ pc = "fetch" /\ pc' = "prove" /\ n' = <<leaf>> /\ h' = 0
      /\ index' = answer.leaf_index /\ proof' = answer.proof
      /\ UNCHANGED <<roots, leaf, out>> /\ leaf \in Leaf
  BY DEF Fetch, IInv, TypeOK
<1>2. answer.leaf_index \in Nat /\ answer.proof \in Seq(Node \ {Zero})
  BY DEF Fetch, InclusionProof
<1>3. TypeOK'
  BY <1>1, <1>2, LeafNode DEF IInv, TypeOK, ProgramCounters
<1>4. ProveLoopInv'
  <2>1. Len(proof') \in Nat
    BY <1>1, <1>2, LenProperties
  <2>2. 1 .. 0 = {} /\ 0 \in 0 .. Len(proof')
    BY <2>1
  <2> QED BY <1>1, <2>2, LeafNode DEF ProveLoopInv, Siblings, DistinctSiblings
<1>5. NoLeafTwice' /\ AddLoopInv' /\ DeleteLoopInv'
  BY <1>1 DEF IInv, NoLeafTwice, AddLoopInv, DeleteLoopInv
<1> QED BY <1>3, <1>4, <1>5 DEF IInv, LoopInvariant

\* fetch_inclusion_proof returns nothing.
LEMMA FetchFailsInv ==
  ASSUME IInv, FetchFails
  PROVE  IInv'
  BY AbortInv DEF FetchFails

\* A round of the proof check takes in a sibling.
LEMMA ProveStepInv ==
  ASSUME IInv, ProveStep
  PROVE  IInv'
<1> DEFINE p == proof[h + 1]
<1>1. /\ pc = "prove" /\ h < Len(proof) /\ h' = h + 1 /\ index' = index \div 2
      /\ n' = Hash(n, p) \/ n' = Hash(p, n)
      /\ UNCHANGED <<roots, pc, leaf, out, proof>>
  BY DEF ProveStep
<1>2. h \in Nat /\ n \in Node /\ index \in Nat /\ Len(proof) \in Nat
  BY LenProperties DEF IInv, TypeOK
<1>3. p \in Node
  <2>1. h + 1 \in 1 .. Len(proof)
    BY <1>1, <1>2
  <2> QED BY <2>1, SiblingType DEF IInv
<1>4. TypeOK'
  <2>1. index' \in Nat
    BY <1>1, <1>2
  <2>2. n' \in Node
    BY <1>1, <1>2, <1>3, HashType
  <2> QED BY <1>1, <1>2, <2>1, <2>2 DEF IInv, TypeOK
<1>5. ProveLoopInv'
  <2>1. Range(n) = {leaf} \union Siblings(h) /\ (IsInjective(n) => DistinctSiblings(h))
    BY <1>1 DEF IInv, LoopInvariant, ProveLoopInv
  <2>2. Range(n') = {leaf} \union Siblings(h + 1)
    BY <1>1, <1>2, <1>3, <2>1, RangeHash, SiblingsStep
  <2>3. ASSUME IsInjective(n')
        PROVE  DistinctSiblings(h + 1)
    <3>1. IsInjective(n) /\ IsInjective(p) /\ Range(p) \intersect Range(n) = {}
      BY <1>1, <1>2, <1>3, <2>3, InjectiveHash
    <3>2. DistinctSiblings(h) /\ leaf \notin Range(p) /\ Range(p) \intersect Siblings(h) = {}
      BY <2>1, <3>1
    <3>3. \A i \in 1 .. h + 1 : i \in 1 .. h \/ i = h + 1
      BY <1>2
    <3>4. \A i \in 1 .. h : Range(proof[i]) \subseteq Siblings(h)
      BY DEF Siblings
    <3> QED BY <3>1, <3>2, <3>3, <3>4 DEF DistinctSiblings
  <2>4. h' \in 0 .. Len(proof)
    BY <1>1, <1>2
  <2> QED BY <1>1, <2>2, <2>3, <2>4 DEF ProveLoopInv, Siblings, DistinctSiblings
<1>6. NoLeafTwice' /\ AddLoopInv' /\ DeleteLoopInv'
  BY <1>1 DEF IInv, NoLeafTwice, AddLoopInv, DeleteLoopInv
<1> QED BY <1>4, <1>5, <1>6 DEF IInv, LoopInvariant

\* The node is a root: its leaves occur once, so the siblings are disjoint.
LEMMA ProveAcceptInv ==
  ASSUME IInv, ProveAccept
  PROVE  IInv'
<1>1. /\ pc = "prove" /\ pc' = "delete" /\ h = Len(proof) /\ h \in Levels /\ roots[h] = n
      /\ n' = Zero /\ h' = 0 /\ UNCHANGED <<roots, leaf, out, index, proof>>
  BY DEF ProveAccept, ProofMatches
<1>2. TypeOK'
  BY <1>1, ZeroNode DEF IInv, TypeOK, ProgramCounters
<1>3. DeleteLoopInv'
  <2>1. Range(n) = {leaf} \union Siblings(h) /\ (IsInjective(n) => DistinctSiblings(h))
    BY <1>1 DEF IInv, LoopInvariant, ProveLoopInv
  <2>2. IsInjective(n)
    BY <1>1 DEF IInv, TypeOK, NoLeafTwice, DistinctLeaves
  <2>3. Len(proof) \in Nat /\ 0 .. 0 - 1 = {} /\ 1 .. 0 = {} /\ 0 \in 0 .. Len(proof)
    BY <1>1 DEF IInv, TypeOK
  <2>4. /\ h' \in 0 .. Len(proof)' /\ Len(proof)' \in Levels
        /\ 0 .. h' - 1 = {} /\ 1 .. h' = {}
    BY <1>1, <2>3
  <2>5. DistinctSiblings(Len(proof))'
    BY <1>1, <2>1, <2>2 DEF DistinctSiblings
  <2>6. Range(roots[Len(proof)])' = {leaf'} \union Siblings(Len(proof))'
    BY <1>1, <2>1 DEF Siblings
  <2>7. (Range(n) \union Below(out, h))' = (Siblings(h) \union Below(roots, h))' /\ IsInjective(n)'
    BY <1>1, <2>4, ZeroNode DEF Siblings, Below
  <2> QED BY <2>4, <2>5, <2>6, <2>7 DEF DeleteLoopInv
<1>4. NoLeafTwice' /\ AddLoopInv' /\ ProveLoopInv'
  BY <1>1 DEF IInv, NoLeafTwice, AddLoopInv, ProveLoopInv
<1> QED BY <1>2, <1>3, <1>4 DEF IInv, LoopInvariant

\* The node is not a root.
LEMMA ProveRejectInv ==
  ASSUME IInv, ProveReject
  PROVE  IInv'
  BY AbortInv DEF ProveReject

-----------------------------------------------------------------------------
(* _utreexo_delete_loop *)

\* What is known of the sibling and of the root that the loop looks at next:
\* each is apart from the other and from all the loop has shared out.
LEMMA DeleteLoopFacts ==
  ASSUME IInv, pc = "delete", h < Len(proof)
  PROVE  /\ proof[h + 1] \in Node /\ roots[h] \in Node /\ h \in Levels
         /\ IsInjective(proof[h + 1]) /\ IsInjective(roots[h])
         /\ Range(proof[h + 1]) \intersect Range(roots[h]) = {}
         /\ Range(proof[h + 1]) \intersect (Siblings(h) \union Below(roots, h)) = {}
         /\ Range(roots[h]) \intersect (Siblings(h) \union Below(roots, h)) = {}
<1> DEFINE k == Len(proof)
           p == proof[h + 1]
<1>1. /\ h \in Nat /\ k \in Levels /\ k \in Nat /\ h \in Levels /\ DOMAIN roots = Levels
      /\ DistinctSiblings(k) /\ Range(roots[k]) = {leaf} \union Siblings(k)
  BY HeightAssumption DEF IInv, TypeOK, LoopInvariant, DeleteLoopInv, Levels
<1>2. p \in Node /\ roots[h] \in Node
  <2>1. h + 1 \in 1 .. Len(proof)
    BY <1>1
  <2> QED BY <1>1, <2>1, SiblingType DEF IInv, TypeOK
<1>3. /\ IsInjective(p) /\ Range(p) \intersect Siblings(h) = {}
      /\ Range(p) \subseteq Range(roots[k]) /\ Siblings(h) \subseteq Range(roots[k])
  BY <1>1, SiblingApart
<1>4. Range(roots[k]) \intersect Below(roots, h) = {}
  <2>1. h \in 0 .. k
    BY <1>1
  <2> QED BY <1>1, <2>1, BelowApart DEF IInv
<1>5. Range(roots[k]) \intersect Range(roots[h]) = {} /\ IsInjective(roots[h])
  BY <1>1 DEF IInv, NoLeafTwice, DistinctLeaves
<1>6. Range(roots[h]) \intersect Below(roots, h) = {}
  <2>1. h \in 0 .. h
    BY <1>1
  <2> QED BY <1>1, <2>1, BelowApart DEF IInv
<1> QED BY <1>1, <1>2, <1>3, <1>4, <1>5, <1>6

\* The loop writes x at height h and carries m on: what that needs to keep the
\* invariant.
LEMMA DeleteLoopKept ==
  ASSUME IInv, pc = "delete", h < Len(proof),
         NEW x \in Node, NEW m \in Node,
         n' = m, out' = [out EXCEPT ![h] = x], h' = h + 1,
         UNCHANGED <<roots, pc, leaf, index, proof>>,
         IsInjective(x), IsInjective(m), Range(x) \intersect Range(m) = {},
         Range(x) \union Range(m) = Range(n) \union Range(proof[h + 1]) \union Range(roots[h]),
         \A i \in 0 .. h - 1 : Range(out[i]) \intersect (Range(x) \union Range(m)) = {}
  PROVE  IInv'
<1>1. /\ h \in Levels /\ h \in Nat /\ out \in [Levels -> Node] /\ Len(proof) \in Nat
  BY DeleteLoopFacts, LenProperties DEF IInv, TypeOK
<1>2. TypeOK'
  BY <1>1 DEF IInv, TypeOK
<1>3. /\ h' \in 0 .. Len(proof) /\ \A i \in 0 .. h' - 1 : i \in 0 .. h - 1 \/ i = h
      /\ 0 .. h - 1 \subseteq Levels
  BY <1>1, HeightAssumption DEF Levels
<1>4. out'[h] = x /\ \A i \in 0 .. h - 1 : out'[i] = out[i]
  BY <1>1, <1>3
<1>5. DeleteLoopInv
  BY DEF IInv, LoopInvariant
<1>6. Range(n') \union Below(out', h') = Siblings(h') \union Below(roots, h')
  <2>1. Below(out', h + 1) = Below(out', h) \union Range(x)
    BY <1>1, <1>4, BelowStep
  <2>2. Below(out', h) = Below(out, h)
    BY <1>4 DEF Below
  <2>3. Siblings(h + 1) = Siblings(h) \union Range(proof[h + 1])
    BY <1>1, SiblingsStep
  <2>4. Below(roots, h + 1) = Below(roots, h) \union Range(roots[h])
    BY <1>1, BelowStep
  <2>5. Range(n) \union Below(out, h) = Siblings(h) \union Below(roots, h)
    BY <1>5 DEF DeleteLoopInv
  <2> QED BY <2>1, <2>2, <2>3, <2>4, <2>5
<1>7. \A i \in 0 .. h' - 1 :
        /\ IsInjective(out'[i])
        /\ Range(out'[i]) \intersect Range(n') = {}
        /\ \A j \in 0 .. h' - 1 : i # j => Range(out'[i]) \intersect Range(out'[j]) = {}
  <2>1. \A i \in 0 .. h - 1 :
          /\ IsInjective(out[i])
          /\ \A j \in 0 .. h - 1 : i # j => Range(out[i]) \intersect Range(out[j]) = {}
    BY <1>5 DEF DeleteLoopInv
  <2> QED BY <1>3, <1>4, <2>1
<1>8. DeleteLoopInv'
  <2>1. /\ DistinctSiblings(Len(proof)) /\ Len(proof) \in Levels
        /\ Range(roots[Len(proof)]) = {leaf} \union Siblings(Len(proof))
    BY <1>5 DEF DeleteLoopInv
  <2>2. DistinctSiblings(Len(proof))'
    BY <2>1 DEF DistinctSiblings
  <2>3. Range(roots[Len(proof)])' = {leaf'} \union Siblings(Len(proof))'
    BY <2>1 DEF Siblings
  <2>4. (Range(n) \union Below(out, h))' = (Siblings(h) \union Below(roots, h))'
    <3>1. Siblings(h)' = Siblings(h')
      BY DEF Siblings
    <3>2. Below(out, h)' = Below(out', h') /\ Below(roots, h)' = Below(roots, h')
      BY DEF Below
    <3>3. (Range(n) \union Below(out, h))' = Range(n') \union Below(out', h')
      BY <3>2
    <3>4. (Siblings(h) \union Below(roots, h))' = Siblings(h') \union Below(roots, h')
      BY <3>1, <3>2
    <3> QED BY <1>6, <3>3, <3>4
  <2>5. IsInjective(n)' /\ h' \in 0 .. Len(proof)' /\ Len(proof)' \in Levels
    BY <1>3, <2>1
  <2> QED BY <1>7, <2>2, <2>3, <2>4, <2>5 DEF DeleteLoopInv
<1>9. NoLeafTwice' /\ AddLoopInv' /\ ProveLoopInv'
  BY DEF IInv, NoLeafTwice, AddLoopInv, ProveLoopInv
<1> QED BY <1>2, <1>8, <1>9 DEF IInv, LoopInvariant

\* A round of the delete loop passes a sibling and a root, in each of its three cases.
LEMMA DeleteStepInv ==
  ASSUME IInv, DeleteStep
  PROVE  IInv'
<1> DEFINE p == proof[h + 1]
           r == roots[h]
<1>1. /\ pc = "delete" /\ h < Len(proof) /\ h' = h + 1 /\ UNCHANGED <<roots, pc, leaf, index, proof>>
  BY DEF DeleteStep
<1>2. /\ p \in Node /\ r \in Node /\ n \in Node
      /\ IsInjective(p) /\ IsInjective(r) /\ IsInjective(n)
      /\ Range(p) \intersect Range(r) = {}
  BY <1>1, DeleteLoopFacts DEF IInv, TypeOK, LoopInvariant, DeleteLoopInv
<1>3. Range(n) \intersect (Range(p) \union Range(r)) = {}
  BY <1>1, DeleteLoopFacts DEF IInv, LoopInvariant, DeleteLoopInv
<1>4. \A i \in 0 .. h - 1 : Range(out[i]) \intersect (Range(n) \union Range(p) \union Range(r)) = {}
  <2>1. \A i \in 0 .. h - 1 : Range(out[i]) \subseteq Below(out, h)
    BY DEF Below
  <2> QED BY <1>1, <2>1, DeleteLoopFacts DEF IInv, LoopInvariant, DeleteLoopInv
<1>5. CASE n # Zero /\ n' = Hash(p, n) /\ out' = [out EXCEPT ![h] = r]
  <2>1. /\ Hash(p, n) \in Node /\ IsInjective(Hash(p, n))
        /\ Range(Hash(p, n)) = Range(p) \union Range(n)
    BY <1>2, <1>3, HashType, RangeHash, InjectiveHash
  <2> QED BY <1>1, <1>2, <1>3, <1>4, <1>5, <2>1, DeleteLoopKept
<1>6. CASE n = Zero /\ r = Zero /\ n' = n /\ out' = [out EXCEPT ![h] = p]
  BY <1>1, <1>2, <1>3, <1>4, <1>6, ZeroNode, DeleteLoopKept
<1>7. CASE n = Zero /\ r # Zero /\ n' = Hash(p, r) /\ out' = [out EXCEPT ![h] = Zero]
  <2>1. /\ Hash(p, r) \in Node /\ IsInjective(Hash(p, r))
        /\ Range(Hash(p, r)) = Range(p) \union Range(r)
    BY <1>2, HashType, RangeHash, InjectiveHash
  <2> QED BY <1>1, <1>2, <1>3, <1>4, <1>7, <2>1, ZeroNode, DeleteLoopKept
<1> QED BY <1>5, <1>6, <1>7 DEF DeleteStep

\* The roots a deletion returns: the old leaves but the one it was called for.
LEMMA DeleteResult ==
  ASSUME IInv, DeletePlace
  PROVE  /\ leaf \in LeavesOf(roots)
         /\ DistinctLeaves(Result)
         /\ LeavesOf(Result) = LeavesOf(roots) \ {leaf}
<1>1. /\ pc = "delete" /\ h = Len(proof) /\ h \in Levels /\ h \in Nat /\ h \in 0 .. Height
      /\ DOMAIN roots = Levels /\ DOMAIN Result = Levels
  BY HeightAssumption DEF DeletePlace, IInv, TypeOK, LoopInvariant, DeleteLoopInv, Result, Levels
<1>2. /\ DistinctSiblings(h)
      /\ Range(roots[h]) = {leaf} \union Siblings(h)
      /\ Range(n) \union Below(out, h) = Siblings(h) \union Below(roots, h)
      /\ IsInjective(n)
      /\ \A i \in 0 .. h - 1 :
           /\ IsInjective(out[i])
           /\ Range(out[i]) \intersect Range(n) = {}
           /\ \A j \in 0 .. h - 1 : i # j => Range(out[i]) \intersect Range(out[j]) = {}
  BY <1>1 DEF IInv, LoopInvariant, DeleteLoopInv
<1>3. \A i \in Levels :
        /\ i < h => i \in 0 .. h - 1 /\ Result[i] = out[i]
        /\ i = h => Result[i] = n
        /\ i > h => Result[i] = roots[i]
  BY <1>1 DEF Result, Levels
<1>4. \A i \in Levels : i < h \/ i = h \/ i > h
  BY <1>1 DEF Levels
<1>5. \A i \in Levels :
        /\ IsInjective(roots[i]) /\ Range(roots[i]) \subseteq LeavesOf(roots)
        /\ \A j \in Levels : i # j => Range(roots[i]) \intersect Range(roots[j]) = {}
  BY <1>1 DEF IInv, NoLeafTwice, DistinctLeaves, LeavesOf
<1>6. \A i \in 0 .. h - 1 : Range(out[i]) \subseteq Siblings(h) \union Below(roots, h)
  BY <1>2 DEF Below
<1>7. \A i \in Levels :
        i > h => Range(roots[i]) \intersect (Siblings(h) \union Below(roots, h)) = {}
  <2> SUFFICES ASSUME NEW i \in Levels, i > h
               PROVE  Range(roots[i]) \intersect (Siblings(h) \union Below(roots, h)) = {}
    OBVIOUS
  <2>1. h \in 0 .. i
    BY <1>1 DEF Levels
  <2>2. Range(roots[i]) \intersect Below(roots, h) = {}
    BY <2>1, BelowApart DEF IInv
  <2>3. Range(roots[i]) \intersect Range(roots[h]) = {}
    BY <1>1, <1>5
  <2> QED BY <2>2, <2>3, <1>2
<1>8. leaf \notin Siblings(h)
  BY <1>2 DEF DistinctSiblings, Siblings
<1>9. DistinctLeaves(Result)
  <2>1. \A i \in Levels : IsInjective(Result[i])
    BY <1>2, <1>3, <1>4, <1>5
  <2>2. \A i \in Levels : i <= h => Range(Result[i]) \subseteq Siblings(h) \union Below(roots, h)
    BY <1>1, <1>2, <1>3, <1>4, <1>6
  <2>3. ASSUME NEW i \in Levels, NEW j \in Levels, i # j
        PROVE  Range(Result[i]) \intersect Range(Result[j]) = {}
    <3>1. CASE i < h /\ j < h
      BY <3>1, <2>3, <1>2, <1>3
    <3>2. CASE (i < h /\ j = h) \/ (i = h /\ j < h)
      BY <3>2, <1>2, <1>3
    <3>3. CASE i <= h /\ j > h
      BY <3>3, <2>2, <1>3, <1>7
    <3>4. CASE i > h /\ j <= h
      BY <3>4, <2>2, <1>3, <1>7
    <3>5. CASE i > h /\ j > h
      BY <3>5, <2>3, <1>3, <1>5
    <3> QED BY <3>1, <3>2, <3>3, <3>4, <3>5, <2>3, <1>1 DEF Levels
  <2> QED BY <2>1, <2>3, <1>1 DEF DistinctLeaves
<1>10. leaf \in LeavesOf(roots) /\ \A i \in Levels : i # h => leaf \notin Range(roots[i])
  BY <1>1, <1>2, <1>5
<1>11. leaf \notin Below(roots, h)
  <2>1. 0 .. h - 1 \subseteq Levels \ {h}
    BY <1>1, HeightAssumption DEF Levels
  <2> QED BY <2>1, <1>10 DEF Below
<1>12. LeavesOf(Result) \subseteq LeavesOf(roots) \ {leaf}
  <2>1. Below(roots, h) \subseteq LeavesOf(roots) /\ Siblings(h) \subseteq LeavesOf(roots)
    BY <1>1, <1>2, <1>5, BelowLeaves DEF IInv
  <2>2. \A i \in Levels : Range(Result[i]) \subseteq LeavesOf(roots) \ {leaf}
    BY <1>2, <1>3, <1>4, <1>5, <1>6, <1>8, <1>10, <1>11, <2>1
  <2> QED BY <2>2, <1>1 DEF LeavesOf
<1>13. LeavesOf(roots) \ {leaf} \subseteq LeavesOf(Result)
  <2>1. \A i \in Levels : Range(Result[i]) \subseteq LeavesOf(Result)
    BY <1>1 DEF LeavesOf
  <2>2. Range(n) \union Below(out, h) \subseteq LeavesOf(Result)
    <3>1. \A i \in 0 .. h - 1 : i \in Levels /\ Result[i] = out[i]
      BY <1>1, HeightAssumption DEF Levels, Result
    <3> QED BY <2>1, <3>1, <1>1, <1>3 DEF Below
  <2>3. \A i \in Levels : i < h => Range(roots[i]) \subseteq Below(roots, h)
    BY <1>3 DEF Below
  <2>4. \A i \in Levels : Range(roots[i]) \ {leaf} \subseteq LeavesOf(Result)
    BY <1>2, <1>3, <1>4, <2>1, <2>2, <2>3
  <2> QED BY <2>4, <1>1 DEF LeavesOf
<1> QED BY <1>9, <1>10, <1>12, <1>13

\* utreexo_delete returns.
LEMMA DeletePlaceInv ==
  ASSUME IInv, DeletePlace
  PROVE  IInv'
<1>1. roots' = Result /\ Leave("idle")
  BY DEF DeletePlace
<1> QED BY <1>1, DeleteResult, ResultType, LeaveInv DEF IInv

-----------------------------------------------------------------------------
(* What every step of a running function keeps and does *)

\* The steps that need no bridge node.
LEMMA ComputeInv ==
  ASSUME IInv, Compute
  PROVE  IInv'
  BY AddCarryInv, AddPlaceInv, AddOverflowInv, ProveStepInv, ProveAcceptInv, ProveRejectInv,
     DeleteStepInv, DeletePlaceInv DEF Compute

\* A running function leaves the set of outputs alone until it returns, and then
\* inserts or extracts the leaf it was called for.
LEMMA ComputeRefines ==
  ASSUME IInv, Compute
  PROVE  [Abstract!Next]_(LeavesOf(roots))
<1>1. CASE AddPlace
  <2>1. LeavesOf(roots)' = LeavesOf(Result)
    BY <1>1 DEF AddPlace
  <2>2. Abstract!Insert(leaf) /\ leaf \in Leaf
    BY <1>1, <2>1, AddResult DEF Abstract!Insert
  <2> QED BY <2>2 DEF Abstract!Next
<1>2. CASE DeletePlace
  <2>1. LeavesOf(roots)' = LeavesOf(Result)
    BY <1>2 DEF DeletePlace
  <2>2. Abstract!Extract(leaf) /\ leaf \in Leaf
    BY <1>2, <2>1, DeleteResult DEF Abstract!Extract, DeletePlace, IInv, TypeOK
  <2> QED BY <2>2 DEF Abstract!Next
<1>3. CASE roots' = roots
  BY <1>3 DEF LeavesOf
<1> QED BY <1>1, <1>2, <1>3 DEF Compute, AddCarry, AddOverflow, ProveStep, ProveAccept,
           ProveReject, DeleteStep, Abort

\* Steps of other processes.
LEMMA StutterInv ==
  ASSUME IInv, UNCHANGED cairoVars
  PROVE  IInv'
<1> USE DEF cairoVars, locals
<1>1. TypeOK' /\ NoLeafTwice'
  BY DEF IInv, TypeOK, NoLeafTwice
<1>2. AddLoopInv'
  <2>1. Below(roots, h)' = Below(roots, h)
    BY DEF Below
  <2> QED BY <2>1 DEF IInv, LoopInvariant, AddLoopInv
<1>3. Siblings(h)' = Siblings(h) /\ Siblings(Len(proof))' = Siblings(Len(proof))
  BY DEF Siblings
<1>4. ProveLoopInv'
  <2>1. DistinctSiblings(h) => DistinctSiblings(h)'
    BY DEF DistinctSiblings
  <2> QED BY <1>3, <2>1 DEF IInv, LoopInvariant, ProveLoopInv
<1>5. DeleteLoopInv'
  <2>1. DistinctSiblings(Len(proof)) => DistinctSiblings(Len(proof))'
    BY DEF DistinctSiblings
  <2>2. Below(roots, h)' = Below(roots, h) /\ Below(out, h)' = Below(out, h)
    BY DEF Below
  <2> QED BY <1>3, <2>1, <2>2 DEF IInv, LoopInvariant, DeleteLoopInv
<1> QED BY <1>1, <1>2, <1>4, <1>5 DEF IInv, LoopInvariant

-----------------------------------------------------------------------------
(* What the accumulator guarantees, whatever it is answered *)

\* Every step keeps the inductive invariant, whatever was fetched.
LEMMA NextInv ==
  ASSUME Duplicates = {}, IInv, [Next]_cairoVars
  PROVE  IInv'
<1>1. ASSUME NEW x \in Leaf, StartAdd(x) PROVE IInv'
  BY <1>1, StartAddInv
<1>2. ASSUME NEW x \in Leaf, StartDelete(x) PROVE IInv'
  BY <1>2, StartDeleteInv
<1>3. ASSUME NEW answer \in Answers, Fetch(answer) PROVE IInv'
  BY <1>3, FetchInv
<1>4. CASE FetchFails
  BY <1>4, FetchFailsInv
<1>5. CASE Compute
  BY <1>5, ComputeInv
<1>6. CASE Restart
  BY <1>6, RestartInv
<1>7. CASE UNCHANGED cairoVars
  BY <1>7, StutterInv
<1> QED BY <1>1, <1>2, <1>3, <1>4, <1>5, <1>6, <1>7 DEF Next

\* Every step adds a leaf, takes one away, starts again, or leaves the set as it is.
LEMMA NextRefines ==
  ASSUME IInv, [Next]_cairoVars
  PROVE  [Abstract!Next]_(LeavesOf(roots))
<1>1. CASE roots' = roots
  BY <1>1
<1>2. CASE Compute
  BY <1>2, ComputeRefines
<1>3. CASE Restart
  BY <1>3, EmptyRootsOK DEF Restart, Abstract!Next, Abstract!Restart
<1> QED BY <1>1, <1>2, <1>3 DEF Next, StartAdd, StartDelete, Fetch, FetchFails, Abort, cairoVars

\* The type invariant and the invariant of the loops of utreexo_add,
\* utreexo_prove_inclusion and utreexo_delete: between any two rounds, no leaf
\* of the forest was lost or copied.
THEOREM AccumulatorInvariant ==
  ASSUME Duplicates = {}
  PROVE  Spec => []IInv
<1>1. Init => IInv
  BY InitInv
<1>2. IInv /\ [Next]_cairoVars => IInv'
  BY NextInv
<1> QED BY <1>1, <1>2, PTL DEF Spec

\* An output is never below the roots twice, so spending it takes it away.
THEOREM AccumulatorHoldsNoLeafTwice ==
  ASSUME Duplicates = {}
  PROVE  Spec => []NoLeafTwice
<1>1. IInv => NoLeafTwice
  BY DEF IInv
<1> QED BY <1>1, AccumulatorInvariant, PTL

\* Whatever fetch_inclusion_proof returns, utreexo_add and utreexo_delete
\* implement a set of outputs: no output is spent that is not in the set.
THEOREM AccumulatorImplementsUtxoSet ==
  ASSUME Duplicates = {}
  PROVE  Spec => ImplementsUtxoSet
<1>1. Init => Abstract!Init
  BY EmptyRootsOK DEF Init, Abstract!Init
<1>2. IInv /\ [Next]_cairoVars => [Abstract!Next]_(LeavesOf(roots))
  BY NextRefines
<1> QED BY <1>1, <1>2, AccumulatorInvariant, PTL DEF Spec, ImplementsUtxoSet, Abstract!Spec

-----------------------------------------------------------------------------
(* The accumulator and the bridge node *)


\* Every step of the run and of the world around it keeps the invariant.
LEMMA ProverNextInv ==
  ASSUME Duplicates = {}, IInv, [ProverNext]_vars
  PROVE  IInv'
<1>1. ASSUME NEW x \in Leaf, Insert(x) PROVE IInv'
  BY <1>1, StartAddInv DEF Insert
<1>2. ASSUME NEW x \in Leaf, Extract(x) PROVE IInv'
  BY <1>2, StartDeleteInv DEF Extract
<1>3. CASE FetchProof
  <2>1. CASE Fetch(Answer(leaf))
    BY <2>1, FetchInv
  <2>2. CASE FetchFails
    BY <2>2, FetchFailsInv
  <2> QED BY <1>3, <2>1, <2>2 DEF FetchProof
<1>4. CASE FetchMissing \/ FetchUnconnected
  BY <1>4, FetchFailsInv DEF FetchMissing, FetchUnconnected
<1>5. CASE InsertUnconnected \/ Kill
  BY <1>5, AbortInv DEF InsertUnconnected, Kill
<1>6. CASE Run
  BY <1>6, ComputeInv DEF Run
<1>7. CASE StartDriver
  BY <1>7, RestartInv DEF StartDriver
<1>8. CASE UNCHANGED cairoVars
  BY <1>8, StutterInv
<1> QED BY <1>1, <1>2, <1>3, <1>4, <1>5, <1>6, <1>7, <1>8
        DEF ProverNext, ProverStep, Faults, BridgeStops, BridgeStarts, OtherClient, vars

\* Every step changes the set of outputs as the abstract specification says.
LEMMA ProverNextRefines ==
  ASSUME IInv, [ProverNext]_vars
  PROVE  [Abstract!Next]_(LeavesOf(roots))
<1>1. CASE roots' = roots
  BY <1>1
<1>2. CASE Run
  BY <1>2, ComputeRefines DEF Run
<1>3. CASE StartDriver
  BY <1>3, EmptyRootsOK DEF StartDriver, Restart, Abstract!Next, Abstract!Restart
<1> QED BY <1>1, <1>2, <1>3
        DEF ProverNext, ProverStep, Faults, Insert, Extract, InsertUnconnected, FetchProof,
            FetchMissing, FetchUnconnected, Kill, BridgeStops, BridgeStarts, OtherClient,
            StartAdd, StartDelete, Fetch, FetchFails, Abort, vars, cairoVars

\* The invariant of the accumulator's loops holds in every run, among bridge
\* nodes that stop, other clients that reset it and drivers that are killed.
THEOREM ProverInvariant ==
  ASSUME Duplicates = {}
  PROVE  ProverSpec => []IInv
<1>1. ProverInit => IInv
  BY InitInv DEF ProverInit
<1>2. IInv /\ [ProverNext]_vars => IInv'
  BY ProverNextInv
<1> QED BY <1>1, <1>2, PTL DEF ProverSpec

\* The whole system implements a set of outputs: the bridge node cannot make the
\* roots lose, keep or gain an output that the program did not mean to.
THEOREM ProverImplementsUtxoSet ==
  ASSUME Duplicates = {}
  PROVE  ProverSpec => ImplementsUtxoSet
<1>1. ProverInit => Abstract!Init
  BY EmptyRootsOK DEF ProverInit, Init, Abstract!Init
<1>2. IInv /\ [ProverNext]_vars => [Abstract!Next]_(LeavesOf(roots))
  BY ProverNextRefines
<1> QED BY <1>1, <1>2, ProverInvariant, PTL DEF ProverSpec, ImplementsUtxoSet, Abstract!Spec

-----------------------------------------------------------------------------
(* The two implementations of the forest keep in step *)

\* The bridge node has added the leaf that the carry of utreexo_add is on its
\* way to a root with.
AddAhead ==
  \E f, c : /\ CarryTo(roots, leaf, f, c) /\ root_nodes = AfterAdd(roots, f, c)
            /\ h \in 0 .. f /\ n = c[h]
            /\ \A i \in 0 .. h - 1 : out[i] = Zero

\* The bridge node has deleted the leaf whose proof the program has got.
Spent(d) ==
  /\ Len(proof) \in Levels
  /\ CarriesOff(roots, proof, d) /\ root_nodes = AfterDelete(roots, proof, d)

ProveAhead ==
  /\ \E d : Spent(d)
  /\ \E i0, c : /\ LeadsUp(leaf, proof, i0, c) /\ c[Len(proof)] = roots[Len(proof)]
                /\ h \in 0 .. Len(proof) /\ n = c[h] /\ index = i0 \div 2^h

DeleteAhead ==
  \E d : /\ Spent(d)
         /\ h \in 0 .. Len(proof) /\ n = d[h]
         /\ \A i \in 0 .. h - 1 : out[i] = LeftAt(roots, proof, d, i)

InStep ==
  /\ up /\ pc \in ProgramCounters \ {"aborted"} /\ DOMAIN out = Levels
  /\ Cardinality(leaf_nodes) < 2^Height
  /\ pc \in {"idle", "fetch"} => root_nodes = roots
  /\ pc = "fetch" => leaf \in leaf_nodes
  /\ pc = "add" => AddAhead /\ leaf_nodes = LeavesOf(roots) \union {leaf}
  /\ pc \in {"prove", "delete"} => leaf_nodes = LeavesOf(roots) \ {leaf}
  /\ pc = "prove" => ProveAhead
  /\ pc = "delete" => DeleteAhead

\* Nothing happened that excuses a failure, or the two are in step.
Synced == BridgeInv /\ (excuse \/ InStep)

\* When no operation runs, the dictionary holds the leaves of the accumulator.
LEMMA SameLeaves ==
  ASSUME BridgeInv, Cardinality(leaf_nodes) < 2^Height, root_nodes = roots
  PROVE  LeavesOf(roots) = leaf_nodes
BY ForestPerfectHolds DEF ForestPerfect

\* The three properties of an undisturbed run are parts of being in step.
LEMMA SyncedProperties ==
  ASSUME Synced
  PROVE  Lockstep /\ OneRequestAhead /\ ValidRunNeverAborts
<1>1. ValidRunNeverAborts /\ Lockstep
  BY DEF Synced, InStep, ValidRunNeverAborts, Lockstep
<1>2. ASSUME ~excuse, pc \in {"idle", "fetch"} PROVE leaf_nodes = LeavesOf(roots)
  BY <1>2, SameLeaves DEF Synced, InStep
<1>3. OneRequestAhead
  <2> SUFFICES ASSUME ~excuse
               PROVE  leaf_nodes = CASE pc = "add" -> LeavesOf(roots) \union {leaf}
                                     [] pc \in {"prove", "delete"} -> LeavesOf(roots) \ {leaf}
                                     [] pc \in {"idle", "fetch"} -> LeavesOf(roots)
                                     [] OTHER -> leaf_nodes
    BY DEF OneRequestAhead
  <2>1. CASE pc = "add"
    BY <2>1 DEF Synced, InStep
  <2>2. CASE pc \in {"prove", "delete"}
    BY <2>2 DEF Synced, InStep
  <2>3. CASE pc \in {"idle", "fetch"}
    BY <1>2, <2>3
  <2>4. CASE pc \notin {"add", "prove", "delete", "idle", "fetch"}
    BY <2>4
  <2> QED
    BY <2>1, <2>2, <2>3, <2>4
<1> QED
  BY <1>1, <1>3

\* Two empty forests are in step.
LEMMA SyncedInit ==
  ASSUME ProverInit
  PROVE  Synced
<1>1. BridgeInv
  BY EmptyForest DEF ProverInit
<1>2. Cardinality(leaf_nodes) < 2^Height
  BY PowersOfTwo, HeightAssumption, FS_EmptySet DEF ProverInit, BridgeInit
<1>3. DOMAIN EmptyRoots = Levels
  BY DEF EmptyRoots
<1>4. InStep
  BY <1>2, <1>3 DEF ProverInit, BridgeInit, Init, InStep, ProgramCounters
<1> QED
  BY <1>1, <1>4 DEF Synced

\* What is left of the state when an operation returns or the run is restarted.
LEMMA BackToIdle ==
  ASSUME Leave("idle"), up', Cardinality(leaf_nodes') < 2^Height, root_nodes' = roots'
  PROVE  InStep'
<1>1. pc' = "idle" /\ out' = EmptyRoots /\ DOMAIN EmptyRoots = Levels
  BY DEF Leave, EmptyRoots
<1> QED
  BY <1>1 DEF InStep, ProgramCounters

\* GET /add puts the bridge node ahead by the leaf that utreexo_add will place.
LEMMA InsertSynced ==
  ASSUME Synced, NEW x \in Leaf, Insert(x)
  PROVE  Synced'
<1>1. BridgeInv'
  BY RequestInv DEF Insert, Request, Synced
<1>2. ASSUME ~excuse' PROVE InStep'
  <2>1. ~excuse /\ ~Full /\ x \notin LeavesOf(roots) /\ pc = "idle" /\ InStep /\ BridgeInv
    BY <1>2 DEF Insert, StartAdd, Synced
  <2>2. root_nodes = roots /\ Cardinality(leaf_nodes) < 2^Height /\ DOMAIN out = Levels /\ up
    BY <2>1 DEF InStep
  <2>3. LeavesOf(roots) = leaf_nodes
    BY <2>1, <2>2, SameLeaves
  <2>4. Add(x) /\ leaf_nodes' = leaf_nodes \union {x}
    BY <2>1, <2>3 DEF Insert, AddExisting, Add
  <2>5. Cardinality(leaf_nodes') < 2^Height
    <3>1. IsFiniteSet(leaf_nodes) /\ x \notin leaf_nodes
      BY <2>1, <2>3 DEF BridgeInv, KeysAreLeaves
    <3>2. Cardinality(leaf_nodes') = Cardinality(leaf_nodes) + 1 /\ Cardinality(leaf_nodes) \in Nat
      BY <2>4, <3>1, FS_AddElement, FS_CardinalityType
    <3>3. Cardinality(leaf_nodes) # 2^Height - 1 /\ 2^Height \in Nat
      BY <2>1, <2>3, PowersOfTwo, HeightAssumption DEF Full
    <3> QED
      BY <2>2, <3>2, <3>3
  <2>6. PICK f, c : CarryTo(root_nodes, x, f, c) /\ root_nodes' = AfterAdd(root_nodes, f, c)
    BY <2>1, <2>4, <2>5, AddEffect
  <2>7. /\ roots' = roots /\ pc' = "add" /\ leaf' = x /\ n' = <<x>> /\ h' = 0 /\ out' = out /\ up'
    BY <2>2 DEF Insert, StartAdd
  <2>8. f \in Nat /\ c[0] = <<x>>
    BY <2>6, HeightAssumption DEF CarryTo, Levels
  <2>9. AddAhead'
    <3>1. h' \in 0 .. f /\ n' = c[h'] /\ \A i \in 0 .. h' - 1 : out'[i] = Zero
      BY <2>7, <2>8
    <3>2. CarryTo(roots', leaf', f, c) /\ root_nodes' = AfterAdd(roots', f, c)
      BY <2>2, <2>6, <2>7
    <3> QED
      BY <3>1, <3>2 DEF AddAhead
  <2> QED
    BY <2>2, <2>3, <2>4, <2>5, <2>7, <2>9 DEF InStep, ProgramCounters
<1> QED
  BY <1>1, <1>2 DEF Synced

\* Before the request for a proof the two forests are still the same.
LEMMA ExtractSynced ==
  ASSUME Synced, NEW x \in Leaf, Extract(x)
  PROVE  Synced'
<1>1. BridgeInv'
  BY IdleRequestInv DEF Extract, Synced
<1>2. ASSUME ~excuse' PROVE InStep'
  <2>1. ~excuse /\ x \in LeavesOf(roots) /\ pc = "idle" /\ InStep /\ BridgeInv
    BY <1>2 DEF Extract, StartDelete, Synced
  <2>2. root_nodes = roots /\ Cardinality(leaf_nodes) < 2^Height /\ DOMAIN out = Levels /\ up
    BY <2>1 DEF InStep
  <2>3. LeavesOf(roots) = leaf_nodes
    BY <2>1, <2>2, SameLeaves
  <2>4. /\ roots' = roots /\ pc' = "fetch" /\ leaf' = x /\ out' = out /\ up' = up
        /\ root_nodes' = root_nodes /\ leaf_nodes' = leaf_nodes
    BY DEF Extract, StartDelete, bridgeVars
  <2> QED
    BY <2>1, <2>2, <2>3, <2>4 DEF InStep, ProgramCounters
<1> QED
  BY <1>1, <1>2 DEF Synced

\* The answer of a bridge node that is in step leads up to the right root.
LEMMA FetchProofSynced ==
  ASSUME Synced, FetchProof
  PROVE  Synced'
<1>1. BridgeInv'
  BY DeleteInv DEF FetchProof, Synced
<1>2. ASSUME ~excuse' PROVE InStep'
  <2> DEFINE pf == ProofOf(leaf)
  <2>1. ~excuse /\ pc = "fetch" /\ InStep /\ BridgeInv /\ Delete(leaf)
    BY <1>2 DEF FetchProof, Fetch, FetchFails, Synced
  <2>2. root_nodes = roots /\ Cardinality(leaf_nodes) < 2^Height /\ DOMAIN out = Levels /\ up
        /\ leaf \in leaf_nodes
    BY <2>1 DEF InStep
  <2>3. LeavesOf(roots) = leaf_nodes
    BY <2>1, <2>2, SameLeaves
  <2>4. Replies(leaf) /\ PathLen(leaf) \in Levels
    BY <2>1, <2>2, EveryLeafProvableHolds DEF EveryLeafProvable, Replies
  <2>5. /\ roots' = roots /\ pc' = "prove" /\ leaf' = leaf /\ n' = <<leaf>> /\ h' = 0 /\ out' = out
        /\ index' = IndexOf(leaf) /\ proof' = pf /\ up'
    BY <2>2, <2>4 DEF FetchProof, Fetch, Answer
  <2>6. /\ Len(pf) = PathLen(leaf)
        /\ LeadsUp(leaf, pf, IndexOf(leaf), Path(leaf))
        /\ Path(leaf)[Len(pf)] = roots[Len(pf)]
    BY <2>1, <2>2, <2>4, ProofEffect
  <2>7. PICK d : CarriesOff(roots, pf, d) /\ root_nodes' = AfterDelete(roots, pf, d)
    BY <2>1, <2>2, <2>4, DeleteEffect
  <2>8. Spent(d)'
    BY <2>4, <2>5, <2>6, <2>7 DEF Spent
  <2>9. /\ LeadsUp(leaf', proof', IndexOf(leaf), Path(leaf))
        /\ Path(leaf)[Len(proof')] = roots'[Len(proof')]
    BY <2>5, <2>6
  <2>10. h' \in 0 .. Len(proof') /\ n' = Path(leaf)[h'] /\ index' = IndexOf(leaf) \div 2^h'
    <3>1. Len(proof') \in Nat
      BY <2>4, <2>5, <2>6, HeightAssumption DEF Levels
    <3>2. Path(leaf)[0] = <<leaf>> /\ IndexOf(leaf) \in Nat
      BY <2>6 DEF LeadsUp
    <3>3. 2^h' = 1 /\ IndexOf(leaf) \div 1 = IndexOf(leaf)
      BY <2>5, <3>2, PowersOfTwo
    <3> QED
      BY <2>5, <3>1, <3>2, <3>3
  <2>11. ProveAhead'
    BY <2>8, <2>9, <2>10 DEF ProveAhead
  <2>12. leaf_nodes' = leaf_nodes \ {leaf}
    BY <2>1 DEF Delete
  <2>13. Cardinality(leaf_nodes') < 2^Height
    <3>1. IsFiniteSet(leaf_nodes)
      BY <2>1 DEF BridgeInv, KeysAreLeaves
    <3>2. Cardinality(leaf_nodes') <= Cardinality(leaf_nodes) /\ IsFiniteSet(leaf_nodes')
      BY <2>12, <3>1, FS_Subset
    <3>3. Cardinality(leaf_nodes') \in Nat /\ Cardinality(leaf_nodes) \in Nat /\ 2^Height \in Nat
      BY <3>1, <3>2, FS_CardinalityType, PowersOfTwo, HeightAssumption
    <3> QED
      BY <2>2, <3>2, <3>3
  <2> QED
    BY <2>2, <2>3, <2>5, <2>11, <2>12, <2>13 DEF InStep, ProgramCounters
<1> QED
  BY <1>1, <1>2 DEF Synced

\* The carry of utreexo_add meets the same roots as the bridge node's did.
LEMMA AddCarrySynced ==
  ASSUME InStep, AddCarry, UNCHANGED <<bridgeVars, up>>
  PROVE  InStep'
<1>1. /\ roots' = roots /\ pc = "add" /\ pc' = "add" /\ leaf' = leaf /\ h' = h + 1
      /\ n' = Hash(roots[h], n) /\ out' = [out EXCEPT ![h] = Zero] /\ roots[h] # Zero
      /\ root_nodes' = root_nodes /\ leaf_nodes' = leaf_nodes /\ up'
  BY DEF AddCarry, bridgeVars, InStep
<1>2. PICK f, c : /\ CarryTo(roots, leaf, f, c) /\ root_nodes = AfterAdd(roots, f, c)
                  /\ h \in 0 .. f /\ n = c[h]
                  /\ \A i \in 0 .. h - 1 : out[i] = Zero
  BY <1>1 DEF InStep, AddAhead
<1>3. f \in Levels /\ roots[f] = Zero /\ f \in Nat
  BY <1>2, HeightAssumption DEF CarryTo, Levels
<1>4. h \in Nat /\ h < f /\ h \in 0 .. f - 1 /\ h + 1 \in 0 .. f
  BY <1>1, <1>2, <1>3
<1>5. h \in Levels
  BY <1>3, <1>4, HeightAssumption DEF Levels
<1>6. n' = c[h']
  BY <1>1, <1>2, <1>4 DEF CarryTo
<1>7. DOMAIN out = Levels
  BY DEF InStep
<1>8. DOMAIN out' = Levels /\ out'[h] = Zero /\ \A i \in Levels : i # h => out'[i] = out[i]
  BY <1>1, <1>5, <1>7
<1>9. \A i \in 0 .. h' - 1 : out'[i] = Zero
  <2> TAKE i \in 0 .. h' - 1
  <2>1. i = h \/ (i \in 0 .. h - 1 /\ i \in Levels /\ i # h)
    BY <1>1, <1>3, <1>4, HeightAssumption DEF Levels
  <2> QED
    BY <1>2, <1>8, <2>1
<1>10. AddAhead'
  <2>1. h' \in 0 .. f
    BY <1>1, <1>4
  <2>2. CarryTo(roots', leaf', f, c) /\ root_nodes' = AfterAdd(roots', f, c)
    BY <1>1, <1>2
  <2> QED
    BY <1>6, <1>9, <2>1, <2>2 DEF AddAhead
<1> QED
  BY <1>1, <1>8, <1>10 DEF InStep, ProgramCounters

\* The roots that utreexo_add returns are the bridge node's.
LEMMA AddPlaceSynced ==
  ASSUME InStep, AddPlace, UNCHANGED <<bridgeVars, up>>
  PROVE  InStep'
<1>1. /\ roots' = Result /\ pc = "add" /\ Leave("idle") /\ roots[h] = Zero
      /\ root_nodes' = root_nodes /\ leaf_nodes' = leaf_nodes /\ up'
      /\ Cardinality(leaf_nodes) < 2^Height
  BY DEF AddPlace, bridgeVars, InStep
<1>2. PICK f, c : /\ CarryTo(roots, leaf, f, c) /\ root_nodes = AfterAdd(roots, f, c)
                  /\ h \in 0 .. f /\ n = c[h]
                  /\ \A i \in 0 .. h - 1 : out[i] = Zero
  BY <1>1 DEF InStep, AddAhead
<1>3. f \in Nat /\ \A i \in 0 .. f - 1 : roots[i] # Zero
  BY <1>2, HeightAssumption DEF CarryTo, Levels
<1>4. h = f
  BY <1>1, <1>2, <1>3
<1>5. \A i \in Levels : i < f => i \in 0 .. h - 1
  BY <1>3, <1>4, HeightAssumption DEF Levels
<1>6. Result = AfterAdd(roots, f, c)
  BY <1>2, <1>4, <1>5 DEF Result, AfterAdd
<1> QED
  BY <1>1, <1>2, <1>6, BackToIdle

\* The bridge node found room, so does the accumulator.
LEMMA NoOverflow ==
  ASSUME InStep, AddOverflow
  PROVE  FALSE
<1>1. pc = "add" /\ h \notin Levels
  BY DEF AddOverflow
<1>2. PICK f, c : CarryTo(roots, leaf, f, c) /\ h \in 0 .. f
  BY <1>1 DEF InStep, AddAhead
<1> QED
  BY <1>1, <1>2, HeightAssumption DEF CarryTo, Levels

\* The proof check climbs the path that the bridge node took the siblings from.
LEMMA ProveStepSynced ==
  ASSUME InStep, ProveStep, UNCHANGED <<bridgeVars, up>>
  PROVE  InStep'
<1>1. /\ roots' = roots /\ pc = "prove" /\ pc' = "prove" /\ leaf' = leaf /\ h' = h + 1
      /\ n' = IF index % 2 = 0 THEN Hash(n, proof[h + 1]) ELSE Hash(proof[h + 1], n)
      /\ index' = index \div 2 /\ out' = out /\ proof' = proof /\ h < Len(proof)
      /\ root_nodes' = root_nodes /\ leaf_nodes' = leaf_nodes /\ up'
  BY DEF ProveStep, bridgeVars, InStep
<1>2. PICK d : Spent(d)
  BY <1>1 DEF InStep, ProveAhead
<1>3. PICK i0, c : /\ LeadsUp(leaf, proof, i0, c) /\ c[Len(proof)] = roots[Len(proof)]
                   /\ h \in 0 .. Len(proof) /\ n = c[h] /\ index = i0 \div 2^h
  BY <1>1 DEF InStep, ProveAhead
<1>4. Len(proof) \in Nat /\ h \in Nat /\ h \in 0 .. Len(proof) - 1 /\ h + 1 \in 0 .. Len(proof)
  BY <1>1, <1>2, <1>3, HeightAssumption DEF Spent, Levels
<1>5. n' = c[h']
  BY <1>1, <1>3, <1>4 DEF LeadsUp
<1>6. index' = i0 \div 2^h'
  <2>1. i0 \in Nat /\ 2^h \in Nat \ {0} /\ 2^(h + 1) = 2 * 2^h
    BY <1>3, <1>4, PowersOfTwo DEF LeadsUp
  <2>2. (i0 \div 2^h) \div 2 = i0 \div (2 * 2^h)
    BY <2>1, HalfOfQuotient
  <2> QED
    BY <1>1, <1>3, <2>1, <2>2
<1>7. ProveAhead'
  <2>1. Spent(d)'
    BY <1>1, <1>2 DEF Spent
  <2>2. LeadsUp(leaf', proof', i0, c) /\ c[Len(proof')] = roots'[Len(proof')]
    BY <1>1, <1>3
  <2>3. h' \in 0 .. Len(proof')
    BY <1>1, <1>4
  <2> QED
    BY <1>5, <1>6, <2>1, <2>2, <2>3 DEF ProveAhead
<1> QED
  BY <1>1, <1>7 DEF InStep, ProgramCounters

\* An answer of the bridge node is accepted.
LEMMA NoReject ==
  ASSUME InStep, ProveReject
  PROVE  FALSE
<1>1. pc = "prove" /\ h = Len(proof) /\ ~ProofMatches
  BY DEF ProveReject
<1>2. Len(proof) \in Levels
  BY <1>1 DEF InStep, ProveAhead, Spent
<1>3. n = roots[h]
  BY <1>1 DEF InStep, ProveAhead
<1> QED
  BY <1>1, <1>2, <1>3 DEF ProofMatches

\* At the root of that path the delete loop starts with an empty carry, as the
\* bridge node's did.
LEMMA ProveAcceptSynced ==
  ASSUME InStep, ProveAccept, UNCHANGED <<bridgeVars, up>>
  PROVE  InStep'
<1>1. /\ roots' = roots /\ pc = "prove" /\ pc' = "delete" /\ leaf' = leaf /\ h' = 0
      /\ n' = Zero /\ out' = out /\ proof' = proof
      /\ root_nodes' = root_nodes /\ leaf_nodes' = leaf_nodes /\ up'
  BY DEF ProveAccept, bridgeVars, InStep
<1>2. PICK d : Spent(d)
  BY <1>1 DEF InStep, ProveAhead
<1>3. Spent(d)'
  BY <1>1, <1>2 DEF Spent
<1>4. h' \in 0 .. Len(proof') /\ n' = d[h']
  BY <1>1, <1>2, HeightAssumption DEF Spent, CarriesOff, Levels
<1>5. \A i \in 0 .. h' - 1 : out'[i] = LeftAt(roots', proof', d, i)
  BY <1>1
<1> QED
  BY <1>1, <1>3, <1>4, <1>5 DEF InStep, ProgramCounters, DeleteAhead

\* A round of the delete loop finds the three cases as the bridge node did.
LEMMA DeleteStepSynced ==
  ASSUME InStep, DeleteStep, UNCHANGED <<bridgeVars, up>>
  PROVE  InStep'
<1> DEFINE p == proof[h + 1]
<1>1. /\ roots' = roots /\ pc = "delete" /\ pc' = "delete" /\ leaf' = leaf /\ h' = h + 1
      /\ proof' = proof /\ h < Len(proof)
      /\ root_nodes' = root_nodes /\ leaf_nodes' = leaf_nodes /\ up'
  BY DEF DeleteStep, bridgeVars, InStep
<1>2. PICK d : /\ Spent(d) /\ h \in 0 .. Len(proof) /\ n = d[h]
               /\ \A i \in 0 .. h - 1 : out[i] = LeftAt(roots, proof, d, i)
  BY <1>1 DEF InStep, DeleteAhead
<1>3. Len(proof) \in Levels /\ CarriesOff(roots, proof, d)
  BY <1>2 DEF Spent
<1>4. /\ Len(proof) \in Nat /\ h \in Nat /\ h \in 0 .. Len(proof) - 1
      /\ h + 1 \in 0 .. Len(proof) /\ h \in Levels
  BY <1>1, <1>2, <1>3, HeightAssumption DEF Levels
<1>5. d[h + 1] = IF n # Zero THEN Hash(p, n)
                 ELSE IF roots[h] = Zero THEN Zero ELSE Hash(p, roots[h])
  BY <1>2, <1>3, <1>4 DEF CarriesOff
<1>6. n' = d[h + 1] /\ out' = [out EXCEPT ![h] = LeftAt(roots, proof, d, h)]
  <2>1. CASE n # Zero
    BY <1>2, <1>5, <2>1 DEF DeleteStep, LeftAt
  <2>2. CASE n = Zero /\ roots[h] = Zero
    BY <1>2, <1>5, <2>2 DEF DeleteStep, LeftAt
  <2>3. CASE n = Zero /\ roots[h] # Zero
    BY <1>2, <1>5, <2>3 DEF DeleteStep, LeftAt
  <2> QED
    BY <2>1, <2>2, <2>3
<1>7. DOMAIN out = Levels
  BY DEF InStep
<1>8. /\ DOMAIN out' = Levels /\ out'[h] = LeftAt(roots, proof, d, h)
      /\ \A i \in Levels : i # h => out'[i] = out[i]
  BY <1>4, <1>6, <1>7
<1>9. \A i \in 0 .. h' - 1 : out'[i] = LeftAt(roots, proof, d, i)
  <2> TAKE i \in 0 .. h' - 1
  <2>1. i = h \/ (i \in 0 .. h - 1 /\ i \in Levels /\ i # h)
    BY <1>1, <1>4, HeightAssumption DEF Levels
  <2> QED
    BY <1>2, <1>8, <2>1
<1>10. DeleteAhead'
  <2>1. Spent(d)'
    BY <1>1, <1>2 DEF Spent
  <2>2. h' \in 0 .. Len(proof') /\ n' = d[h']
    BY <1>1, <1>4, <1>6
  <2>3. \A i \in 0 .. h' - 1 : out'[i] = LeftAt(roots', proof', d, i)
    BY <1>1, <1>9
  <2> QED
    BY <2>1, <2>2, <2>3 DEF DeleteAhead
<1> QED
  BY <1>1, <1>8, <1>10 DEF InStep, ProgramCounters

\* The roots that utreexo_delete returns are the bridge node's.
LEMMA DeletePlaceSynced ==
  ASSUME InStep, DeletePlace, UNCHANGED <<bridgeVars, up>>
  PROVE  InStep'
<1>1. /\ roots' = Result /\ pc = "delete" /\ Leave("idle") /\ h = Len(proof)
      /\ root_nodes' = root_nodes /\ leaf_nodes' = leaf_nodes /\ up'
      /\ Cardinality(leaf_nodes) < 2^Height
  BY DEF DeletePlace, bridgeVars, InStep
<1>2. PICK d : /\ Spent(d) /\ n = d[h]
               /\ \A i \in 0 .. h - 1 : out[i] = LeftAt(roots, proof, d, i)
  BY <1>1 DEF InStep, DeleteAhead
<1>3. Len(proof) \in Levels /\ root_nodes = AfterDelete(roots, proof, d)
  BY <1>2 DEF Spent
<1>4. \A i \in Levels : i < h => i \in 0 .. h - 1
  BY <1>1, <1>3, HeightAssumption DEF Levels
<1>5. Result = AfterDelete(roots, proof, d)
  BY <1>1, <1>2, <1>4 DEF Result, AfterDelete
<1> QED
  BY <1>1, <1>3, <1>5, BackToIdle

\* The rounds of a running function keep it in step with the forest ahead of it.
LEMMA RunSynced ==
  ASSUME Synced, Run
  PROVE  Synced'
<1>1. BridgeInv'
  BY IdleRequestInv DEF Run, Synced
<1>2. UNCHANGED <<bridgeVars, up>> /\ excuse' = excuse
  BY DEF Run
<1>3. ASSUME ~excuse PROVE InStep'
  <2>1. InStep
    BY <1>3 DEF Synced
  <2> QED
    BY <1>2, <2>1, AddCarrySynced, AddPlaceSynced, NoOverflow, ProveStepSynced, ProveAcceptSynced,
       NoReject, DeleteStepSynced, DeletePlaceSynced DEF Run, Compute
<1> QED
  BY <1>1, <1>2, <1>3 DEF Synced

\* A run that is told a leaf is missing, or gets no answer, has an excuse.
LEMMA NothingFetched ==
  ASSUME Synced, FetchMissing \/ FetchUnconnected \/ InsertUnconnected
  PROVE  Synced'
<1>1. bridgeVars' = bridgeVars /\ excuse' = excuse
  BY DEF FetchMissing, FetchUnconnected, InsertUnconnected, DeleteMissing
<1>2. BridgeInv'
  BY <1>1, IdleRequestInv DEF Synced
<1>3. ~up \/ (pc = "fetch" /\ leaf \notin leaf_nodes)
  BY DEF FetchMissing, FetchUnconnected, InsertUnconnected, DeleteMissing, FetchFails
<1>4. excuse
  BY <1>3 DEF Synced, InStep
<1> QED
  BY <1>1, <1>2, <1>4 DEF Synced

\* What stops or disturbs a run excuses it.
LEMMA FaultSynced ==
  ASSUME Synced, Faults
  PROVE  Synced'
<1>1. CASE Kill
  <2>1. BridgeInv'
    BY <1>1, IdleRequestInv DEF Kill, Synced
  <2> QED
    BY <1>1, <2>1 DEF Kill, Synced
<1>2. CASE BridgeStops
  BY <1>2, ResetInv DEF BridgeStops, Synced
<1>3. CASE BridgeStarts
  <2>1. BridgeInv' /\ excuse' = excuse
    BY <1>3, IdleRequestInv DEF BridgeStarts, Synced
  <2>2. excuse
    BY <1>3 DEF BridgeStarts, Synced, InStep
  <2> QED
    BY <2>1, <2>2 DEF Synced
<1>4. CASE OtherClient
  BY <1>4, BridgeNextInv DEF OtherClient, Synced
<1> QED
  BY <1>1, <1>2, <1>3, <1>4 DEF Faults

\* A new run starts with the forest it asked the bridge node to forget.
LEMMA StartDriverSynced ==
  ASSUME StartDriver
  PROVE  Synced'
<1>1. BridgeInv'
  BY ResetInv DEF StartDriver
<1>2. Cardinality(leaf_nodes') < 2^Height
  BY PowersOfTwo, HeightAssumption, FS_EmptySet DEF StartDriver, Reset
<1>3. root_nodes' = roots' /\ Leave("idle") /\ up'
  BY DEF StartDriver, Reset, Restart
<1> QED
  BY <1>1, <1>2, <1>3, BackToIdle DEF Synced

\* Every step of the run and of the world around it keeps the two in step.
LEMMA SyncedNext ==
  ASSUME Synced, [ProverNext]_vars
  PROVE  Synced'
<1>1. CASE UNCHANGED vars
  <2>1. BridgeInv'
    BY <1>1, IdleRequestInv DEF vars, Synced
  <2>2. InStep => InStep'
    BY <1>1 DEF vars, cairoVars, bridgeVars, locals, InStep, AddAhead, ProveAhead, DeleteAhead, Spent
  <2> QED
    BY <1>1, <2>1, <2>2 DEF vars, Synced
<1>2. CASE Faults
  BY <1>2, FaultSynced
<1>3. CASE ProverStep
  BY <1>3, InsertSynced, ExtractSynced, FetchProofSynced, NothingFetched, RunSynced,
     StartDriverSynced DEF ProverStep
<1> QED
  BY <1>1, <1>2, <1>3 DEF ProverNext

\* In every run, until something happens that excuses a failure, the bridge
\* node's forest is what the accumulator's is, or what it is going to be.
THEOREM TwoForestsInStep == ProverSpec => []Synced
<1>1. ProverInit => Synced
  BY SyncedInit
<1>2. Synced /\ [ProverNext]_vars => Synced'
  BY SyncedNext
<1> QED
  BY <1>1, <1>2, PTL DEF ProverSpec

\* The carry and delete loops of the Cairo program and those of the Python
\* bridge node compute the same roots.
THEOREM ForestsAgree == ProverSpec => []Lockstep
BY TwoForestsInStep, SyncedProperties, PTL

\* The server runs ahead of the program it serves by one request, never more.
THEOREM BridgeOneAhead == ProverSpec => []OneRequestAhead
BY TwoForestsInStep, SyncedProperties, PTL

\* A run in which nothing excuses a failure does not fail.
THEOREM HonestRunSucceeds == ProverSpec => []ValidRunNeverAborts
BY TwoForestsInStep, SyncedProperties, PTL
-----------------------------------------------------------------------------
(* How often an output is below the roots *)

\* The places of x in a node, and how many they are.
Held(t, x) == {k \in DOMAIN t : t[k] = x}
Count(t, x) == Cardinality(Held(t, x))
CountAll(trees, I, x) == Cardinality(Places(trees, I, x))

\* An operation is about one occurrence of its leaf.
One(x) == IF x = leaf THEN 1 ELSE 0

\* A node has finitely many leaves.
LEMMA CountType ==
  ASSUME NEW t \in Node, NEW x
  PROVE  IsFiniteSet(Held(t, x)) /\ Count(t, x) \in Nat
<1>1. DOMAIN t = 1 .. Len(t) /\ Len(t) \in Nat
  BY DEF Node
<1>2. IsFiniteSet(1 .. Len(t))
  BY <1>1, FS_Interval
<1>3. Held(t, x) \subseteq 1 .. Len(t)
  BY <1>1 DEF Held
<1> QED
  BY <1>2, <1>3, FS_Subset, FS_CardinalityType DEF Count

\* Zero has none, ...
LEMMA CountZero ==
  ASSUME NEW x
  PROVE  Count(Zero, x) = 0
<1>1. Held(Zero, x) = {}
  BY DEF Held, Zero
<1> QED
  BY <1>1, FS_EmptySet DEF Count

\* ... and a leaf has itself once.
LEMMA CountLeaf ==
  ASSUME NEW y \in Leaf, NEW x
  PROVE  Count(<<y>>, x) = IF x = y THEN 1 ELSE 0
<1>1. DOMAIN <<y>> = {1} /\ <<y>>[1] = y
  OBVIOUS
<1>2. CASE x = y
  <2>1. Held(<<y>>, x) = {1}
    BY <1>1, <1>2 DEF Held
  <2> QED
    BY <1>2, <2>1, FS_Singleton DEF Count
<1>3. CASE x # y
  <2>1. Held(<<y>>, x) = {}
    BY <1>1, <1>3 DEF Held
  <2> QED
    BY <1>3, <2>1, FS_EmptySet DEF Count
<1> QED
  BY <1>2, <1>3

\* Sets that have nothing in common.
LEMMA CountApart ==
  ASSUME NEW S, NEW T, IsFiniteSet(S), IsFiniteSet(T), S \intersect T = {}
  PROVE  IsFiniteSet(S \union T) /\ Cardinality(S \union T) = Cardinality(S) + Cardinality(T)
<1>1. Cardinality(S) \in Nat /\ Cardinality(T) \in Nat
  BY FS_CardinalityType
<1>3. Cardinality(S \intersect T) = 0
  <2>1. S \intersect T = {} /\ Cardinality({}) = 0
    BY FS_EmptySet
  <2> QED
    BY ONLY <2>1, Zenon
<1>2. /\ IsFiniteSet(S \union T)
      /\ Cardinality(S \union T) = Cardinality(S) + Cardinality(T) - Cardinality(S \intersect T)
  BY FS_Union
<1> QED
  BY ONLY <1>1, <1>2, <1>3

\* A node holds what its children hold.
LEMMA CountHash ==
  ASSUME NEW l \in Node, NEW r \in Node, NEW x
  PROVE  Hash(l, r) \in Node /\ Count(Hash(l, r), x) = Count(l, x) + Count(r, x)
<1> DEFINE N == Len(l)
           H == Hash(l, r)
           S == {k \in 1 .. N + Len(r) : k > N /\ H[k] = x}
<1>1. /\ N \in Nat /\ Len(r) \in Nat /\ DOMAIN l = 1 .. N /\ DOMAIN r = 1 .. Len(r)
      /\ H \in Node /\ DOMAIN H = 1 .. N + Len(r)
      /\ \A k \in 1 .. N + Len(r) : H[k] = IF k <= N THEN l[k] ELSE r[k - N]
  BY DEF Node, Hash
<1>2. Held(H, x) = Held(l, x) \union S
  <2> HIDE DEF H
  <2> QED
    BY <1>1 DEF Held
<1>3. Held(l, x) \intersect S = {}
  BY <1>1 DEF Held
<1>4. IsFiniteSet(S) /\ Cardinality(S) = Count(r, x)
  <2> DEFINE f == [k \in Held(r, x) |-> k + N]
  <2>1. \A k \in Held(r, x) : k \in 1 .. Len(r) /\ r[k] = x
    BY <1>1 DEF Held
  <2>2. \A k \in Held(r, x) : k + N \in S
    <3> SUFFICES ASSUME NEW k \in Held(r, x) PROVE k + N \in S
      OBVIOUS
    <3>1. k \in 1 .. Len(r) /\ r[k] = x
      BY <2>1
    <3>2. k + N \in 1 .. N + Len(r) /\ k + N > N /\ (k + N) - N = k
      BY <1>1, <3>1
    <3>3. H[k + N] = x
      BY <1>1, <3>1, <3>2
    <3> HIDE DEF H
    <3> QED
      BY <3>2, <3>3
  <2>3. \A m \in S : m - N \in Held(r, x) /\ (m - N) + N = m
    <3> SUFFICES ASSUME NEW m \in S PROVE m - N \in Held(r, x) /\ (m - N) + N = m
      OBVIOUS
    <3>1. m \in 1 .. N + Len(r) /\ m > N /\ H[m] = x
      OBVIOUS
    <3>2. m - N \in 1 .. Len(r) /\ (m - N) + N = m
      BY <1>1, <3>1
    <3>3. r[m - N] = x
      BY <1>1, <3>1
    <3> QED
      BY <1>1, <3>2, <3>3 DEF Held
  <2>4. f \in Bijection(Held(r, x), S)
    <3> HIDE DEF S
    <3>1. f \in [Held(r, x) -> S]
      BY <2>2
    <3>2. \A a, b \in Held(r, x) : f[a] = f[b] => a = b
      <4>1. \A a, b \in Held(r, x) : a + N = b + N => a = b
        BY <1>1, <2>1
      <4> QED
        BY <4>1
    <3>3. \A m \in S : \E k \in Held(r, x) : f[k] = m
      BY <2>3
    <3> QED
      BY <3>1, <3>2, <3>3 DEF Bijection, Injection, Surjection, IsInjective
  <2> HIDE DEF f, S
  <2> QED
    BY <2>4, CountType, FS_Bijection DEF ExistsBijection, Count
<1> HIDE DEF H, S
<1> QED
  BY <1>1, <1>2, <1>3, <1>4, CountType, CountApart DEF Count, H

\* Trees of which each has finitely many leaves: one more tree has its own places.
LEMMA CountMore ==
  ASSUME NEW trees, NEW I, NEW x, NEW m, m \notin I,
         IsFiniteSet(Places(trees, I, x)), trees[m] \in Node
  PROVE  /\ IsFiniteSet(Places(trees, I \union {m}, x))
         /\ CountAll(trees, I \union {m}, x) = CountAll(trees, I, x) + Count(trees[m], x)
<1> DEFINE S == {m} \X Held(trees[m], x)
<1>1. Places(trees, I \union {m}, x) = Places(trees, I, x) \union S
  BY DEF Places, Held
<1>2. Places(trees, I, x) \intersect S = {}
  <2>1. \A p \in Places(trees, I, x) : p[1] \in I
    BY DEF Places
  <2>2. \A p \in S : p[1] = m
    OBVIOUS
  <2> QED
    BY <2>1, <2>2
<1>3. IsFiniteSet(S) /\ Cardinality(S) = Count(trees[m], x)
  <2> DEFINE f == [k \in Held(trees[m], x) |-> <<m, k>>]
  <2>1. f \in Bijection(Held(trees[m], x), S)
    <3>1. f \in [Held(trees[m], x) -> S]
      OBVIOUS
    <3>2. \A a, b \in Held(trees[m], x) : f[a] = f[b] => a = b
      OBVIOUS
    <3>3. \A p \in S : \E k \in Held(trees[m], x) : f[k] = p
      OBVIOUS
    <3> QED
      BY <3>1, <3>2, <3>3 DEF Bijection, Injection, Surjection, IsInjective
  <2> HIDE DEF f, S
  <2> QED
    BY <2>1, CountType, FS_Bijection DEF ExistsBijection, Count
<1> HIDE DEF S
<1> QED
  BY <1>1, <1>2, <1>3, CountApart DEF CountAll

\* No trees have no places.
LEMMA CountNone ==
  ASSUME NEW trees, NEW x
  PROVE  IsFiniteSet(Places(trees, {}, x)) /\ CountAll(trees, {}, x) = 0
<1>1. Places(trees, {}, x) = {}
  BY DEF Places
<1> QED
  BY <1>1, FS_EmptySet DEF CountAll

\* A range of trees has a number of places.
LEMMA CountRange ==
  ASSUME NEW trees, NEW x, NEW a \in Int, NEW b \in Int,
         \A i \in a .. b : trees[i] \in Node
  PROVE  IsFiniteSet(Places(trees, a .. b, x)) /\ CountAll(trees, a .. b, x) \in Nat
<1> DEFINE T == {k \in Nat : a + k - 1 <= b => IsFiniteSet(Places(trees, a .. a + k - 1, x))}
<1>1. 0 \in T
  <2>1. a .. a + 0 - 1 = {}
    OBVIOUS
  <2> QED
    BY <2>1, CountNone
<1>2. ASSUME NEW k \in Nat, k \in T PROVE k + 1 \in T
  <2> SUFFICES ASSUME a + (k + 1) - 1 <= b
               PROVE  IsFiniteSet(Places(trees, a .. a + (k + 1) - 1, x))
    OBVIOUS
  <2>1. IsFiniteSet(Places(trees, a .. a + k - 1, x))
    BY <1>2
  <2>2. /\ a + k \notin a .. a + k - 1 /\ a + k \in a .. b
        /\ a .. a + (k + 1) - 1 = (a .. a + k - 1) \union {a + k}
    OBVIOUS
  <2>3. trees[a + k] \in Node
    BY <2>2
  <2>4. IsFiniteSet(Places(trees, (a .. a + k - 1) \union {a + k}, x))
    BY ONLY <2>1, <2>2, <2>3, CountMore
  <2> QED
    BY ONLY <2>2, <2>4
<1>3. Nat \subseteq T
  <2> HIDE DEF T
  <2> QED
    BY <1>1, <1>2, SetInduction
<1>4. IsFiniteSet(Places(trees, a .. b, x))
  <2>1. CASE a <= b
    <3>1. b - a + 1 \in Nat /\ a + (b - a + 1) - 1 = b
      BY <2>1
    <3>2. b - a + 1 \in T
      BY <1>3, <3>1
    <3> QED
      BY <3>1, <3>2
  <2>2. CASE ~(a <= b)
    <3>1. a .. b = {}
      BY <2>2
    <3> QED
      BY <3>1, CountNone
  <2> QED
    BY <2>1, <2>2
<1> QED
  BY <1>4, FS_CardinalityType DEF CountAll

\* Ranges of trees count together.
LEMMA CountJoin ==
  ASSUME NEW trees, NEW x, NEW a \in Int, NEW b \in Int, NEW c \in Int, a <= b + 1, b <= c,
         \A i \in a .. c : trees[i] \in Node
  PROVE  CountAll(trees, a .. c, x) = CountAll(trees, a .. b, x) + CountAll(trees, b + 1 .. c, x)
<1>1. a .. c = (a .. b) \union (b + 1 .. c)
  OBVIOUS
<1>2. /\ IsFiniteSet(Places(trees, a .. b, x)) /\ IsFiniteSet(Places(trees, b + 1 .. c, x))
  BY CountRange
<1>3. Places(trees, a .. c, x) = Places(trees, a .. b, x) \union Places(trees, b + 1 .. c, x)
  BY <1>1 DEF Places
<1>4. Places(trees, a .. b, x) \intersect Places(trees, b + 1 .. c, x) = {}
  <2>1. \A p \in Places(trees, a .. b, x) : p[1] \in a .. b
    BY DEF Places
  <2>2. \A p \in Places(trees, b + 1 .. c, x) : p[1] \in b + 1 .. c
    BY DEF Places
  <2>3. \A i \in a .. b : i \notin b + 1 .. c
    OBVIOUS
  <2> QED
    BY <2>1, <2>2, <2>3
<1> QED
  BY <1>2, <1>3, <1>4, CountApart DEF CountAll

AreNodes(trees, a, b) == \A i \in a .. b : trees[i] \in Node
\* The last tree of a range.
LEMMA CountNext ==
  ASSUME NEW trees, NEW x, NEW a \in Int, NEW m \in Int, a <= m, AreNodes(trees, a, m)
  PROVE  /\ CountAll(trees, a .. m, x) = CountAll(trees, a .. m - 1, x) + Count(trees[m], x)
         /\ CountAll(trees, a .. m - 1, x) \in Nat /\ Count(trees[m], x) \in Nat
<1> DEFINE I == a .. m - 1
<1>1. m \notin I /\ m \in a .. m /\ a .. m = I \union {m}
  OBVIOUS
<1>2. \A i \in a .. m - 1 : trees[i] \in Node
  BY DEF AreNodes
<1>3. IsFiniteSet(Places(trees, I, x)) /\ CountAll(trees, I, x) \in Nat
  BY <1>2, CountRange
<1>4. trees[m] \in Node
  BY <1>1 DEF AreNodes
<1>5. CountAll(trees, I \union {m}, x) = CountAll(trees, I, x) + Count(trees[m], x)
  <2> HIDE DEF I
  <2> QED
    BY ONLY <1>1, <1>3, <1>4, CountMore
<1> QED
  BY <1>1, <1>3, <1>4, <1>5, CountType

-----------------------------------------------------------------------------
(* ... and in the middle of an operation *)

\* The carry holds the new leaf and what the roots passed held.
AddCounts ==
  pc = "add" =>
    /\ h \in 0 .. Height
    /\ \A i \in 0 .. h - 1 : out[i] = Zero
    /\ \A x \in Leaf : Count(n, x) = One(x) + CountAll(roots, 0 .. h - 1, x)

\* The node of the proof check holds the leaf and what the siblings passed hold.
ProveCounts ==
  pc = "prove" =>
    /\ h \in 0 .. Len(proof)
    /\ \A x \in Leaf : Count(n, x) = One(x) + CountAll(proof, 1 .. h, x)

\* The proof is that of a root, and the carry and the roots written so far hold
\* together what the siblings and the roots passed held.
DeleteCounts ==
  pc = "delete" =>
    /\ h \in 0 .. Len(proof) /\ Len(proof) \in Levels
    /\ \A x \in Leaf :
         /\ Count(roots[Len(proof)], x) = One(x) + CountAll(proof, 1 .. Len(proof), x)
         /\ Count(n, x) + CountAll(out, 0 .. h - 1, x)
              = CountAll(proof, 1 .. h, x) + CountAll(roots, 0 .. h - 1, x)

\* The inductive invariant.
CountInv == TypeOK /\ AddCounts /\ ProveCounts /\ DeleteCounts

\* The step that OneOccurrenceAtATime allows.
OneAtATime ==
  \/ roots' = EmptyRoots
  \/ \A x \in Leaf :
       Cardinality(Occurrences(x)') - Cardinality(Occurrences(x)) =
         IF x # leaf THEN 0 ELSE IF pc = "add" THEN 1 ELSE -1

\* A step that leaves a function keeps the types.
LEMMA LeaveCounts ==
  ASSUME NEW next \in {"idle", "aborted"}, Leave(next), roots' \in [Levels -> Node]
  PROVE  CountInv'
<1>1. EmptyRoots \in [Levels -> Node] /\ Zero \in Node /\ << >> \in Seq(Node \ {Zero})
  BY EmptySeq DEF EmptyRoots, Node, Zero
<1> QED
  BY <1>1 DEF Leave, CountInv, TypeOK, AddCounts, ProveCounts, DeleteCounts, ProgramCounters

\* The genesis state.
LEMMA InitCounts == Init => CountInv
<1>1. EmptyRoots \in [Levels -> Node] /\ Zero \in Node /\ << >> \in Seq(Node \ {Zero})
  BY EmptySeq DEF EmptyRoots, Node, Zero
<1> QED
  BY <1>1 DEF Init, CountInv, TypeOK, AddCounts, ProveCounts, DeleteCounts, ProgramCounters

\* A run that stops with an error keeps the roots; ...
LEMMA AbortCounts ==
  ASSUME CountInv, Abort
  PROVE  CountInv'
  BY LeaveCounts DEF Abort, CountInv, TypeOK

\* ... a new start of the driver has none.
LEMMA RestartCounts ==
  ASSUME Restart
  PROVE  CountInv'
<1>1. EmptyRoots \in [Levels -> Node]
  BY EmptySeq DEF EmptyRoots, Node, Zero
<1> QED
  BY <1>1, LeaveCounts DEF Restart

\* utreexo_add begins with the new leaf alone.
LEMMA StartAddCounts ==
  ASSUME CountInv, NEW y \in Leaf, StartAdd(y)
  PROVE  CountInv'
<1>1. /\ pc' = "add" /\ leaf' = y /\ n' = <<y>> /\ h' = 0
      /\ UNCHANGED <<roots, out, index, proof>>
  BY DEF StartAdd
<1>2. TypeOK'
  <2>1. <<y>> \in Node
    BY DEF Node
  <2> QED
    BY <1>1, <2>1 DEF CountInv, TypeOK, ProgramCounters
<1>3. AddCounts'
  <2>1. 0 \in 0 .. Height /\ 0 .. 0 - 1 = {}
    BY HeightAssumption
  <2>2. ASSUME NEW x \in Leaf
        PROVE  Count(<<y>>, x) = (IF x = y THEN 1 ELSE 0) + CountAll(roots, {}, x)
    BY CountLeaf, CountNone
  <2>3. \A x \in Leaf : Count(n', x) = (IF x = leaf' THEN 1 ELSE 0) + CountAll(roots', 0 .. h' - 1, x)
    BY <1>1, <2>1, <2>2
  <2> QED
    BY <1>1, <2>1, <2>3 DEF AddCounts, One, Count, Held, CountAll, Places
<1> QED
  BY <1>1, <1>2, <1>3 DEF CountInv, ProveCounts, DeleteCounts

\* The carry takes in a root.
LEMMA AddCarryCounts ==
  ASSUME CountInv, AddCarry
  PROVE  CountInv'
<1>1. /\ pc = "add" /\ h \in Levels /\ n' = Hash(roots[h], n)
      /\ out' = [out EXCEPT ![h] = Zero] /\ h' = h + 1
      /\ UNCHANGED <<roots, pc, leaf, index, proof>>
  BY DEF AddCarry
<1>2. /\ TypeOK /\ h \in Nat /\ n \in Node /\ roots[h] \in Node /\ h <= Height - 1
      /\ \A i \in 0 .. h : roots[i] \in Node
  BY <1>1, HeightAssumption DEF CountInv, TypeOK, Levels
<1>3. TypeOK'
  <2>1. Hash(roots[h], n) \in Node
    BY <1>2, CountHash
  <2>2. Zero \in Node
    BY DEF Node, Zero
  <2> QED
    BY <1>1, <1>2, <2>1, <2>2 DEF TypeOK
<1>4. AddCounts'
  <2>1. /\ \A i \in 0 .. h - 1 : out[i] = Zero
        /\ \A x \in Leaf : Count(n, x) = One(x) + CountAll(roots, 0 .. h - 1, x)
    BY <1>1 DEF CountInv, AddCounts
  <2>2. h' \in 0 .. Height /\ h' - 1 = h
    BY <1>1, <1>2, HeightAssumption
  <2>3. \A i \in 0 .. h' - 1 : out'[i] = Zero
    <3>1. \A i \in 0 .. h : i \in Levels /\ (i = h \/ i \in 0 .. h - 1)
      BY <1>2, HeightAssumption DEF Levels
    <3>2. out \in [Levels -> Node]
      BY <1>2 DEF TypeOK
    <3> QED
      BY <1>1, <2>1, <2>2, <3>1, <3>2
  <2>4. ASSUME NEW x \in Leaf
        PROVE  Count(Hash(roots[h], n), x) = One(x) + CountAll(roots, 0 .. h, x)
    <3>1. Count(Hash(roots[h], n), x) = Count(roots[h], x) + Count(n, x)
      BY <1>2, CountHash
    <3>2. /\ CountAll(roots, 0 .. h, x) = CountAll(roots, 0 .. h - 1, x) + Count(roots[h], x)
          /\ CountAll(roots, 0 .. h - 1, x) \in Nat /\ Count(roots[h], x) \in Nat
      <4>1. AreNodes(roots, 0, h) /\ h \in Int /\ 0 <= h
        BY <1>2 DEF AreNodes
      <4> QED
        BY ONLY <4>1, CountNext
    <3>3. One(x) \in Nat
      BY DEF One
    <3> QED
      BY <2>1, <3>1, <3>2, <3>3
  <2>5. \A x \in Leaf :
          Count(n', x) = (IF x = leaf' THEN 1 ELSE 0) + CountAll(roots', 0 .. h' - 1, x)
    BY <1>1, <2>2, <2>4 DEF One
  <2> QED
    BY <2>2, <2>3, <2>5 DEF AddCounts, One, Count, Held, CountAll, Places
<1> QED
  BY <1>1, <1>3, <1>4 DEF CountInv, ProveCounts, DeleteCounts

\* What a loop that ends at height h returns.
LEMMA CountResult ==
  ASSUME TypeOK, h \in Levels, NEW x
  PROVE  /\ Result \in [Levels -> Node]
         /\ \E rest \in Nat :
              /\ CountAll(Result, Levels, x)
                   = CountAll(out, 0 .. h - 1, x) + Count(n, x) + rest
              /\ CountAll(roots, Levels, x)
                   = CountAll(roots, 0 .. h - 1, x) + Count(roots[h], x) + rest
         /\ CountAll(out, 0 .. h - 1, x) \in Nat /\ CountAll(roots, 0 .. h - 1, x) \in Nat
         /\ Count(n, x) \in Nat /\ Count(roots[h], x) \in Nat
<1> DEFINE R == Result
           rest == CountAll(roots, h + 1 .. Height - 1, x)
<1>1. /\ h \in Nat /\ Height \in Nat /\ h <= Height - 1 /\ Levels = 0 .. Height - 1
      /\ roots \in [Levels -> Node] /\ out \in [Levels -> Node] /\ n \in Node
  BY HeightAssumption DEF TypeOK, Levels
<1>2. \A i \in Levels : R[i] = IF i < h THEN out[i] ELSE IF i = h THEN n ELSE roots[i]
  BY DEF Result
<1>3. R \in [Levels -> Node]
  BY <1>1 DEF Result
<1> HIDE DEF R
<1>4. /\ \A i \in 0 .. h : i \in Levels /\ R[i] \in Node /\ roots[i] \in Node
      /\ \A i \in 0 .. h - 1 : i \in Levels /\ R[i] = out[i]
      /\ \A i \in h + 1 .. Height - 1 : i \in Levels /\ R[i] = roots[i]
      /\ R[h] = n
  BY <1>1, <1>2, <1>3
<1>5. ASSUME NEW t, \A i \in Levels : t[i] \in Node
      PROVE  /\ CountAll(t, Levels, x)
                  = CountAll(t, 0 .. h - 1, x) + Count(t[h], x)
                      + CountAll(t, h + 1 .. Height - 1, x)
             /\ CountAll(t, 0 .. h - 1, x) \in Nat /\ Count(t[h], x) \in Nat
             /\ CountAll(t, h + 1 .. Height - 1, x) \in Nat
  <2>1. \A i \in 0 .. Height - 1 : t[i] \in Node
    BY <1>1, <1>5
  <2>2. CountAll(t, 0 .. Height - 1, x)
          = CountAll(t, 0 .. h, x) + CountAll(t, h + 1 .. Height - 1, x)
    BY <1>1, <2>1, CountJoin
  <2>3. AreNodes(t, 0, h) /\ 0 \in Int /\ h \in Int /\ 0 <= h
    BY <1>1, <1>4, <1>5 DEF AreNodes
  <2>4. /\ CountAll(t, 0 .. h, x) = CountAll(t, 0 .. h - 1, x) + Count(t[h], x)
        /\ CountAll(t, 0 .. h - 1, x) \in Nat /\ Count(t[h], x) \in Nat
    BY ONLY <2>3, CountNext, Zenon
  <2>5. CountAll(t, h + 1 .. Height - 1, x) \in Nat
    BY <1>1, <1>4, <1>5, CountRange
  <2> QED
    BY <1>1, <2>2, <2>4, <2>5
<1>6. /\ CountAll(R, Levels, x)
           = CountAll(R, 0 .. h - 1, x) + Count(R[h], x) + CountAll(R, h + 1 .. Height - 1, x)
      /\ CountAll(R, 0 .. h - 1, x) \in Nat /\ Count(R[h], x) \in Nat
  BY <1>3, <1>5
<1>7. /\ CountAll(roots, Levels, x)
           = CountAll(roots, 0 .. h - 1, x) + Count(roots[h], x) + rest
      /\ CountAll(roots, 0 .. h - 1, x) \in Nat /\ Count(roots[h], x) \in Nat /\ rest \in Nat
  BY <1>1, <1>5
<1>8. CountAll(R, 0 .. h - 1, x) = CountAll(out, 0 .. h - 1, x)
  <2>1. \A i \in 0 .. h - 1 : R[i] = out[i]
    BY <1>4
  <2>2. Places(R, 0 .. h - 1, x) = Places(out, 0 .. h - 1, x)
    BY ONLY <2>1 DEF Places
  <2> QED
    BY <2>2 DEF CountAll
<1>9. CountAll(R, h + 1 .. Height - 1, x) = rest
  <2>1. \A i \in h + 1 .. Height - 1 : R[i] = roots[i]
    BY <1>4
  <2>2. Places(R, h + 1 .. Height - 1, x) = Places(roots, h + 1 .. Height - 1, x)
    BY ONLY <2>1 DEF Places
  <2> QED
    BY <2>2 DEF CountAll
<1> HIDE DEF rest
<1> QED
  BY <1>3, <1>4, <1>6, <1>7, <1>8, <1>9 DEF R

\* The places of all roots are the occurrences, before a step and after it.
LEMMA OccurrencesAre ==
  ASSUME NEW x
  PROVE  /\ Cardinality(Occurrences(x)) = CountAll(roots, Levels, x)
         /\ Cardinality(Occurrences(x)') = CountAll(roots', Levels, x)
  BY DEF Occurrences, CountAll, Places

\* utreexo_add returns one more of its leaf.
LEMMA AddPlaceCounts ==
  ASSUME CountInv, AddPlace
  PROVE  CountInv' /\ OneAtATime
<1>1. pc = "add" /\ h \in Levels /\ roots[h] = Zero /\ roots' = Result /\ Leave("idle")
  BY DEF AddPlace
<1>2. TypeOK
  BY DEF CountInv
<1>3. CountInv'
  <2>1. roots' \in [Levels -> Node]
    BY <1>1, <1>2, CountResult
  <2> QED
    BY <1>1, <2>1, LeaveCounts
<1>4. ASSUME NEW x \in Leaf
      PROVE  Cardinality(Occurrences(x)') - Cardinality(Occurrences(x)) = One(x)
  <2>1. /\ \A i \in 0 .. h - 1 : out[i] = Zero
        /\ Count(n, x) = One(x) + CountAll(roots, 0 .. h - 1, x)
    BY <1>1 DEF CountInv, AddCounts
  <2>2. PICK rest \in Nat :
          /\ CountAll(roots', Levels, x) = CountAll(out, 0 .. h - 1, x) + Count(n, x) + rest
          /\ CountAll(roots, Levels, x)
               = CountAll(roots, 0 .. h - 1, x) + Count(roots[h], x) + rest
    BY <1>1, <1>2, CountResult
  <2>3. CountAll(roots, 0 .. h - 1, x) \in Nat /\ One(x) \in Nat
    BY <1>1, <1>2, CountResult DEF One
  <2>4. CountAll(out, 0 .. h - 1, x) = 0
    <3>1. Places(out, 0 .. h - 1, x) = {}
      BY <2>1 DEF Places, Zero
    <3> QED
      BY <3>1, FS_EmptySet DEF CountAll
  <2>5. Count(roots[h], x) = 0
    BY <1>1, CountZero
  <2> QED
    BY <2>1, <2>2, <2>3, <2>4, <2>5, OccurrencesAre
<1> QED
  BY <1>1, <1>3, <1>4 DEF OneAtATime, One

\* fetch_inclusion_proof: the proof check begins with the leaf alone.
LEMMA FetchCounts ==
  ASSUME CountInv, NEW answer, Fetch(answer)
  PROVE  CountInv'
<1>1. /\ pc = "fetch" /\ answer \in InclusionProof /\ pc' = "prove" /\ n' = <<leaf>> /\ h' = 0
      /\ index' = answer.leaf_index /\ proof' = answer.proof
      /\ UNCHANGED <<roots, leaf, out>>
  BY DEF Fetch
<1>2. leaf \in Leaf /\ proof' \in Seq(Node \ {Zero}) /\ index' \in Nat
  BY <1>1 DEF CountInv, TypeOK, InclusionProof
<1>3. TypeOK'
  <2>1. <<leaf>> \in Node
    BY <1>2 DEF Node
  <2> QED
    BY <1>1, <1>2, <2>1 DEF CountInv, TypeOK, ProgramCounters
<1>4. ProveCounts'
  <2>1. Len(proof') \in Nat /\ 0 \in 0 .. Len(proof') /\ 1 .. 0 = {}
    BY <1>2
  <2>2. ASSUME NEW x \in Leaf
        PROVE  Count(<<leaf>>, x) = (IF x = leaf THEN 1 ELSE 0) + CountAll(proof', {}, x)
    <3>1. CountAll(proof', {}, x) = 0
      BY CountNone
    <3> QED
      BY <1>2, <3>1, CountLeaf
  <2>3. \A x \in Leaf :
          Count(n', x) = (IF x = leaf' THEN 1 ELSE 0) + CountAll(proof', 1 .. h', x)
    BY <1>1, <2>1, <2>2
  <2> QED
    BY <1>1, <2>1, <2>3 DEF ProveCounts, One, Count, Held, CountAll, Places
<1> QED
  BY <1>1, <1>3, <1>4 DEF CountInv, AddCounts, DeleteCounts

\* A round of the proof check takes in a sibling.
LEMMA ProveStepCounts ==
  ASSUME CountInv, ProveStep
  PROVE  CountInv'
<1> DEFINE p == proof[h + 1]
<1>1. /\ pc = "prove" /\ h < Len(proof) /\ h' = h + 1 /\ index' = index \div 2
      /\ n' = Hash(n, p) \/ n' = Hash(p, n)
      /\ UNCHANGED <<roots, pc, leaf, out, proof>>
  BY DEF ProveStep
<1>2. /\ TypeOK /\ h \in Nat /\ n \in Node /\ index \in Nat /\ Len(proof) \in Nat
      /\ \A i \in 1 .. h + 1 : proof[i] \in Node
  <2>1. TypeOK /\ h \in Nat /\ n \in Node /\ index \in Nat /\ proof \in Seq(Node \ {Zero})
    BY DEF CountInv, TypeOK
  <2>2. Len(proof) \in Nat /\ \A i \in 1 .. Len(proof) : proof[i] \in Node
    BY <2>1
  <2> QED
    BY <1>1, <2>1, <2>2
<1>3. p \in Node
  BY <1>2
<1>4. n' \in Node /\ \A x : Count(n', x) = Count(n, x) + Count(p, x)
  <2>1. \A x : Count(n, x) \in Nat /\ Count(p, x) \in Nat
    BY <1>2, <1>3, CountType
  <2>2. \A x : Hash(n, p) \in Node /\ Count(Hash(n, p), x) = Count(n, x) + Count(p, x)
    BY <1>2, <1>3, CountHash
  <2>3. \A x : Hash(p, n) \in Node /\ Count(Hash(p, n), x) = Count(p, x) + Count(n, x)
    BY <1>2, <1>3, CountHash
  <2> HIDE DEF p
  <2> QED
    BY <1>1, <2>1, <2>2, <2>3
<1>5. TypeOK'
  <2>1. index' \in Nat /\ h' \in Nat
    BY <1>1, <1>2
  <2> QED
    BY <1>1, <1>2, <1>4, <2>1 DEF TypeOK
<1>6. ProveCounts'
  <2>1. h' \in 0 .. Len(proof)
    BY <1>1, <1>2
  <2>2. ASSUME NEW x \in Leaf
        PROVE  Count(n', x) = One(x) + CountAll(proof, 1 .. h + 1, x)
    <3>1. Count(n, x) = One(x) + CountAll(proof, 1 .. h, x) /\ One(x) \in Nat
      BY <1>1 DEF CountInv, ProveCounts, One
    <3>2. (h + 1) - 1 = h
      BY <1>2
    <3>3. /\ CountAll(proof, 1 .. h + 1, x) = CountAll(proof, 1 .. h, x) + Count(p, x)
          /\ CountAll(proof, 1 .. h, x) \in Nat /\ Count(p, x) \in Nat
      <4>1. AreNodes(proof, 1, h + 1) /\ 1 \in Int /\ h + 1 \in Int /\ 1 <= h + 1
        BY <1>2 DEF AreNodes
      <4>2. /\ CountAll(proof, 1 .. h + 1, x)
                 = CountAll(proof, 1 .. (h + 1) - 1, x) + Count(p, x)
            /\ CountAll(proof, 1 .. (h + 1) - 1, x) \in Nat /\ Count(p, x) \in Nat
        BY ONLY <4>1, CountNext, Zenon
      <4> QED
        BY <3>2, <4>2
    <3> HIDE DEF p
    <3> QED
      BY <1>4, <3>1, <3>3
  <2>3. \A x \in Leaf :
          Count(n', x) = (IF x = leaf' THEN 1 ELSE 0) + CountAll(proof', 1 .. h', x)
    BY <1>1, <2>2 DEF One
  <2> QED
    BY <1>1, <2>1, <2>3 DEF ProveCounts, One, Count, Held, CountAll, Places
<1> QED
  BY <1>1, <1>5, <1>6 DEF CountInv, AddCounts, DeleteCounts

\* The node is a root, so the root holds the leaf and what the siblings hold.
LEMMA ProveAcceptCounts ==
  ASSUME CountInv, ProveAccept
  PROVE  CountInv'
<1>1. /\ pc = "prove" /\ h = Len(proof) /\ h \in Levels /\ roots[h] = n
      /\ pc' = "delete" /\ n' = Zero /\ h' = 0
      /\ UNCHANGED <<roots, leaf, out, index, proof>>
  BY DEF ProveAccept, ProofMatches
<1>2. TypeOK'
  <2>1. Zero \in Node
    BY DEF Node, Zero
  <2> QED
    BY <1>1, <2>1 DEF CountInv, TypeOK, ProgramCounters
<1>3. DeleteCounts'
  <2>1. \A x \in Leaf : Count(n, x) = One(x) + CountAll(proof, 1 .. h, x)
    BY <1>1 DEF CountInv, ProveCounts
  <2>2. Len(proof) \in Nat /\ 0 \in 0 .. Len(proof) /\ 0 .. 0 - 1 = {} /\ 1 .. 0 = {}
    BY <1>1 DEF CountInv, TypeOK
  <2>3. \A x \in Leaf :
          /\ Count(Zero, x) = 0 /\ CountAll(out, {}, x) = 0
          /\ CountAll(proof, {}, x) = 0 /\ CountAll(roots, {}, x) = 0
    BY CountZero, CountNone
  <2>4. \A x \in Leaf :
          /\ Count(roots'[Len(proof')], x)
               = (IF x = leaf' THEN 1 ELSE 0) + CountAll(proof', 1 .. Len(proof'), x)
          /\ Count(n', x) + CountAll(out', 0 .. h' - 1, x)
               = CountAll(proof', 1 .. h', x) + CountAll(roots', 0 .. h' - 1, x)
    BY <1>1, <2>1, <2>2, <2>3 DEF One
  <2> QED
    BY <1>1, <2>2, <2>4 DEF DeleteCounts, One, Count, Held, CountAll, Places
<1> QED
  BY <1>1, <1>2, <1>3 DEF CountInv, AddCounts, ProveCounts

\* A round of the delete loop writes one node and carries another on, which hold
\* together what the sibling, the root and the old carry held.
LEMMA DeleteStepCounts ==
  ASSUME CountInv, DeleteStep
  PROVE  CountInv'
<1> DEFINE p == proof[h + 1]
<1>1. /\ pc = "delete" /\ h < Len(proof) /\ h' = h + 1
      /\ UNCHANGED <<roots, pc, leaf, index, proof>>
  BY DEF DeleteStep
<1>2. /\ TypeOK /\ h \in Nat /\ h \in Levels /\ n \in Node /\ Len(proof) \in Nat
      /\ \A i \in 1 .. h + 1 : proof[i] \in Node
      /\ \A i \in 0 .. h : i \in Levels /\ roots[i] \in Node /\ out[i] \in Node
  <2>1. TypeOK /\ h \in Nat /\ n \in Node /\ proof \in Seq(Node \ {Zero}) /\ Len(proof) \in Levels
    BY <1>1 DEF CountInv, TypeOK, DeleteCounts
  <2>2. Len(proof) \in Nat /\ \A i \in 1 .. Len(proof) : proof[i] \in Node
    BY <2>1
  <2>3. \A i \in 0 .. h : i \in Levels
    BY <1>1, <2>1, <2>2, HeightAssumption DEF Levels
  <2> QED
    BY <1>1, <2>1, <2>2, <2>3 DEF TypeOK
<1>3. p \in Node /\ roots[h] \in Node /\ Zero \in Node
  BY <1>2 DEF Node, Zero
<1>4. PICK y \in Node, m \in Node :
        /\ n' = m /\ out' = [out EXCEPT ![h] = y]
        /\ \A x : Count(y, x) + Count(m, x) = Count(n, x) + Count(p, x) + Count(roots[h], x)
  <2>1. \A x : Count(n, x) \in Nat /\ Count(p, x) \in Nat /\ Count(roots[h], x) \in Nat
    BY <1>2, <1>3, CountType
  <2>2. \A x : Count(Zero, x) = 0
    BY CountZero
  <2>3. CASE n # Zero /\ n' = Hash(p, n) /\ out' = [out EXCEPT ![h] = roots[h]]
    <3>1. \A x : Hash(p, n) \in Node /\ Count(Hash(p, n), x) = Count(p, x) + Count(n, x)
      BY <1>2, <1>3, CountHash
    <3> HIDE DEF p
    <3>2. \A x : Count(roots[h], x) + Count(Hash(p, n), x)
                   = Count(n, x) + Count(p, x) + Count(roots[h], x)
      BY <2>1, <3>1
    <3> QED
      BY <1>3, <2>3, <3>1, <3>2
  <2>4. CASE n = Zero /\ roots[h] = Zero /\ n' = n /\ out' = [out EXCEPT ![h] = p]
    <3> HIDE DEF p
    <3>1. \A x : Count(p, x) + Count(n, x) = Count(n, x) + Count(p, x) + Count(roots[h], x)
      BY <2>1, <2>2, <2>4
    <3> QED
      BY <1>2, <1>3, <2>4, <3>1
  <2>5. CASE n = Zero /\ roots[h] # Zero /\ n' = Hash(p, roots[h]) /\ out' = [out EXCEPT ![h] = Zero]
    <3>1. \A x : Hash(p, roots[h]) \in Node
                 /\ Count(Hash(p, roots[h]), x) = Count(p, x) + Count(roots[h], x)
      BY <1>3, CountHash
    <3> HIDE DEF p
    <3>2. \A x : Count(Zero, x) + Count(Hash(p, roots[h]), x)
                   = Count(n, x) + Count(p, x) + Count(roots[h], x)
      BY <2>1, <2>2, <2>5, <3>1
    <3> QED
      BY <1>3, <2>5, <3>1, <3>2
  <2> QED
    BY <2>3, <2>4, <2>5 DEF DeleteStep
<1>5. TypeOK'
  <2>1. h' \in Nat
    BY <1>1, <1>2
  <2> QED
    BY <1>1, <1>2, <1>4, <2>1 DEF TypeOK
<1>6. DeleteCounts'
  <2>1. h' \in 0 .. Len(proof) /\ (h + 1) - 1 = h /\ Len(proof) \in Levels
    BY <1>1, <1>2 DEF CountInv, DeleteCounts
  <2>2. out'[h] = y /\ \A i \in 0 .. h - 1 : out'[i] = out[i]
    BY <1>2, <1>4 DEF TypeOK
  <2>3. ASSUME NEW x \in Leaf
        PROVE  Count(m, x) + CountAll(out', 0 .. h, x)
                 = CountAll(proof, 1 .. h + 1, x) + CountAll(roots, 0 .. h, x)
    <3>1. Count(n, x) + CountAll(out, 0 .. h - 1, x)
            = CountAll(proof, 1 .. h, x) + CountAll(roots, 0 .. h - 1, x)
      BY <1>1 DEF CountInv, DeleteCounts
    <3>2. /\ CountAll(proof, 1 .. h + 1, x) = CountAll(proof, 1 .. h, x) + Count(p, x)
          /\ CountAll(proof, 1 .. h, x) \in Nat /\ Count(p, x) \in Nat
      <4>1. AreNodes(proof, 1, h + 1) /\ h + 1 \in Int /\ 1 <= h + 1
        BY <1>2 DEF AreNodes
      <4> QED
        BY <2>1, <4>1, CountNext
    <3>3. /\ CountAll(roots, 0 .. h, x) = CountAll(roots, 0 .. h - 1, x) + Count(roots[h], x)
          /\ CountAll(roots, 0 .. h - 1, x) \in Nat /\ Count(roots[h], x) \in Nat
      <4>1. AreNodes(roots, 0, h) /\ h \in Int /\ 0 <= h
        BY <1>2 DEF AreNodes
      <4> QED
        BY ONLY <4>1, CountNext
    <3>4. /\ CountAll(out', 0 .. h, x) = CountAll(out', 0 .. h - 1, x) + Count(out'[h], x)
          /\ CountAll(out', 0 .. h - 1, x) \in Nat /\ Count(out'[h], x) \in Nat
      <4>1. AreNodes(out', 0, h) /\ h \in Int /\ 0 <= h
        BY <1>2, <1>5 DEF TypeOK, AreNodes
      <4> QED
        BY ONLY <4>1, CountNext
    <3>5. CountAll(out', 0 .. h - 1, x) = CountAll(out, 0 .. h - 1, x)
      BY <2>2 DEF CountAll, Places
    <3>6. /\ Count(y, x) + Count(m, x) = Count(n, x) + Count(p, x) + Count(roots[h], x)
          /\ Count(m, x) \in Nat /\ Count(n, x) \in Nat
      BY <1>2, <1>4, CountType
    <3> HIDE DEF p
    <3>7. out'[h] = y
      BY <2>2
    <3>8. /\ CountAll(out', 0 .. h, x) = CountAll(out, 0 .. h - 1, x) + Count(y, x)
          /\ CountAll(out, 0 .. h - 1, x) \in Nat /\ Count(y, x) \in Nat
      BY ONLY <3>4, <3>5, <3>7
    <3>9. Count(m, x) + CountAll(out', 0 .. h, x)
            = (Count(y, x) + Count(m, x)) + CountAll(out, 0 .. h - 1, x)
      BY ONLY <3>6, <3>8
    <3>10. (Count(y, x) + Count(m, x)) + CountAll(out, 0 .. h - 1, x)
             = (Count(n, x) + CountAll(out, 0 .. h - 1, x)) + Count(p, x) + Count(roots[h], x)
      BY ONLY <3>2, <3>3, <3>6, <3>8
    <3> QED
      BY ONLY <3>1, <3>2, <3>3, <3>9, <3>10
  <2>4. \A x \in Leaf : Count(roots[Len(proof)], x) = One(x) + CountAll(proof, 1 .. Len(proof), x)
    BY <1>1 DEF CountInv, DeleteCounts
  <2>5. \A x \in Leaf :
          /\ Count(roots'[Len(proof')], x)
               = (IF x = leaf' THEN 1 ELSE 0) + CountAll(proof', 1 .. Len(proof'), x)
          /\ Count(n', x) + CountAll(out', 0 .. h' - 1, x)
               = CountAll(proof', 1 .. h', x) + CountAll(roots', 0 .. h' - 1, x)
    BY <1>1, <1>4, <2>1, <2>3, <2>4 DEF One
  <2> QED
    BY <1>1, <2>1, <2>5 DEF DeleteCounts, One, Count, Held, CountAll, Places
<1> QED
  BY <1>1, <1>5, <1>6 DEF CountInv, AddCounts, ProveCounts

\* utreexo_delete returns one less of its leaf.
LEMMA DeletePlaceCounts ==
  ASSUME CountInv, DeletePlace
  PROVE  CountInv' /\ OneAtATime
<1>1. pc = "delete" /\ h = Len(proof) /\ roots' = Result /\ Leave("idle") /\ h \in Levels
  BY DEF DeletePlace, CountInv, DeleteCounts
<1>2. TypeOK
  BY DEF CountInv
<1>3. CountInv'
  <2>1. roots' \in [Levels -> Node]
    BY <1>1, <1>2, CountResult
  <2> QED
    BY <1>1, <2>1, LeaveCounts
<1>4. ASSUME NEW x \in Leaf
      PROVE  Cardinality(Occurrences(x)') - Cardinality(Occurrences(x)) = -One(x)
  <2>1. /\ Count(roots[h], x) = One(x) + CountAll(proof, 1 .. h, x)
        /\ Count(n, x) + CountAll(out, 0 .. h - 1, x)
             = CountAll(proof, 1 .. h, x) + CountAll(roots, 0 .. h - 1, x)
    BY <1>1 DEF CountInv, DeleteCounts
  <2>2. PICK rest \in Nat :
          /\ CountAll(roots', Levels, x) = CountAll(out, 0 .. h - 1, x) + Count(n, x) + rest
          /\ CountAll(roots, Levels, x)
               = CountAll(roots, 0 .. h - 1, x) + Count(roots[h], x) + rest
    BY <1>1, <1>2, CountResult
  <2>3. /\ CountAll(out, 0 .. h - 1, x) \in Nat /\ CountAll(roots, 0 .. h - 1, x) \in Nat
        /\ Count(n, x) \in Nat /\ Count(roots[h], x) \in Nat /\ One(x) \in Nat
    BY <1>1, <1>2, CountResult DEF One
  <2>4. CountAll(proof, 1 .. h, x) \in Nat
    <3>1. proof \in Seq(Node \ {Zero}) /\ h \in Nat
      BY <1>2 DEF TypeOK
    <3>2. \A i \in 1 .. h : proof[i] \in Node
      BY <1>1, <3>1
    <3> QED
      BY <3>1, <3>2, CountRange
  <2> QED
    BY <2>1, <2>2, <2>3, <2>4, OccurrencesAre
<1> QED
  BY <1>1, <1>3, <1>4 DEF OneAtATime, One

\* A round of a loop, or its end, counts right.
LEMMA ComputeCounts ==
  ASSUME CountInv, Compute
  PROVE  CountInv' /\ (roots' # roots => OneAtATime)
<1>1. CASE AddCarry \/ ProveStep \/ ProveAccept \/ DeleteStep
  <2>1. roots' = roots
    BY <1>1 DEF AddCarry, ProveStep, ProveAccept, DeleteStep
  <2> QED
    BY <1>1, <2>1, AddCarryCounts, ProveStepCounts, ProveAcceptCounts, DeleteStepCounts
<1>2. CASE AddOverflow \/ ProveReject
  BY <1>2, AbortCounts DEF AddOverflow, ProveReject, Abort
<1> QED
  BY <1>1, <1>2, AddPlaceCounts, DeletePlaceCounts DEF Compute

\* The rest of the steps keep the roots, or begin again.
LEMMA OtherCounts ==
  ASSUME CountInv
  PROVE  /\ \A x \in Leaf : StartAdd(x) => CountInv' /\ roots' = roots
         /\ \A x \in Leaf : StartDelete(x) => CountInv' /\ roots' = roots
         /\ \A answer : Fetch(answer) => CountInv' /\ roots' = roots
         /\ FetchFails \/ Abort => CountInv' /\ roots' = roots
         /\ Restart => CountInv' /\ OneAtATime
         /\ UNCHANGED cairoVars => CountInv' /\ roots' = roots
<1>1. ASSUME NEW x \in Leaf, StartAdd(x) PROVE CountInv' /\ roots' = roots
  BY <1>1, StartAddCounts DEF StartAdd
<1>2. ASSUME NEW x \in Leaf, StartDelete(x) PROVE CountInv' /\ roots' = roots
  BY <1>2 DEF StartDelete, CountInv, TypeOK, ProgramCounters, AddCounts, ProveCounts, DeleteCounts
<1>3. ASSUME NEW answer, Fetch(answer) PROVE CountInv' /\ roots' = roots
  BY <1>3, FetchCounts DEF Fetch
<1>4. ASSUME FetchFails \/ Abort PROVE CountInv' /\ roots' = roots
  BY <1>4, AbortCounts DEF FetchFails, Abort
<1>5. ASSUME Restart PROVE CountInv' /\ OneAtATime
  BY <1>5, RestartCounts DEF Restart, OneAtATime
<1>6. ASSUME UNCHANGED cairoVars PROVE CountInv' /\ roots' = roots
  <2>1. TypeOK'
    BY <1>6 DEF CountInv, TypeOK, cairoVars, locals
  <2>2. UNCHANGED <<roots, pc, leaf, n, h, out, proof>>
    BY <1>6 DEF cairoVars, locals
  <2>3. AddCounts'
    BY <2>2 DEF CountInv, AddCounts, One, Count, Held, CountAll, Places
  <2>4. ProveCounts'
    BY <2>2 DEF CountInv, ProveCounts, One, Count, Held, CountAll, Places
  <2>5. DeleteCounts'
    <3>1. ASSUME NEW x \in Leaf
          PROVE  /\ Count(roots[Len(proof)], x)' = Count(roots[Len(proof)], x)
                 /\ One(x)' = One(x) /\ Count(n, x)' = Count(n, x)
      BY <2>2 DEF One, Count, Held
    <3>2. ASSUME NEW x \in Leaf
          PROVE  /\ CountAll(proof, 1 .. Len(proof), x)' = CountAll(proof, 1 .. Len(proof), x)
                 /\ CountAll(out, 0 .. h - 1, x)' = CountAll(out, 0 .. h - 1, x)
                 /\ CountAll(proof, 1 .. h, x)' = CountAll(proof, 1 .. h, x)
                 /\ CountAll(roots, 0 .. h - 1, x)' = CountAll(roots, 0 .. h - 1, x)
      BY <2>2 DEF CountAll, Places
    <3> QED
      BY <2>2, <3>1, <3>2 DEF CountInv, DeleteCounts
  <2> QED
    BY <2>1, <2>2, <2>3, <2>4, <2>5 DEF CountInv
<1> QED
  BY <1>1, <1>2, <1>3, <1>4, <1>5, <1>6

\* Whatever fetch_inclusion_proof returns, and whichever outputs are created again
\* while they are unspent: an add is one more occurrence of its leaf, a delete that is
\* not refused one less, and no other output gains or loses one.
THEOREM EveryOccurrenceCounts == Spec => OneOccurrenceAtATime
<1>1. Init => CountInv
  BY InitCounts
<1>2. CountInv /\ [Next]_cairoVars => CountInv' /\ (roots' # roots => OneAtATime)
  BY ComputeCounts, OtherCounts DEF Next
<1>3. CountInv /\ [Next]_cairoVars => CountInv' /\ [OneAtATime]_roots
  BY <1>2
<1>4. Spec => [][OneAtATime]_roots
  BY <1>1, <1>3, PTL DEF Spec
<1> QED
  BY <1>4 DEF OneOccurrenceAtATime, OneAtATime

\* So it is in a run with the bridge node, which refuses the second of two equal
\* leaves and may be restarted, reset or used by others.
THEOREM ProverCountsOccurrences == ProverSpec => OneOccurrenceAtATime
<1>1. ProverInit => CountInv
  BY InitCounts DEF ProverInit
<1>2. ASSUME CountInv, [ProverNext]_vars
      PROVE  CountInv' /\ (roots' # roots => OneAtATime)
  <2>1. CASE \E x \in Leaf : Insert(x) \/ Extract(x)
    BY <1>2, <2>1, OtherCounts DEF Insert, Extract
  <2>2. CASE FetchProof \/ FetchMissing \/ FetchUnconnected
    <3>1. Fetch(Answer(leaf)) \/ FetchFails
      BY <2>2 DEF FetchProof, FetchMissing, FetchUnconnected
    <3> QED
      BY <1>2, <3>1, OtherCounts
  <2>3. CASE InsertUnconnected \/ Kill
    BY <1>2, <2>3, OtherCounts DEF InsertUnconnected, Kill
  <2>4. CASE Run
    BY <1>2, <2>4, ComputeCounts DEF Run
  <2>5. CASE StartDriver
    BY <1>2, <2>5, OtherCounts DEF StartDriver
  <2>6. CASE UNCHANGED cairoVars
    BY <1>2, <2>6, OtherCounts
  <2> QED
    BY <1>2, <2>1, <2>2, <2>3, <2>4, <2>5, <2>6
       DEF ProverNext, ProverStep, Faults, BridgeStops, BridgeStarts, OtherClient, vars
<1>3. CountInv /\ [ProverNext]_vars => CountInv' /\ [OneAtATime]_roots
  BY <1>2
<1>4. ProverSpec => [][OneAtATime]_roots
  BY <1>1, <1>3, PTL DEF ProverSpec
<1> QED
  BY <1>4 DEF OneOccurrenceAtATime, OneAtATime
=============================================================================
