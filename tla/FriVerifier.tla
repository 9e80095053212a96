---------------------------- MODULE FriVerifier -----------------------------
(***************************************************************************)
(* fri_verify (src/stark_verifier/fri/fri_verifier.cairo) with the proof   *)
(* an honest prover makes and the parser writes into its memory: queries   *)
(* that fall on one position of a layer are verified there once, and the   *)
(* verifier and the parser each keep count of those that were.             *)
(*                                                                         *)
(* Values are elements of a small field.  A hash is injective.             *)
(***************************************************************************)
EXTENDS Naturals, Sequences, SequencesExt

CONSTANTS
  FIELD,           \* the order of the field
  MULTIPLICATIVE_GENERATOR,
  TWO_ADIC_ROOT_OF_UNITY, TWO_ADICITY,
  FOLDING_FACTOR,
  NUM_QUERIES,
  log2_domain_size,
  max_remainder_size,
  trace_length,
  Proofs           \* of the prover: polynomials, and the alphas drawn for them

g == MULTIPLICATIVE_GENERATOR
domain_size == 2^log2_domain_size

Felt == 0 .. FIELD - 1

ASSUME FriAssumption ==
  /\ TWO_ADICITY >= log2_domain_size
  /\ \A p \in Proofs :
       Len(p.poly) = trace_length /\ Range(p.poly) \subseteq Felt /\ Range(p.alphas) \subseteq Felt

-----------------------------------------------------------------------------
(* The field. *)

Indices(n) == [i \in 1 .. n |-> i]

Powers == [b \in Felt |->
            FoldLeft(LAMBDA up, k : Append(up, (up[k] * b) % FIELD), <<1>>, Indices(2^TWO_ADICITY))]
pow(b, k) == Powers[b][k + 1]

Inverse1 == [x \in Felt \ {0} |-> CHOOSE y \in Felt : (x * y) % FIELD = 1]
Minus(x, y) == (x + FIELD - y) % FIELD
Quotient(x, y) == (x * Inverse1[y]) % FIELD

SumOver(n, term(_)) == FoldLeft(LAMBDA sum, i : (sum + term(i)) % FIELD, 0, Indices(n))
ProductOver(n, factor(_)) == FoldLeft(LAMBDA prod, i : (prod * factor(i)) % FIELD, 1, Indices(n))

lagrange_basis_eval(xs, x, j) ==
  ProductOver(Len(xs), LAMBDA m :
    IF m = j THEN 1 ELSE Quotient(Minus(x, xs[m]), Minus(xs[j], xs[m])))

lagrange_eval(ys, xs, x) ==
  SumOver(Len(xs), LAMBDA j : ys[j] * lagrange_basis_eval(xs, x, j))

horner_eval(poly, x) == FoldRight(LAMBDA c, value : (value * x + c) % FIELD, poly, 0)

log2(n) == CHOOSE k \in 0 .. n : 2^k = n
get_root_of_unity(n) == pow(TWO_ADIC_ROOT_OF_UNITY, 2^(TWO_ADICITY - n))
get_roots_of_unity(n) == [i \in 1 .. n |-> pow(get_root_of_unity(log2(n)), i - 1)]

-----------------------------------------------------------------------------
(* Layer l folds the values of Modulus(l - 1) positions, in rows of           *)
(* FOLDING_FACTOR, into those of Modulus(l).                                *)

Modulus(l) == domain_size \div FOLDING_FACTOR^l

num_fri_layers ==
  CHOOSE n \in 0 .. log2_domain_size :
    Modulus(n) <= max_remainder_size /\ \A k \in 0 .. n - 1 : Modulus(k) > max_remainder_size

Layers == 1 .. num_fri_layers

folding_roots == [k \in 1 .. FOLDING_FACTOR |->
                    pow(get_root_of_unity(log2_domain_size), Modulus(1) * (k - 1))]

\* omega is raised to FOLDING_FACTOR from layer to layer; the offset g stays.
XValues(l, position) ==
  LET omega == get_root_of_unity(log2(Modulus(l - 1)))
      xe == (pow(omega, position) * g) % FIELD
  IN  [k \in 1 .. FOLDING_FACTOR |-> (folding_roots[k] * xe) % FIELD]

hash_elements(elements) == <<"hash", elements>>

-----------------------------------------------------------------------------
(* The prover, and the tree whose root it commits to. *)

Row(values, n, i) == [k \in 1 .. FOLDING_FACTOR |-> values[i + (k - 1) * n]]

\* Evaluations[p][l]: those folded in layer l; after the last, the remainder.
Evaluations ==
  [p \in Proofs |->
    LET layer[l \in 1 .. num_fri_layers + 1] ==
      IF l = 1
        THEN [i \in 0 .. domain_size - 1 |->
                horner_eval(p.poly, (pow(get_root_of_unity(log2_domain_size), i) * g) % FIELD)]
        ELSE [i \in 0 .. Modulus(l - 1) - 1 |->
                lagrange_eval(Row(layer[l - 1], Modulus(l - 1), i), XValues(l - 1, i), p.alphas[l - 1])]
    IN  layer]

Trees ==
  [p \in Proofs |-> [l \in Layers |->
    LET tree[h \in 0 .. log2(Modulus(l))] ==
      [i \in 0 .. (Modulus(l) \div 2^h) - 1 |->
        IF h = 0 THEN hash_elements(Row(Evaluations[p][l], Modulus(l), i))
        ELSE hash_elements(<<tree[h - 1][2 * i], tree[h - 1][2 * i + 1]>>)]
    IN  tree]]

\* into_paths: the leaf, and the siblings above it.
Path(tree, depth, i) ==
  <<tree[0][i]>> \o
  [h \in 1 .. depth |-> LET node == i \div 2^(h - 1)
                        IN  tree[h - 1][IF node % 2 = 0 THEN node + 1 ELSE node - 1]]

Channel(p) ==
  [fri_roots |-> [l \in Layers |-> Trees[p][l][log2(Modulus(l))][0]],
   remainder |-> [i \in 1 .. Modulus(num_fri_layers) |-> Evaluations[p][num_fri_layers + 1][i - 1]]]

-----------------------------------------------------------------------------
(* The parser (src/parser/src/lib.rs), for read_fri_proofs. *)

\* Mutant: a position is recorded for every query that falls on it.
fold_positions_of_queries(positions, n) == [k \in DOMAIN positions |-> positions[k] % n]

fold_positions(positions, n) ==
  FoldLeft(LAMBDA result, position :
             IF position % n \in Range(result) THEN result ELSE Append(result, position % n),
           << >>, positions)

Folded(positions) ==
  LET folded[l \in 0 .. num_fri_layers] ==
    IF l = 0 THEN positions ELSE fold_positions(folded[l - 1], Modulus(l))
  IN  folded

read_fri_proofs(p, positions) ==
  [l \in Layers |->
    [k \in DOMAIN Folded(positions)[l] |->
      LET i == Folded(positions)[l][k]
      IN  [path |-> Path(Trees[p][l], log2(Modulus(l)), i),
           values |-> Row(Evaluations[p][l], Modulus(l), i)]]]

-----------------------------------------------------------------------------
VARIABLES
  fri_step,
  proof,      \* which of Proofs
  channel,    \* its commitments, and the remainder
  positions,  \* of the queries, as drawn
  fri_proofs, \* the answer of the hint
  query,      \* how many queries are done
  layer,      \* how many layers of the next are done
  evaluation, \* of the position in the next layer: query_evaluations[0]
  verified_positions,      \* per layer
  verified_positions_len,  \* per layer, as this query finds it
  next_verified_positions_len

inputVars == <<proof, channel, positions, fri_proofs>>
countVars == <<verified_positions_len, next_verified_positions_len>>
friVars == <<fri_step, inputVars, query, layer, evaluation, verified_positions, countVars>>

None == [l \in Layers |-> 0]

FriInit ==
  /\ fri_step = "idle"
  /\ proof \in Proofs /\ channel = Channel(proof) /\ positions = << >> /\ fri_proofs = << >>
  /\ query = 0 /\ layer = 0 /\ evaluation = 0
  /\ verified_positions = [l \in Layers |-> << >>]
  /\ verified_positions_len = None /\ next_verified_positions_len = None

\* What the DEEP composition of an honest prover's answers evaluates to.
Deep(position) == Evaluations[proof][1][position]

\* draw_integers draws until the positions differ.
DrawPositions(drawn) ==
  /\ fri_step = "idle" /\ IsInjective(drawn)
  /\ positions' = drawn
  /\ fri_proofs' = read_fri_proofs(proof, drawn)
  /\ evaluation' = Deep(drawn[1])
  /\ fri_step' = "read"
  /\ UNCHANGED <<proof, channel, query, layer, verified_positions, countVars>>

\* read_remainder hashes the remainder in rows; the root is the prover's own.
ReadRemainder ==
  /\ fri_step = "read"
  /\ fri_step' = IF Len(channel.remainder) % FOLDING_FACTOR = 0 THEN "layers" ELSE "rejected"
  /\ UNCHANGED <<inputVars, query, layer, evaluation, verified_positions, countVars>>

verify_merkle_proof(path, position, root) ==
  LET Up(node, h) == IF (position \div 2^(h - 1)) % 2 = 0
                       THEN hash_elements(<<node, path[h + 1]>>)
                       ELSE hash_elements(<<path[h + 1], node>>)
  IN  root = FoldLeft(Up, path[1], Indices(Len(path) - 1))

folded_position == positions[query + 1] % Modulus(layer + 1)

\* index_of, whose answer is checked, looks at what was verified when this query began.
AlreadyVerified ==
  \E i \in 1 .. verified_positions_len[layer + 1] : verified_positions[layer + 1][i] = folded_position

NextQuery(lens) ==
  /\ query' = query + 1 /\ layer' = 0
  /\ verified_positions_len' = lens /\ next_verified_positions_len' = None
  /\ IF query' = NUM_QUERIES
       THEN fri_step' = "remainder" /\ evaluation' = 0
       ELSE fri_step' = "layers" /\ evaluation' = Deep(positions[query' + 1])

\* memcpy of the lengths of this layer and those below
SkipLayers ==
  /\ fri_step = "layers" /\ layer < num_fri_layers /\ AlreadyVerified
  /\ NextQuery([l \in Layers |-> IF l <= layer THEN next_verified_positions_len[l]
                                 ELSE verified_positions_len[l]])
  /\ UNCHANGED <<inputVars, verified_positions>>

\* A cell of verified_positions is written once, or with the same value again.
LayerAccepted(l, index) ==
  LET query_proof == fri_proofs[l][index] IN
  /\ index <= Len(fri_proofs[l])
  /\ index > Len(verified_positions[l]) \/ verified_positions[l][index] = folded_position
  /\ verify_merkle_proof(query_proof.path, folded_position, channel.fri_roots[l])
  /\ hash_elements(query_proof.values) = query_proof.path[1]
  /\ evaluation \in Range(query_proof.values)

VerifyLayer ==
  /\ fri_step = "layers" /\ layer < num_fri_layers /\ ~AlreadyVerified
  /\ LET l == layer + 1
         index == verified_positions_len[l] + 1
     IN  IF LayerAccepted(l, index)
           THEN /\ verified_positions' = [verified_positions EXCEPT ![l] =
                     IF index > Len(@) THEN Append(@, folded_position) ELSE @]
                /\ next_verified_positions_len' = [next_verified_positions_len EXCEPT ![l] = index]
                /\ evaluation' = lagrange_eval(fri_proofs[l][index].values,
                                              XValues(l, folded_position), proof.alphas[l])
                /\ layer' = l /\ UNCHANGED fri_step
           ELSE /\ fri_step' = "rejected"
                /\ UNCHANGED <<verified_positions, next_verified_positions_len, evaluation, layer>>
  /\ UNCHANGED <<inputVars, query, verified_positions_len>>

\* assert_contains
FinalEvaluation ==
  /\ fri_step = "layers" /\ layer = num_fri_layers
  /\ IF evaluation \in Range(channel.remainder)
       THEN NextQuery(next_verified_positions_len)
       ELSE fri_step' = "rejected" /\ UNCHANGED <<query, layer, evaluation, countVars>>
  /\ UNCHANGED <<inputVars, verified_positions>>

\* The hint interpolate_poly, by the inverse transform.
InterpolatePoly(ys) ==
  LET n == Len(ys)
      roots == get_roots_of_unity(n)
  IN  [j \in 1 .. n |->
        Quotient(SumOver(n, LAMBDA i : Quotient(ys[i], pow(roots[i], j - 1))), n)]

max_degree == 2^(log2(trace_length) - num_fri_layers * log2(FOLDING_FACTOR))

\* tau is a hash of the remainder and the polynomial.
VerifyRemainder(tau) ==
  /\ fri_step = "remainder"
  /\ LET poly == InterpolatePoly(channel.remainder)
         accepted ==
           /\ max_degree + 1 <= Len(channel.remainder)
           /\ horner_eval(poly, tau) = lagrange_eval(channel.remainder, get_roots_of_unity(Len(channel.remainder)), tau)
           /\ \A j \in max_degree + 1 .. Len(poly) : poly[j] = 0
     IN  fri_step' = IF accepted THEN "accepted" ELSE "rejected"
  /\ UNCHANGED <<inputVars, query, layer, evaluation, verified_positions, countVars>>

FriNext ==
  \/ \E drawn \in [1 .. NUM_QUERIES -> 0 .. domain_size - 1] : DrawPositions(drawn)
  \/ ReadRemainder
  \/ SkipLayers \/ VerifyLayer \/ FinalEvaluation
  \/ \E tau \in Range(proof.alphas) : VerifyRemainder(tau)

-----------------------------------------------------------------------------
\* Whatever positions are drawn, and however many of them fall together in which
\* layer: the verifier finds for each the proof the parser wrote for it, and no check
\* refuses an honest prover; in the end each query was followed to the remainder, by
\* itself or by one that fell on the same position before it.
HonestProofAccepted ==
  /\ fri_step # "rejected"
  /\ fri_step = "accepted" =>
       \A q \in 1 .. NUM_QUERIES, l \in Layers :
         positions[q] % Modulus(l) \in Range(SubSeq(verified_positions[l], 1, verified_positions_len[l]))
=============================================================================
