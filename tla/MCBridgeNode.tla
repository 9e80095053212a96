----------------------------- MODULE MCBridgeNode ---------------------------
(***************************************************************************)
(* The bridge node with nine leaves for a forest of seven, and a benchmark *)
(* of one of two blocks that spend the tracked ones.  The other leaves are *)
(* used until there is a benchmark.                                        *)
(***************************************************************************)
EXTENDS Benchmark

CONSTANTS a, b   \* leaves that are told apart; the others are interchangeable

Tracked == {a, b}

MCSymmetry == Permutations(Leaf \ Tracked)

MCBlock == {"A", "B"}
MCInputs == [k \in MCBlock |-> IF k = "A" THEN <<Coinbase, a, b>> ELSE <<Coinbase, b, a>>]
MCOwn == [k \in MCBlock |-> IF k = "A" THEN {b} ELSE {}]

BeforeBenchmarks ==
  /\ step = "off" /\ cache = NoFile /\ best = "A"
  /\ BridgeNext
  /\ UNCHANGED benchmarkVars

MCSpec == Init /\ [][Next \/ BeforeBenchmarks]_vars
=============================================================================
