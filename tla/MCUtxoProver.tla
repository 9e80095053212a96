---------------------------- MODULE MCUtxoProver ----------------------------
EXTENDS UtxoProver, TLC

MCSymmetry == Permutations(Leaf)
=============================================================================
