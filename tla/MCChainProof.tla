---------------------------- MODULE MCChainProof ----------------------------
EXTENDS ChainProof
=============================================================================
