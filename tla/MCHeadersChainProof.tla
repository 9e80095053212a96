------------------------ MODULE MCHeadersChainProof -------------------------
(***************************************************************************)
(* Two chains of five headers that part after the first, and batches of    *)
(* one and of two headers: a run may resume in the middle of what another  *)
(* would have made one batch.                                              *)
(***************************************************************************)
EXTENDS HeadersChainProof

MCChains == {<<"x", "x", "x", "x", "x">>, <<"x", "y", "x", "x", "x">>}
MCParameters == {[batches |-> 3, batch_size |-> 1], [batches |-> 2, batch_size |-> 2]}
=============================================================================
