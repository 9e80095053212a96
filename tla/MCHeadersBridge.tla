--------------------------- MODULE MCHeadersBridge --------------------------
(***************************************************************************)
(* Two chains of six headers that part after the fourth: trees of all       *)
(* shapes up to six leaves, with null nodes on the first and the second    *)
(* row, of headers from both sides of a reorganisation.                    *)
(***************************************************************************)
EXTENDS HeadersBridge

MCChains == {<<"x", "x", "x", "x", "x", "x">>, <<"x", "x", "x", "x", "y", "x">>}
=============================================================================
