------------------------------ MODULE MCVideo ------------------------------
(***************************************************************************)
(* The picture buffer for TLC: nodes of length 3, a pool of 14, and frames *)
(* of up to five full nodes and a rest, the longest of which do not fit.   *)
(***************************************************************************)
EXTENDS VideoTransfer
=============================================================================
