------------------------------ MODULE MCQueue ------------------------------
(* Small instances of BkQueue for TLC.                                      *)
EXTENDS BkQueue
CONSTANTS lo, mid, hi, idle, b1, b2

MCThread == {lo, mid, hi, idle}
MCInitPrio == (lo :> 1) @@ (mid :> 1) @@ (hi :> 0) @@ (idle :> 3)
MCNewPrio == {}
=============================================================================
